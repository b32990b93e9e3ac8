------------------------------ MODULE Server ------------------------------
(***************************************************************************)
(* Accounts and hosts of the web server: the HTTP handlers of src/api over *)
(* src/app, on the storage of JsonStorage.  A handler is async and cut at  *)
(* its awaits: what it read before (its caller, a host with its owner) may *)
(* be stale when it goes on.  Requests run concurrently; req[r] is one of  *)
(* them: its operation, caller, target, where it is, and what it read;     *)
(* role, the caller's when the request came, is only for the properties.   *)
(* Hosts are queried and paired over the network, which may fail.          *)
(***************************************************************************)
EXTENDS JsonStorage, FiniteSets

CONSTANTS
  Requests,                  \* slots for handlers that run at a time, numbers
  MaxEvents,                 \* bound on requests, failed writes and crashes together
  FirstLoginCreateAdmin,     \* config.web_server
  AssignGlobalHosts,
  AutoCreateMissingUser

ASSUME RequestsAssumption ==
  /\ Requests \subseteq Nat /\ MaxEvents \in Nat
  /\ UserIds # {} /\ Names # {} /\ Tokens # {}

VARIABLES req, events

serverVars == <<storageVars, req, events>>

Idle == [op |-> "none", at |-> "idle", user |-> Absent, role |-> "Gone",
         target |-> Absent, read |-> Absent, hosts |-> {}]
AdminOps == {"addUser", "deleteUser", "patchUser"}
HostOps  == {"deleteHost", "giveHost", "patchHost", "pair"}
Ops == AdminOps \cup HostOps \cup {"none", "login", "header", "setPassword", "postHost"}

RequestType ==
  [op: Ops, user: UserIds \cup {Absent}, role: {"Gone", "User", "Admin"},
   target: Keys \cup Names \cup {Absent},
   at: {"idle", "look", "insert", "change", "dirty", "listed", "assign", "session"},
   read: Users \cup Hosts \cup {Absent}, hosts: SUBSET HostIds]

ServerTypeOK == /\ StorageTypeOK /\ events \in 0..MaxEvents
          /\ req \in [Requests -> RequestType]

\* A new installation with its hosts migrated from V1, or one where the admin,
\* who took them over, is logged in.
ServerInit ==
  /\ req = [r \in Requests |-> Idle] /\ events = 0
  /\ \/ StorageInit(Migrated, [t \in Tokens |-> Absent])
     \/ LET u == CHOOSE u \in UserIds : TRUE
            n == CHOOSE n \in Names : TRUE
            t == CHOOSE t \in Tokens : TRUE
        IN  StorageInit([k \in Keys |-> IF k \in HostIds THEN [owner |-> u, paired |-> TRUE]
                                        ELSE IF k = u THEN [name |-> n, role |-> "Admin", password |-> TRUE]
                                        ELSE Absent],
                        [[s \in Tokens |-> Absent] EXCEPT ![t] = [user |-> u, expired |-> FALSE]])

Step(r, fields) == req' = [req EXCEPT ![r] = fields]
Goto(r, place)  == req' = [req EXCEPT ![r].at = place]
Ends(r)         == req' = [req EXCEPT ![r] = Idle]
OnlyReads       == UNCHANGED <<data, token>>
Elsewhere       == UNCHANGED <<sessions, writer, disk, failed, up, events>>

Role(u) == IF data[u] = Absent THEN "Gone" ELSE data[u].role
IsAdmin(u) == Role(u) = "Admin"
\* A session is looked up without a glance at its user, its age or its password.
Callers == {sessions[t].user : t \in {s \in Tokens : sessions[s] # Absent}}
\* AuthenticatedUser::host
Usable(u, h) == data[h] # Absent /\ data[h].owner \in {Absent, u}
ListUserHosts(u) == {h \in HostIds : Usable(u, h)}

-----------------------------------------------------------------------------
(* Requests arrive.                                                        *)

\* The first free slot.
Free == {q \in Requests : req[q] = Idle /\ \A p \in Requests : p < q => req[p] # Idle}

Counted == events < MaxEvents /\ events' = events + 1

Arrive(r, fields) ==
  /\ up /\ r \in Free /\ Counted /\ Step(r, fields)
  /\ UNCHANGED storageVars

\* A request of u, or of nobody.
By(u, op, at, target, read) ==
  [op |-> op, at |-> at, user |-> u, role |-> IF u = Absent THEN "Gone" ELSE Role(u),
   target |-> target, read |-> read, hosts |-> {}]

\* try_add_first_login: any_user_exists, and then the name is looked up.
FirstLogin(r, name) ==
  /\ FirstLoginCreateAdmin /\ Existing(UserIds) = {}
  /\ Arrive(r, By(Absent, "login", "look", name,
                  [name |-> name, role |-> "Admin", password |-> TRUE]))

Login(r, name) ==
  /\ ~(FirstLoginCreateAdmin /\ Existing(UserIds) = {})
  /\ \E u \in WithName(name) :
       data[u].password /\ Arrive(r, By(u, "login", "session", Absent, Absent))

\* A forwarded header names a user that does not exist.
ForwardedHeader(r, name) ==
  /\ AutoCreateMissingUser /\ WithName(name) = {}
  /\ Arrive(r, By(Absent, "header", "look", name,
                  [name |-> name, role |-> "User", password |-> FALSE]))

AddUser(r, u, name, role) ==
  /\ u \in Callers /\ IsAdmin(u)
  /\ Arrive(r, By(u, "addUser", "look", name,
                  [name |-> name, role |-> role, password |-> TRUE]))

\* patch_user and delete_user of an admin look their target up first.
AdminRequest(r, u, v) ==
  /\ u \in Callers /\ IsAdmin(u) /\ data[v] # Absent
  /\ \E op \in {"deleteUser", "patchUser"} : Arrive(r, By(u, op, "change", v, Absent))

\* patch_user of anyone else: the own password only.
SetPassword(r, u) ==
  /\ u \in Callers /\ Role(u) = "User"
  /\ Arrive(r, By(u, "setPassword", "change", u, Absent))

\* Every host handler takes the host first, if its owner lets the caller.
HostRequest(r, u, h) ==
  /\ u \in Callers /\ Usable(u, h)
  /\ \E op \in HostOps : Arrive(r, By(u, op, "look", h, Absent))

\* host_unique_id reads the caller; then the new host is asked over the network.
PostHost(r, u) ==
  /\ u \in Callers /\ data[u] # Absent
  /\ Arrive(r, By(u, "postHost", "insert", Absent, [owner |-> u, paired |-> FALSE]))

Logout(t) ==
  /\ up /\ sessions[t] # Absent /\ Counted
  /\ sessions' = [sessions EXCEPT ![t] = Absent]
  /\ UNCHANGED <<data, token, writer, disk, failed, up, req>>

-----------------------------------------------------------------------------
(* Users.                                                                  *)

\* get_user_by_name, under a read lock that is released before the insert.
NameIsFree(r) ==
  /\ req[r].at = "look" /\ req[r].op \notin HostOps
  /\ IF WithName(req[r].target) = {} THEN Goto(r, "insert") ELSE Ends(r)
  /\ OnlyReads /\ Elsewhere

\* A random id of 32 bits is taken for one that nothing refers to any more.
Fresh(u) ==
  /\ data[u] = Absent /\ u \notin Callers
  /\ \A r \in Requests : req[r].user # u /\ req[r].target # u
  /\ \A h \in Existing(HostIds) : data[h].owner # u

InsertUser(r) ==
  /\ req[r].at = "insert" /\ req[r].op # "postHost"
  /\ \E u \in UserIds : /\ Fresh(u)
                        /\ Put(u, req[r].read)
                        /\ Step(r, [req[r] EXCEPT !.at = "dirty", !.target = u])
  /\ UNCHANGED token /\ Elsewhere

\* An admin's patch without a password stores that there is none.
ModifyUser(r) ==
  LET v == req[r].target IN
  /\ req[r].at = "change" /\ req[r].op \in {"patchUser", "setPassword"}
  /\ \/ /\ data[v] = Absent /\ Ends(r) /\ OnlyReads
     \/ /\ data[v] # Absent /\ Goto(r, "dirty") /\ UNCHANGED token
        /\ \/ req[r].op = "setPassword" /\ Put(v, [data[v] EXCEPT !.password = TRUE])
           \/ /\ req[r].op = "patchUser"
              /\ \E role \in {"User", "Admin"}, password \in BOOLEAN :
                   Put(v, [data[v] EXCEPT !.role = role, !.password = password])
  /\ Elsewhere

\* The write is requested even when there was nothing to remove.
RemoveUser(r) ==
  /\ req[r].at = "change" /\ req[r].op = "deleteUser"
  /\ Put(req[r].target, Absent) /\ Goto(r, "dirty")
  /\ UNCHANGED token /\ Elsewhere

\* Mutant: only a login asks for a write.
RequestWriteOnLogin(r) ==
  /\ req[r].at = "dirty"
  /\ UNCHANGED data
  /\ IF req[r].op = "login"
       THEN ForceWrite /\ Step(r, [req[r] EXCEPT !.user = req[r].target, !.role = "Admin",
                                                 !.at = "session"])
       ELSE Ends(r) /\ UNCHANGED token
  /\ Elsewhere

\* After the lock of the users is released.
RequestWrite(r) ==
  /\ req[r].at = "dirty"
  /\ ForceWrite /\ UNCHANGED data
  /\ IF req[r].op = "login"
       THEN Step(r, [req[r] EXCEPT !.user = req[r].target, !.role = "Admin",
                                   !.at = IF AssignGlobalHosts THEN "listed" ELSE "session"])
       ELSE Ends(r)
  /\ Elsewhere

\* The first admin takes the global hosts over, one by one, as it listed them.
ListHosts(r) ==
  /\ req[r].at = "listed"
  /\ Step(r, [req[r] EXCEPT !.at = "assign", !.hosts = ListUserHosts(req[r].user)])
  /\ OnlyReads /\ Elsewhere

AssignHost(r) ==
  LET left == req[r].hosts IN
  /\ req[r].at = "assign"
  /\ \/ left = {} /\ Goto(r, "session") /\ OnlyReads
     \/ \E h \in left :
          /\ Step(r, [req[r] EXCEPT !.hosts = left \ {h}])
          /\ \/ data[h] = Absent /\ OnlyReads
             \/ /\ data[h] # Absent
                /\ Put(h, [data[h] EXCEPT !.owner = req[r].user]) /\ ForceWrite
  /\ Elsewhere

\* create_session_token does not ask whether the user still exists.
NewSession(r) ==
  /\ req[r].at = "session"
  /\ \E t \in Tokens : /\ sessions[t] = Absent
                       /\ sessions' = [sessions EXCEPT ![t] = [user |-> req[r].user, expired |-> FALSE]]
  /\ Ends(r)
  /\ UNCHANGED <<data, token, writer, disk, failed, up, events>>

-----------------------------------------------------------------------------
(* Hosts.  Their lock is held until the write is requested.                *)

AddHost(r) ==
  /\ req[r].at = "insert" /\ req[r].op = "postHost"
  /\ \E h \in HostIds : data[h] = Absent /\ Put(h, req[r].read)
  /\ ForceWrite /\ Ends(r) /\ Elsewhere

Fail(r) == Ends(r) /\ OnlyReads /\ Elsewhere
Asks(r, op)    == req[r].at = "look" /\ req[r].op = op
Goes(r, check) == /\ IF check THEN Goto(r, "change") ELSE Ends(r)
                  /\ OnlyReads /\ Elsewhere

\* The host is read again, and the caller's role unless the host is its own.
DeleteHost(r) ==
  LET u == req[r].user  h == req[r].target IN
  Asks(r, "deleteHost") /\ Goes(r, data[h] # Absent /\ (data[h].owner = u \/ IsAdmin(u)))

\* Mutant: only a change of owner asks for a role, and User is the role refused.
PatchHostUnlessUser(r) ==
  \/ Asks(r, "patchHost") /\ Goes(r, TRUE)
  \/ Asks(r, "giveHost") /\ Goes(r, Role(req[r].user) # "User")

\* Only an admin may change the owner.
PatchHost(r) ==
  \/ Asks(r, "patchHost") /\ Goes(r, Role(req[r].user) # "Gone")
  \/ Asks(r, "giveHost") /\ Goes(r, IsAdmin(req[r].user))

\* The host is asked under the caller's client id and paired with the PIN, which
\* may fail or take the user minutes; can_use looks at the host read before.
PairHost(r) ==
  \/ Asks(r, "pair") /\ Goes(r, Role(req[r].user) # "Gone")
  \/ Asks(r, "pair") /\ Fail(r)

\* The new host does not answer.
HostNotFound(r) == req[r].op = "postHost" /\ Fail(r)

RemoveHost(r) ==
  LET h == req[r].target IN
  /\ req[r].at = "change" /\ req[r].op = "deleteHost"
  /\ \/ data[h] = Absent /\ OnlyReads
     \/ data[h] # Absent /\ Put(h, Absent) /\ ForceWrite
  /\ Ends(r) /\ Elsewhere

\* A patch without change_owner writes what is there.
ModifyHost(r) ==
  LET h == req[r].target IN
  /\ req[r].at = "change" /\ req[r].op \in {"patchHost", "giveHost", "pair"}
  /\ \/ data[h] = Absent /\ OnlyReads
     \/ /\ data[h] # Absent /\ ForceWrite
        /\ \/ req[r].op = "pair" /\ Put(h, [data[h] EXCEPT !.paired = TRUE])
           \/ req[r].op = "patchHost" /\ UNCHANGED data
           \/ /\ req[r].op = "giveHost"
              /\ \E owner \in UserIds \cup {Absent} : Put(h, [data[h] EXCEPT !.owner = owner])
  /\ Ends(r) /\ Elsewhere

-----------------------------------------------------------------------------
Crash == StorageCrash /\ req' = [r \in Requests |-> Idle] /\ Counted
Fails == StoreFails /\ UNCHANGED req /\ Counted
Start == StorageLoads /\ UNCHANGED <<req, events>>

Arrives(r) ==
  \/ \E n \in Names : FirstLogin(r, n) \/ Login(r, n) \/ ForwardedHeader(r, n)
  \/ \E u \in UserIds : \/ \E n \in Names, role \in {"User", "Admin"} : AddUser(r, u, n, role)
                        \/ \E v \in UserIds : AdminRequest(r, u, v)
                        \/ SetPassword(r, u)
                        \/ \E h \in HostIds : HostRequest(r, u, h)
                        \/ PostHost(r, u)

Handle(r) ==
  \/ NameIsFree(r) \/ InsertUser(r) \/ ModifyUser(r) \/ RemoveUser(r) \/ RequestWrite(r)
  \/ ListHosts(r) \/ AssignHost(r) \/ NewSession(r)
  \/ DeleteHost(r) \/ PatchHost(r) \/ PairHost(r) \/ HostNotFound(r)
  \/ AddHost(r) \/ RemoveHost(r) \/ ModifyHost(r)

ServerNext ==
  \/ \E r \in Requests : Arrives(r) \/ Handle(r)
  \/ \E t \in Tokens : Logout(t)
  \/ StorageNext /\ UNCHANGED <<req, events>>
  \/ Crash \/ Fails \/ Start

\* Handlers run on: nothing they await is for ever, a network call times out.
ServerFairness == StorageFairness /\ \A r \in Requests : WF_serverVars(Handle(r))
ServerSpec == ServerInit /\ [][ServerNext]_serverVars
ServerFairSpec == ServerSpec /\ ServerFairness

-----------------------------------------------------------------------------
(* Properties.                                                             *)

\* store() copies entry by entry while entries change, and a write is requested
\* after the lock is released: still, an entry that differs from the file is
\* about to be written (force_write, file_writer, store).
WriteDue(k) ==
  \/ token \/ writer.at = "woken"
  \/ \E r \in Requests : req[r].at = "dirty" /\ req[r].target = k
  \/ writer.at = "reading" /\ k \in writer.left
  \/ writer.at # "idle" /\ writer.snap[k] = data[k]
ChangesAreDue ==
  up /\ ~failed => \A k \in Keys : WriteDue(k) \/ (disk.good /\ disk.data[k] = data[k])

\* While the server runs and its writes succeed, the file catches up with memory.
DiskCatchesUp == []<>(~up \/ failed \/ (disk.good /\ disk.data = data))

\* Sessions are not removed with their user, and host() only compares owners: a deleted
\* user's session can still take away a host, if it is his own when that is asked, and
\* changes no user and no other host, and adds none (extraction, host, role, pair).  By
\* the time the host is removed another request may have given it to somebody else.
DeletedUsersKeepOut ==
  [][\A r \in Requests :
       up' /\ req'[r] # req[r] /\ req[r].user # Absent /\ req[r].role = "Gone"
         => LET h == req[r].target IN
            /\ \A k \in Keys : data'[k] # data[k] => k = h /\ k \in HostIds /\ data'[k] = Absent
            /\ req'[r].at = "change" => data[h].owner = req[r].user]_serverVars
=============================================================================
