---------------------------- MODULE JsonStorage ----------------------------
(***************************************************************************)
(* The JSON storage of the web server (src/app/storage/json): the users    *)
(* and hosts in memory, the sessions, the task that writes everything to   *)
(* one file, and the task that removes expired sessions.  An entry is      *)
(* Absent or a record; random ids are "any id that is absent".  The two    *)
(* maps are one function, since the writer locks both.  What the program   *)
(* stores of an entry and reads back is the entry: the fields that only    *)
(* travel (salt, address, certificates) are left out.                      *)
(***************************************************************************)
EXTENDS Naturals

CONSTANTS UserIds, HostIds, Names, Tokens, Absent

ASSUME IdsAreDistinct == UserIds \cap HostIds = {} /\ Absent \notin UserIds

VARIABLES
  data,      \* users and hosts in memory
  sessions,  \* Absent, or [user, expired], per session token
  token,     \* a () in the channel of capacity 1 to file_writer
  writer,    \* [at, left, snap]: the keys store() has yet to copy, and its copy
  disk,      \* [good, data]: the file; good is FALSE while it is truncated
  failed,    \* the last store() could not write the file
  up         \* the server process runs

storageVars == <<data, sessions, token, writer, disk, failed, up>>

Keys  == UserIds \cup HostIds
Users == [name: Names, role: {"User", "Admin"}, password: BOOLEAN]
Hosts == [owner: UserIds \cup {Absent}, paired: BOOLEAN]
Tables == {d \in [Keys -> Users \cup Hosts \cup {Absent}] :
             /\ \A u \in UserIds : d[u] \in Users \cup {Absent}
             /\ \A h \in HostIds : d[h] \in Hosts \cup {Absent}}

Existing(ids) == {k \in ids : data[k] # Absent}
WithName(n)   == {u \in Existing(UserIds) : data[u].name = n}

StorageTypeOK ==
  /\ data \in Tables /\ disk \in [good: BOOLEAN, data: Tables]
  /\ sessions \in [Tokens -> [user: UserIds, expired: BOOLEAN] \cup {Absent}]
  /\ writer \in [at: {"idle", "woken", "reading", "writing", "opened"},
                 left: SUBSET Keys, snap: Tables]
  /\ {token, failed, up} \subseteq BOOLEAN

\* A V1 file has hosts only, and migrate_v1_to_v2 makes them global.
Migrated == [k \in Keys |-> IF k \in HostIds THEN [owner |-> Absent, paired |-> TRUE]
                                             ELSE Absent]

NoEntries == [k \in Keys |-> Absent]
Resting   == [at |-> "idle", left |-> {}, snap |-> NoEntries]

StorageInit(file, given) ==
  /\ data = file /\ disk = [good |-> TRUE, data |-> file]
  /\ sessions = given
  /\ token = FALSE /\ failed = FALSE /\ up = TRUE
  /\ writer = Resting

-----------------------------------------------------------------------------
\* The writer holds the read locks of both maps while it copies, so nothing is
\* inserted or removed meanwhile; entries are still modified under their own lock.
Locked == writer.at = "reading"

Put(k, entry) == /\ entry = Absent \/ data[k] = Absent => ~Locked
                 /\ data' = [data EXCEPT ![k] = entry]

\* Mutant: no write is requested while one is under way.
ForceWriteIfIdle == token' = (token \/ writer.at = "idle")

\* try_send into a channel of one slot: Full means that a write is due anyway.
ForceWrite == token' = TRUE

WriterWakes ==
  /\ up /\ writer.at = "idle" /\ token
  /\ token' = FALSE /\ writer' = [writer EXCEPT !.at = "woken"]
  /\ UNCHANGED <<data, sessions, disk, failed, up>>

StoreLocks ==
  /\ up /\ writer.at = "woken"
  /\ writer' = [writer EXCEPT !.at = "reading", !.left = Keys]
  /\ UNCHANGED <<data, sessions, token, disk, failed, up>>

StoreCopies ==
  /\ up /\ writer.at = "reading"
  /\ \E k \in writer.left :
       /\ k \in HostIds => writer.left \subseteq HostIds
       /\ writer' = [writer EXCEPT !.left = @ \ {k}, !.snap[k] = data[k],
                                   !.at = IF writer.left = {k} THEN "writing" ELSE @]
  /\ UNCHANGED <<data, sessions, token, disk, failed, up>>

\* fs::write truncates the file, then writes it; an error is only logged.
StoreOpens ==
  /\ up /\ writer.at = "writing"
  /\ writer' = [writer EXCEPT !.at = "opened"] /\ disk' = [disk EXCEPT !.good = FALSE]
  /\ UNCHANGED <<data, sessions, token, failed, up>>

StoreEnds ==
  /\ up /\ writer.at = "opened"
  /\ disk' = [good |-> TRUE, data |-> writer.snap] /\ failed' = FALSE
  /\ writer' = Resting
  /\ UNCHANGED <<data, sessions, token, up>>

StoreFails ==
  /\ up /\ writer.at \in {"writing", "opened"}
  /\ failed' = TRUE /\ writer' = Resting
  /\ UNCHANGED <<data, sessions, token, disk, up>>

-----------------------------------------------------------------------------
Expire(t) ==
  /\ up /\ sessions[t] # Absent /\ ~sessions[t].expired
  /\ sessions' = [sessions EXCEPT ![t].expired = TRUE]
  /\ UNCHANGED <<data, token, writer, disk, failed, up>>

\* The checker sleeps one interval, then removes whatever has expired.
SweepSessions ==
  /\ up /\ \E t \in Tokens : sessions[t] # Absent /\ sessions[t].expired
  /\ sessions' = [t \in Tokens |-> IF sessions[t] # Absent /\ sessions[t].expired
                                     THEN Absent ELSE sessions[t]]
  /\ UNCHANGED <<data, token, writer, disk, failed, up>>

-----------------------------------------------------------------------------
\* The process is killed; its memory is gone.
StorageCrash ==
  /\ up /\ up' = FALSE
  /\ data' = NoEntries /\ sessions' = [t \in Tokens |-> Absent]
  /\ token' = FALSE /\ writer' = Resting
  /\ failed' = FALSE /\ UNCHANGED disk

\* A file that cannot be decoded is an error of App::new: the server does not start.
StorageLoads ==
  /\ ~up /\ disk.good
  /\ up' = TRUE /\ data' = disk.data
  /\ UNCHANGED <<sessions, token, writer, disk, failed>>

StorageNext ==
  \/ WriterWakes \/ StoreLocks \/ StoreCopies \/ StoreOpens \/ StoreEnds
  \/ (\E t \in Tokens : Expire(t)) \/ SweepSessions

\* The writer and the checker are tasks of the runtime.
StorageFairness ==
  /\ WF_storageVars(WriterWakes) /\ WF_storageVars(StoreLocks) /\ WF_storageVars(StoreCopies)
  /\ WF_storageVars(StoreOpens) /\ WF_storageVars(StoreEnds) /\ WF_storageVars(SweepSessions)
=============================================================================
