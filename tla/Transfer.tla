------------------------------- MODULE Transfer -------------------------------
(***************************************************************************)
(* Files on their way to the host: dropped, pasted and picked files become *)
(* requests of the page (src/web/stream/index.ts), which show their        *)
(* progress in one circle (src/web/stream.ts), and handlers of the server, *)
(* which look for a free name and write what arrives (src/src/api/         *)
(* stream.rs).  Every file here has the same name and directory; others    *)
(* never meet on the disk.                                                 *)
(***************************************************************************)
EXTENDS Integers, Sequences, FiniteSets

CONSTANTS
  Files,     \* the files that are sent, each once
  Chunks,    \* the parts a file is sent and written in
  MaxNumber  \* the last number that is tried for a name: 9999
ASSUME TransferAssumption ==
  Chunks \in Nat \ {0} /\ MaxNumber \in Nat /\ "none" \notin Files

VARIABLES
  xhr,      \* a file's request: "idle", "open", and how it ended: "load" or "error"
  sent,     \* the parts the browser sent
  paste,    \* the pasted files that wait, the first of them perhaps being sent
  picked,   \* the file of the side bar's button, disabled while there is one
  circle,   \* the progress that is shown, and whether the timer that hides it runs
  handler,  \* the server's side of a request
  disk,     \* the parts of every file of the directory, each with the file it is from
  before    \* history: the names that were taken when a request arrived

browserVars == <<xhr, sent, paste, picked, circle>>
serverVars == <<handler, disk, before>>
vars == <<browserVars, serverVars>>

NoPath == <<"none", 0>>
Init ==
  /\ xhr = [f \in Files |-> "idle"] /\ sent = [f \in Files |-> 0]
  /\ paste = <<>> /\ picked = {}
  /\ circle = [visible |-> FALSE, shown |-> 0, hiding |-> FALSE]
  /\ handler = [f \in Files |-> [at |-> "none", number |-> 0, path |-> NoPath, written |-> 0]]
  /\ \E taken \in SUBSET (0..MaxNumber) : disk = [p \in {"name"} \X taken |-> <<"old">>]
  /\ before = [f \in Files |-> {}]

-----------------------------------------------------------------------------
(* The circle.                                                             *)

\* Mutant: the circle of a complete transfer stays.
ShowForever(n) == [visible |-> TRUE, shown |-> n, hiding |-> FALSE]

\* updateFileTransferProgressCircle.
Show(n) == [visible |-> TRUE, shown |-> n, hiding |-> n = Chunks]
\* hideFileTransferProgressCircleImmediate.
Hidden == [visible |-> FALSE, shown |-> 0, hiding |-> FALSE]

TimerHides ==
  /\ circle.hiding /\ circle' = Hidden
  /\ UNCHANGED <<xhr, sent, paste, picked, serverVars>>

-----------------------------------------------------------------------------
(* The requests of the page.                                               *)

\* postHostPayloadWithProgress.
Post(f) ==
  /\ xhr[f] = "idle" /\ xhr' = [xhr EXCEPT ![f] = "open"] /\ circle' = Show(0)
  /\ UNCHANGED <<sent, serverVars>>

Waits(f) == \E i \in DOMAIN paste : paste[i] = f
Drop(f) == ~Waits(f) /\ Post(f) /\ UNCHANGED <<paste, picked>>
Pick(f) == picked = {} /\ ~Waits(f) /\ Post(f) /\ picked' = {f} /\ UNCHANGED paste
Paste(f, g) ==
  /\ paste = <<>> /\ f # g /\ xhr[g] = "idle" /\ paste' = <<f, g>> /\ Post(f)
  /\ UNCHANGED picked
\* One pasted file after the other, whatever became of it.
PasteNext == paste # <<>> /\ Post(Head(paste)) /\ UNCHANGED <<paste, picked>>

Progress(f) ==
  /\ xhr[f] = "open" /\ sent[f] < Chunks
  /\ sent' = [sent EXCEPT ![f] = @ + 1] /\ circle' = Show(sent'[f])
  /\ UNCHANGED <<xhr, paste, picked, serverVars>>

\* What awaits a request goes on when it ends.
Settle(f, how) ==
  /\ xhr[f] = "open" /\ xhr' = [xhr EXCEPT ![f] = how]
  /\ picked' = picked \ {f}
  /\ paste' = (IF paste # <<>> /\ Head(paste) = f THEN Tail(paste) ELSE paste)
  /\ UNCHANGED <<sent, serverVars>>

OnLoad(f) ==
  /\ handler[f].at \in {"ok", "failed"} /\ Settle(f, "load")
  /\ circle' = (IF handler[f].at = "ok" THEN Show(Chunks) ELSE Hidden)
OnError(f) == Settle(f, "error") /\ circle' = Hidden

-----------------------------------------------------------------------------
(* upload_host_file.                                                       *)

Moves(f, next) == handler' = [handler EXCEPT ![f] = next] /\ UNCHANGED browserVars
Fails(f) == Moves(f, [handler[f] EXCEPT !.at = "failed"])

\* The directory is there or is created.
Arrive(f) ==
  /\ xhr[f] # "idle" /\ handler[f].at = "none"
  /\ Moves(f, [handler[f] EXCEPT !.at = "search"])
  /\ before' = [before EXCEPT ![f] = DOMAIN disk] /\ UNCHANGED disk

\* Mutant: only the name itself is looked up.
SearchOnce(f) ==
  LET h == handler[f]
      free == <<"name", h.number>> \notin DOMAIN disk \/ h.number > 0 IN
  /\ h.at = "search"
  /\ Moves(f, IF free THEN [h EXCEPT !.at = "create", !.path = <<"name", h.number>>]
              ELSE [h EXCEPT !.number = @ + 1])
  /\ UNCHANGED <<disk, before>>

\* unique_target_path: one lookup; after the last number the name is a new identifier.
Search(f) ==
  LET h == handler[f]
      path == IF h.number > MaxNumber THEN <<f, 0>> ELSE <<"name", h.number>> IN
  /\ h.at = "search"
  /\ Moves(f, IF path \notin DOMAIN disk THEN [h EXCEPT !.at = "create", !.path = path]
              ELSE [h EXCEPT !.number = @ + 1])
  /\ UNCHANGED <<disk, before>>

\* File::create empties a file that came to be since.
Create(f) ==
  LET p == handler[f].path IN
  /\ handler[f].at = "create" /\ Moves(f, [handler[f] EXCEPT !.at = "write"])
  /\ disk' = [q \in DOMAIN disk \cup {p} |-> IF q = p THEN <<>> ELSE disk[q]]
  /\ UNCHANGED before

\* Every handler writes at its own place in the file.
WriteChunk(f) ==
  LET h == handler[f]
      old == disk[h.path]
      place == h.written + 1
      Byte(i) == IF i = place THEN f ELSE IF i \in DOMAIN old THEN old[i] ELSE "zeros" IN
  /\ h.at = "write" /\ h.written < sent[f]
  /\ Moves(f, [h EXCEPT !.written = place])
  /\ disk' = [disk EXCEPT ![h.path] =
                [i \in 1..(IF Len(old) > place THEN Len(old) ELSE place) |-> Byte(i)]]
  /\ UNCHANGED before

Finish(f) ==
  /\ handler[f].at = "write" /\ handler[f].written = Chunks
  /\ Moves(f, [handler[f] EXCEPT !.at = "ok"]) /\ UNCHANGED <<disk, before>>

\* The body ends early, or the disk fails: what was written stays.
Abort(f) ==
  /\ handler[f].at \in {"search", "create", "write"} /\ Fails(f) /\ UNCHANGED <<disk, before>>

-----------------------------------------------------------------------------
Next ==
  \/ TimerHides \/ PasteNext
  \/ \E f \in Files :
       \/ Drop(f) \/ Pick(f) \/ Progress(f) \/ OnLoad(f) \/ OnError(f)
       \/ Arrive(f) \/ Search(f) \/ Create(f) \/ WriteChunk(f) \/ Finish(f) \/ Abort(f)
       \/ \E g \in Files : Paste(f, g)

\* Timers fire, promises continue, and a request is answered or lost.
Fairness ==
  /\ WF_vars(TimerHides) /\ WF_vars(PasteNext)
  /\ \A f \in Files : WF_vars(OnLoad(f) \/ OnError(f))
Spec == Init /\ [][Next]_vars /\ Fairness

-----------------------------------------------------------------------------
\* An upload never replaces what was in the directory when its request came, and when it
\* is answered with success its file holds all of it and nothing else, unless another
\* request found the same name free before the file was created.
KeepsFiles ==
  \A f \in Files :
    /\ handler[f].path \notin before[f]
    /\ handler[f].at = "ok" /\ (\A g \in Files \ {f} : handler[g].path # handler[f].path)
         => disk[handler[f].path] = [i \in 1..Chunks |-> f]

\* However transfers overlap, the timer of a complete one never hides the progress of
\* another, and the circle goes when none is left.
CircleIsTrue ==
  /\ [](circle.hiding => circle.visible /\ circle.shown = Chunks)
  /\ (\A f \in Files : xhr[f] # "open") ~> (~circle.visible \/ \E f \in Files : xhr[f] = "open")
=============================================================================
