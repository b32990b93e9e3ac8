---------------------------- MODULE TransferProofs ----------------------------
(* Theorems about Transfer for any files, numbers and chunks: no upload     *)
(* replaces a file that was there, and one without a rival is stored whole. *)
EXTENDS Transfer, TLAPS, SequenceTheorems

Places == {"none", "search", "create", "write", "ok", "failed"}
Handlers == [at : Places, number : Nat, path : (Files \cup {"name", "none"}) \X Nat,
             written : Nat]

\* A handler has a path once it has searched, and a file once it has created it.
Orderly(f) ==
    LET h == handler[f] IN
    /\ h.at \in {"none", "search"} => h.path = NoPath
    /\ h.at \in {"none", "search", "create"} => h.written = 0
    /\ h.at \in {"create", "write", "ok"} => h.path # NoPath
    /\ h.at \in {"write", "ok"} => h.path \in DOMAIN disk
    /\ h.at = "ok" => h.written = Chunks

\* Nobody else was given the path of f.
Alone(f) == \A g \in Files \ {f} : handler[g].path # handler[f].path
Stored(f) ==
    handler[f].at \in {"write", "ok"} /\ Alone(f)
        => disk[handler[f].path] = [i \in 1..handler[f].written |-> f]

\* What was there when a request came is there still, and has another path.
Spared(f) == before[f] \subseteq DOMAIN disk /\ handler[f].path \notin before[f]

Shape ==
    /\ handler \in [Files -> Handlers]
    /\ DOMAIN before = Files
    /\ NoPath \notin DOMAIN disk
TransferInv ==
    Shape /\ \A f \in Files : Orderly(f) /\ Spared(f) /\ Stored(f)

LEMMA RunOfOne ==
    ASSUME NEW n \in Nat, NEW x
    PROVE  /\ [i \in 1..n |-> x] \in Seq({x})
           /\ Len([i \in 1..n |-> x]) = n
<1>1. [i \in 1..n |-> x] \in Seq({x})
  OBVIOUS
<1>2. DOMAIN [i \in 1..n |-> x] = 1..n
  OBVIOUS
<1>3. Len([i \in 1..n |-> x]) \in Nat /\ 1..Len([i \in 1..n |-> x]) = 1..n
  BY <1>1, <1>2, LenProperties
<1> QED
  BY <1>1, <1>3

LEMMA InitTransferInv == Init => TransferInv
<1> SUFFICES ASSUME Init PROVE TransferInv
  OBVIOUS
<1>1. handler \in [Files -> Handlers]
  BY DEF Init, Handlers, Places, NoPath
<1>2. NoPath \notin DOMAIN disk
  BY DEF Init, NoPath
<1> QED
  BY <1>1, <1>2 DEF Init, TransferInv, Shape, Orderly, Spared, Stored

\* Steps of the browser and of the requests leave the server's side alone.
LEMMA QuietSteps ==
    ASSUME TransferInv, UNCHANGED <<handler, disk, before>>
    PROVE  TransferInv'
  BY DEF TransferInv, Shape, Orderly, Spared, Stored, Alone

\* A step of the handler of f that leaves the disk alone and keeps its path.
LEMMA MoveSteps ==
    ASSUME TransferInv, NEW f \in Files, NEW place \in {"failed", "ok"},
           handler' = [handler EXCEPT ![f] = [handler[f] EXCEPT !.at = place]],
           UNCHANGED <<disk, before>>,
           place = "ok" => handler[f].at = "write" /\ handler[f].written = Chunks
    PROVE  TransferInv'
<1>1. /\ handler[f] \in Handlers
      /\ \A g \in Files : handler'[g] = IF g = f THEN [handler[f] EXCEPT !.at = place]
                                                 ELSE handler[g]
  BY DEF TransferInv, Shape
<1>2. [handler[f] EXCEPT !.at = place] \in Handlers
  BY <1>1 DEF Handlers, Places
<1>3. Shape'
  BY <1>1, <1>2 DEF TransferInv, Shape
<1>4. \A g \in Files :
        /\ handler'[g].path = handler[g].path /\ handler'[g].written = handler[g].written
        /\ g # f => handler'[g].at = handler[g].at
        /\ handler'[f].at = place
  BY <1>1 DEF Handlers
<1>5. \A g \in Files : Alone(g)' <=> Alone(g)
  BY <1>4 DEF Alone
<1>6. \A g \in Files : Orderly(g)' /\ Spared(g)'
  BY <1>4 DEF TransferInv, Orderly, Spared
<1>7. \A g \in Files : Stored(g)'
  BY <1>4, <1>5 DEF TransferInv, Stored
<1> QED
  BY <1>3, <1>6, <1>7 DEF TransferInv

LEMMA ArriveSteps ==
    ASSUME TransferInv, NEW f \in Files, Arrive(f)
    PROVE  TransferInv'
<1>1. /\ handler[f] \in Handlers /\ handler[f].at = "none"
      /\ \A g \in Files : handler'[g] = IF g = f THEN [handler[f] EXCEPT !.at = "search"]
                                                 ELSE handler[g]
      /\ disk' = disk
      /\ \A g \in Files : before'[g] = IF g = f THEN DOMAIN disk ELSE before[g]
  BY DEF TransferInv, Shape, Arrive, Moves
<1>2. [handler[f] EXCEPT !.at = "search"] \in Handlers
  BY <1>1 DEF Handlers, Places
<1>3. Shape'
  BY <1>1, <1>2 DEF TransferInv, Shape, Arrive, Moves
<1>4. \A g \in Files :
        /\ handler'[g].path = handler[g].path /\ handler'[g].written = handler[g].written
        /\ g # f => handler'[g].at = handler[g].at
        /\ handler'[f].at = "search"
  BY <1>1 DEF Handlers
<1>5. \A g \in Files : Alone(g)' <=> Alone(g)
  BY <1>4 DEF Alone
<1>6. \A g \in Files : Orderly(g)' /\ Spared(g)'
  BY <1>1, <1>4 DEF TransferInv, Shape, Orderly, Spared
<1>7. \A g \in Files : Stored(g)'
  BY <1>1, <1>4, <1>5 DEF TransferInv, Stored
<1> QED
  BY <1>3, <1>6, <1>7 DEF TransferInv

LEMMA SearchSteps ==
    ASSUME TransferInv, NEW f \in Files, Search(f)
    PROVE  TransferInv'
<1> DEFINE h == handler[f]
           path == IF h.number > MaxNumber THEN <<f, 0>> ELSE <<"name", h.number>>
           next == IF path \notin DOMAIN disk THEN [h EXCEPT !.at = "create", !.path = path]
                                              ELSE [h EXCEPT !.number = h.number + 1]
<1>1. /\ h \in Handlers /\ h.at = "search" /\ h.path = NoPath /\ h.written = 0
      /\ \A g \in Files : handler'[g] = IF g = f THEN next ELSE handler[g]
      /\ disk' = disk /\ before' = before
  BY DEF TransferInv, Shape, Orderly, Search, Moves
<1>2. /\ path # NoPath
      /\ path \in (Files \cup {"name", "none"}) \X Nat
  BY <1>1, TransferAssumption DEF NoPath, Handlers
<1>3. next \in Handlers
  <2> HIDE DEF path
  <2>1. [h EXCEPT !.number = h.number + 1] \in Handlers
    BY <1>1 DEF Handlers
  <2>2. [h EXCEPT !.at = "create", !.path = path] \in Handlers
    BY <1>1, <1>2 DEF Handlers, Places
  <2> QED
    BY <2>1, <2>2
<1>4. Shape'
  BY <1>1, <1>3 DEF TransferInv, Shape, Search, Moves
<1>5. CASE path \in DOMAIN disk
  <2>1. \A g \in Files :
          /\ handler'[g].path = handler[g].path /\ handler'[g].written = handler[g].written
          /\ handler'[g].at = handler[g].at
    BY <1>1, <1>5 DEF Handlers
  <2>2. \A g \in Files : Alone(g)' <=> Alone(g)
    BY <2>1 DEF Alone
  <2> QED
    BY <1>1, <1>4, <2>1, <2>2 DEF TransferInv, Orderly, Spared, Stored
<1>6. CASE path \notin DOMAIN disk
  <2>1. /\ handler'[f].at = "create" /\ handler'[f].path = path /\ handler'[f].written = 0
        /\ \A g \in Files \ {f} : handler'[g] = handler[g]
    BY <1>1, <1>6 DEF Handlers
  <2> HIDE DEF path, next
  <2>2. \A g \in Files : Orderly(g)' /\ Spared(g)'
    BY <1>1, <1>2, <1>6, <2>1 DEF TransferInv, Orderly, Spared
  <2>3. \A g \in Files : handler[g].at \in {"write", "ok"} /\ Alone(g)' => Alone(g)
    BY <1>1, <2>1 DEF TransferInv, Orderly, Alone
  <2>4. \A g \in Files : Stored(g)'
    BY <1>1, <2>1, <2>3 DEF TransferInv, Stored
  <2> QED
    BY <1>4, <2>2, <2>4 DEF TransferInv
<1> QED
  BY <1>5, <1>6

LEMMA CreateSteps ==
    ASSUME TransferInv, NEW f \in Files, Create(f)
    PROVE  TransferInv'
<1> DEFINE p == handler[f].path
<1>1. /\ handler[f] \in Handlers /\ handler[f].at = "create" /\ p # NoPath
      /\ handler[f].written = 0
      /\ \A g \in Files : handler'[g] = IF g = f THEN [handler[f] EXCEPT !.at = "write"]
                                                 ELSE handler[g]
      /\ before' = before
  BY DEF TransferInv, Shape, Orderly, Create, Moves
<1>2. /\ DOMAIN disk' = DOMAIN disk \cup {p} /\ disk'[p] = <<>>
      /\ \A q \in DOMAIN disk \ {p} : disk'[q] = disk[q]
  BY DEF Create
<1>3. [handler[f] EXCEPT !.at = "write"] \in Handlers
  BY <1>1 DEF Handlers, Places
<1>4. Shape'
  BY <1>1, <1>2, <1>3 DEF TransferInv, Shape, Create, Moves
<1>5. \A g \in Files :
        /\ handler'[g].path = handler[g].path /\ handler'[g].written = handler[g].written
        /\ g # f => handler'[g].at = handler[g].at
        /\ handler'[f].at = "write"
  BY <1>1 DEF Handlers
<1>6. \A g \in Files : Alone(g)' <=> Alone(g)
  BY <1>5 DEF Alone
<1>7. \A g \in Files : Orderly(g)' /\ Spared(g)'
  BY <1>1, <1>2, <1>5 DEF TransferInv, Orderly, Spared
<1>8. Stored(f)'
  <2>1. [i \in 1..handler[f].written |-> f] = <<>>
    BY <1>1
  <2> QED
    BY <1>2, <1>5, <2>1 DEF Stored
<1>9. ASSUME NEW g \in Files \ {f} PROVE Stored(g)'
  <2> SUFFICES ASSUME handler[g].at \in {"write", "ok"}, Alone(g)
               PROVE  disk'[handler[g].path] = [i \in 1..handler[g].written |-> g]
    BY <1>5, <1>6 DEF Stored
  <2>1. handler[g].path \in DOMAIN disk \ {p}
    BY DEF TransferInv, Orderly, Alone
  <2> QED
    BY <1>2, <2>1 DEF TransferInv, Stored
<1> QED
  BY <1>4, <1>7, <1>8, <1>9 DEF TransferInv

LEMMA WriteSteps ==
    ASSUME TransferInv, NEW f \in Files, WriteChunk(f)
    PROVE  TransferInv'
<1> DEFINE h == handler[f]
           p == h.path
           place == h.written + 1
<1>1. /\ h \in Handlers /\ h.at = "write" /\ p # NoPath /\ p \in DOMAIN disk
      /\ \A g \in Files : handler'[g] = IF g = f THEN [h EXCEPT !.written = place]
                                                 ELSE handler[g]
      /\ before' = before
  BY DEF TransferInv, Shape, Orderly, WriteChunk, Moves
<1>2. DOMAIN disk' = DOMAIN disk /\ \A q \in DOMAIN disk \ {p} : disk'[q] = disk[q]
  BY DEF WriteChunk
<1>3. [h EXCEPT !.written = place] \in Handlers
  BY <1>1 DEF Handlers, Places
<1>4. Shape'
  BY <1>1, <1>2, <1>3 DEF TransferInv, Shape, WriteChunk, Moves
<1>5. \A g \in Files :
        /\ handler'[g].path = handler[g].path /\ handler'[g].at = handler[g].at
        /\ g # f => handler'[g].written = handler[g].written
        /\ handler'[f].written = place
  BY <1>1 DEF Handlers
<1>6. \A g \in Files : Alone(g)' <=> Alone(g)
  BY <1>5 DEF Alone
<1>7. \A g \in Files : Orderly(g)' /\ Spared(g)'
  BY <1>1, <1>2, <1>5 DEF TransferInv, Orderly, Spared
<1>8. Stored(f)'
  <2> SUFFICES ASSUME Alone(f) PROVE disk'[p] = [i \in 1..place |-> f]
    BY <1>5, <1>6 DEF Stored
  <2>1. disk[p] = [i \in 1..h.written |-> f] /\ h.written \in Nat
    BY <1>1 DEF TransferInv, Stored, Handlers
  <2>2. Len(disk[p]) = h.written /\ DOMAIN disk[p] = 1..h.written
    BY <2>1, RunOfOne
  <2>3. disk'[p] =
          [i \in 1..place |-> IF i = place THEN f
                              ELSE IF i \in DOMAIN disk[p] THEN disk[p][i] ELSE "zeros"]
    BY <1>1, <2>1, <2>2 DEF WriteChunk
  <2>4. \A i \in 1..place : i # place => i \in 1..h.written
    BY <2>1
  <2> QED
    BY <2>1, <2>2, <2>3, <2>4
<1>9. ASSUME NEW g \in Files \ {f} PROVE Stored(g)'
  <2> SUFFICES ASSUME handler[g].at \in {"write", "ok"}, Alone(g)
               PROVE  disk'[handler[g].path] = [i \in 1..handler[g].written |-> g]
    BY <1>5, <1>6 DEF Stored
  <2>1. handler[g].path \in DOMAIN disk \ {p}
    BY DEF TransferInv, Orderly, Alone
  <2> QED
    BY <1>2, <2>1 DEF TransferInv, Stored
<1> QED
  BY <1>4, <1>7, <1>8, <1>9 DEF TransferInv

LEMMA NextTransferInv == TransferInv /\ [Next]_vars => TransferInv'
<1> SUFFICES ASSUME TransferInv, [Next]_vars PROVE TransferInv'
  OBVIOUS
<1>1. CASE UNCHANGED serverVars
  BY <1>1, QuietSteps DEF serverVars
<1>2. ASSUME NEW f \in Files, Finish(f) \/ Abort(f) PROVE TransferInv'
  BY <1>2, MoveSteps DEF Finish, Abort, Fails, Moves
<1>3. ASSUME NEW f \in Files,
             Drop(f) \/ Pick(f) \/ Progress(f) \/ OnLoad(f) \/ OnError(f)
               \/ \E g \in Files : Paste(f, g)
      PROVE  UNCHANGED serverVars
  BY <1>3 DEF Drop, Pick, Progress, OnLoad, OnError, Paste, Post, Settle
<1>4. CASE TimerHides \/ PasteNext
  BY <1>1, <1>4 DEF TimerHides, PasteNext, Post
<1> QED
  BY <1>1, <1>2, <1>3, <1>4, ArriveSteps, SearchSteps, CreateSteps, WriteSteps DEF Next, vars

(* No upload replaces a file that was there when it came, and one whose    *)
(* name nobody else found free holds, when it is answered, all of the file *)
(* and nothing else (unique_target_path, upload_host_file).                *)
THEOREM FilesAreKept == Spec => []KeepsFiles
<1>1. TransferInv => KeepsFiles
  <2> SUFFICES ASSUME TransferInv, NEW f \in Files
               PROVE /\ handler[f].path \notin before[f]
                     /\ handler[f].at = "ok" /\ Alone(f)
                          => disk[handler[f].path] = [i \in 1..Chunks |-> f]
    BY DEF KeepsFiles, Alone
  <2> QED
    BY DEF TransferInv, Orderly, Spared, Stored
<1> QED
  BY <1>1, InitTransferInv, NextTransferInv, PTL DEF Spec
=============================================================================
