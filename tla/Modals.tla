------------------------------- MODULE Modals -------------------------------
(***************************************************************************)
(* The modals of a page (src/web/component/modal).  There is one overlay   *)
(* and one AbortController: showing a modal aborts the one that is on, and *)
(* when the promise of a modal resolves, its caller goes on in a microtask *)
(* that hides the overlay and drops whichever controller is there by then. *)
(* An aborted settings panel resolves; a form, a message and the message   *)
(* of a pairing stop listening, so that their callers wait for ever.       *)
(***************************************************************************)
EXTENDS Naturals, Sequences

CONSTANT MaxModals  \* bound on the calls of showModal
ASSUME ModalsAssumption == MaxModals \in Nat

\* The modals of the pages; a form is a login, a new host or user, or a key code.
Kinds == {"settings", "form", "message", "pairing"}

VARIABLES
  shown,    \* how many calls of showModal there were
  kind,     \* the modal of each call
  promise,  \* onFinish: "none", "open", "resolved"; the call: "returned", "threw"
  current,  \* the call modalAbort belongs to, or 0
  enabled,  \* modalBackground is displayed
  jobs,     \* the calls that go on next, before any event
  took      \* history: the calls that replaced an open settings panel

modalVars == <<shown, kind, promise, current, enabled, jobs, took>>

Calls == 1..MaxModals

ModalsInit ==
  /\ shown = 0 /\ current = 0 /\ enabled = FALSE /\ jobs = <<>> /\ took = {}
  /\ kind = [c \in Calls |-> "none"] /\ promise = [c \in Calls |-> "none"]

\* The settings panel that is on resolves when it is aborted.
Resolves(c) == kind[c] = "settings" /\ promise[c] = "open"

\* Mutant: the new modal does not abort the one that is on.
ShowOver(k) ==
  /\ jobs = <<>> /\ shown < MaxModals
  /\ shown' = shown + 1 /\ current' = shown' /\ enabled' = TRUE
  /\ kind' = [kind EXCEPT ![shown'] = k] /\ promise' = [promise EXCEPT ![shown'] = "open"]
  /\ UNCHANGED <<jobs, took>>

\* showModal, up to its await: nothing else runs meanwhile.
Show(k) ==
  LET replaces == current # 0 /\ Resolves(current) IN
  /\ jobs = <<>> /\ shown < MaxModals
  /\ shown' = shown + 1 /\ current' = shown' /\ enabled' = TRUE
  /\ kind' = [kind EXCEPT ![shown'] = k]
  /\ promise' = [c \in Calls |-> IF c = shown' THEN "open"
                                 ELSE IF replaces /\ c = current THEN "resolved" ELSE promise[c]]
  /\ jobs' = (IF replaces THEN <<current>> ELSE <<>>)
  /\ took' = (IF replaces THEN took \cup {shown'} ELSE took)

\* The user submits, cancels, closes or confirms the modal on the screen.
Answer ==
  /\ jobs = <<>> /\ enabled /\ promise[shown] = "open"
  /\ promise' = [promise EXCEPT ![shown] = "resolved"] /\ jobs' = <<shown>>
  /\ UNCHANGED <<shown, kind, current, enabled, took>>

\* pair() has its answer and aborts the signal of its message, which listens until it is
\* answered or aborted.
PairingEnds(c) ==
  /\ jobs = <<>> /\ kind[c] = "pairing" /\ promise[c] = "open" /\ current = c
  /\ promise' = [promise EXCEPT ![c] = "resolved"] /\ jobs' = <<c>>
  /\ UNCHANGED <<shown, kind, current, enabled, took>>

\* showModal, after its await.
Continue ==
  /\ jobs # <<>> /\ enabled' = FALSE
  /\ LET c == Head(jobs)
         aborts == current # 0 /\ Resolves(current) IN
     /\ promise' = [d \in Calls |->
          IF d = c THEN (IF current = 0 THEN "threw" ELSE "returned")
          ELSE IF aborts /\ d = current THEN "resolved" ELSE promise[d]]
     /\ jobs' = (IF aborts THEN Append(Tail(jobs), current) ELSE Tail(jobs))
  /\ current' = 0 /\ UNCHANGED <<shown, kind, took>>

ModalsTypeOK ==
  /\ shown \in 0..MaxModals /\ current \in 0..MaxModals /\ enabled \in BOOLEAN
  /\ kind \in [Calls -> Kinds \cup {"none"}]
  /\ promise \in [Calls -> {"none", "open", "resolved", "returned", "threw"}]
  /\ jobs \in Seq(Calls) /\ took \subseteq Calls

-----------------------------------------------------------------------------
\* The modal shown last stays on the screen, with a controller of its own, until it is
\* done, and no settings panel is left waiting; only a modal that replaced an open settings
\* panel can be hidden before it was answered, or have its call throw.
ModalsAgree ==
  /\ enabled <=> current # 0
  /\ current # 0 => current = shown /\ promise[shown] \in {"open", "resolved"}
  /\ shown # 0 /\ promise[shown] = "open" => current = shown \/ shown \in took
  /\ \A c \in Calls : /\ Resolves(c) => c = current
                      /\ promise[c] = "threw" => c \in took
=============================================================================
