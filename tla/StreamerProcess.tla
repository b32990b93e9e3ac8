-------------------------- MODULE StreamerProcess --------------------------
(***************************************************************************)
(* What the server may rely on of a streamer process: it is spawned once,  *)
(* it announces its end at most once (StreamerIpcMessage::Stop), and it    *)
(* exits for good, after that or, when it crashes, without a word.         *)
(* StreamConnection is the process in detail; StreamBridge is the server   *)
(* that lives with it.                                                     *)
(***************************************************************************)
VARIABLE state

Init  == state \in {"none", "serving"}
Spawn == state = "none" /\ state' = "serving"
Tell  == state = "serving" /\ state' = "told"
Exit  == state = "told" /\ state' = "exited"
Crash == state \in {"serving", "told"} /\ state' = "exited"

\* A process that does not crash tells before it exits.
OrderlySpec == Init /\ [][Spawn \/ Tell \/ Exit]_state
Spec == Init /\ [][Spawn \/ Tell \/ Exit \/ Crash]_state
=============================================================================
