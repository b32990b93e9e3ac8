-------------------------- MODULE StreamLifecycle --------------------------
(***************************************************************************)
(* What the server promises of one stream, start_host of src/api/stream.rs *)
(* seen from outside: a session is opened, refused, or served by one       *)
(* streamer process; a process that ends, or says so, ends the session;    *)
(* and a session that ends leaves neither process nor web socket behind.   *)
(***************************************************************************)
VARIABLES phase, process, socket
vars == <<phase, process, socket>>

Init == phase = "opening" /\ process = FALSE /\ socket = TRUE

Leave  == socket = TRUE /\ socket' = FALSE /\ UNCHANGED <<phase, process>>
Refuse == phase = "opening" /\ phase' = "over" /\ socket' = FALSE /\ UNCHANGED process
Launch == phase = "opening" /\ phase' = "serving" /\ process' = TRUE /\ UNCHANGED socket
Die    == process = TRUE /\ process' = FALSE /\ UNCHANGED <<phase, socket>>
End    == phase = "serving" /\ phase' = "ending" /\ UNCHANGED <<process, socket>>
Finish == /\ phase = "ending" /\ socket = FALSE
          /\ phase' = "over" /\ process' = FALSE /\ UNCHANGED socket

Next == Leave \/ Refuse \/ Launch \/ Die \/ End \/ Finish

\* A session whose process is gone ends, and an ended one is cleaned up.
Ends     == End /\ process = FALSE
CleansUp == phase = "ending" /\ (Leave \/ Finish)
Spec == Init /\ [][Next]_vars /\ WF_vars(Ends) /\ WF_vars(CleansUp)
=============================================================================
