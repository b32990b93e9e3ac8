------------------------------- MODULE Viewer -------------------------------
(***************************************************************************)
(* The stream page (ViewerApp, src/web/stream.ts): it starts a Stream,     *)
(* shows the loading screen until the first ConnectionComplete, the        *)
(* recovery overlay when the stream fails, and restarts the stream with    *)
(* new settings.  The streams are those of ConnectPlan; a stream that was  *)
(* replaced keeps its listeners, so that the page hears it as well.        *)
(***************************************************************************)
EXTENDS ConnectPlan

VARIABLES
  stream,      \* the current stream
  restart,     \* restartStreamWithNewSettings awaits stop()
  connected,   \* hasConnectedOnce
  loading,     \* the loading screen is shown
  recovery     \* recoveryShown

pageVars == <<stream, restart, connected, loading, recovery>>
vars == <<streamVars, pageVars>>

\* startStream.
Begin(s) ==
  /\ stream' = s /\ loading' = TRUE /\ connected' = FALSE /\ recovery' = FALSE
  /\ NewStream(s)

Init ==
  /\ PlanInit /\ stream = 0 /\ restart = FALSE
  /\ connected = FALSE /\ loading = FALSE /\ recovery = FALSE

FirstStart ==
  /\ stream = 0 /\ Begin(1)
  /\ UNCHANGED <<restart, setting, inbox, far, planVars, stopping>>

RestartStops ==
  /\ stream \in 1..MaxStreams - 1 /\ ~restart /\ restart' = TRUE
  /\ loading' = FALSE /\ StopStream(stream)
  /\ UNCHANGED <<stream, connected, recovery, setting, socket, inbox, far, planVars>>

RestartStarts ==
  /\ restart /\ restart' = FALSE /\ Begin(stream + 1)
  /\ UNCHANGED <<setting, inbox, far, planVars, stopping>>

\* Mutant: minimalLogs drops the line like the others.
FatalDropped(terminal) == IF terminal THEN loading' = FALSE /\ recovery' = TRUE
                                      ELSE UNCHANGED <<loading, recovery>>

\* showConnectionRecovery, called for a fatal line before the first connection and
\* for ConnectionTerminated at any time.
Fatal(terminal) ==
  IF ~connected \/ terminal
    THEN loading' = (IF recovery THEN loading ELSE FALSE) /\ recovery' = TRUE
    ELSE UNCHANGED <<loading, recovery>>

\* The Settings button of the recovery overlay.
OpenSettings ==
  /\ recovery /\ recovery' = FALSE
  /\ UNCHANGED <<stream, restart, connected, loading, streamVars>>

-----------------------------------------------------------------------------
(* What arrives on the web socket of a stream.                             *)

Receive(s, m) ==
  /\ socket[s] = "open" /\ inbox[s] # <<>> /\ Head(inbox[s]) = m
  /\ inbox' = [inbox EXCEPT ![s] = Tail(@)]

OnSetup(s) ==
  /\ Receive(s, "Setup") /\ TryRoute(s, NextRoute("none"))
  /\ UNCHANGED <<pageVars, setting, socket, far, deaf, video, stopping>>

\* The page takes the stream for connected before the player is set up, which throws
\* without an audio player.
OnComplete(s) ==
  /\ Receive(s, "Complete")
  /\ connected' = TRUE /\ loading' = FALSE /\ recovery' = FALSE
  /\ \/ video' = [video EXCEPT ![s] = IF @ = "ready" THEN "playing" ELSE @]
     \/ UNCHANGED video
  /\ UNCHANGED <<stream, restart, setting, socket, far, plan, route, peer, deaf, stopping>>

OnFatal(s) ==
  /\ \/ Receive(s, "Fatal") /\ Fatal(FALSE)
     \/ Receive(s, "Terminated") /\ Fatal(TRUE)
  /\ UNCHANGED <<stream, restart, connected, setting, socket, far, planVars, stopping>>

\* The socket is closed by the server or by the network.  The line that would show it
\* is dropped (shouldEmitLog); a web socket transport ends with it.  What becomes of the
\* streamer no longer reaches the page.
OnSocketClosed(s) ==
  /\ socket[s] = "open" /\ socket' = [socket EXCEPT ![s] = "closed"]
  /\ inbox' = [inbox EXCEPT ![s] = <<>>] /\ far' = [far EXCEPT ![s] = "gone"]
  /\ IF route[s] = "socket" /\ plan[s] # "over"
       THEN LosePeer(s) /\ (IF plan[s] = "wait" THEN Fatal(FALSE) ELSE UNCHANGED <<loading, recovery>>)
       ELSE UNCHANGED <<peer, plan, deaf, loading, recovery>>
  /\ UNCHANGED <<stream, restart, connected, setting, route, video, stopping>>

-----------------------------------------------------------------------------
(* The plan of a stream.                                                   *)

\* connectWebRTCWithMode again, the web socket, or the end, with a fatal line.
NextAttempt(s) ==
  /\ plan[s] = "closing" /\ TryRoute(s, NextRoute(route[s]))
  /\ IF NextRoute(route[s]) = "none" THEN Fatal(FALSE) ELSE UNCHANGED <<loading, recovery>>
  /\ UNCHANGED <<stream, restart, connected, setting, socket, inbox, far, deaf, video, stopping>>

\* No pipeline for the codec: a fatal line, and the web socket when the setting is auto.
PipelinesFail(s) ==
  /\ plan[s] = "pipes" /\ Fatal(FALSE)
  /\ TryRoute(s, IF route[s] = "socket" THEN "none" ELSE NextRoute("relay"))
  /\ UNCHANGED <<stream, restart, connected, setting, socket, inbox, far, deaf, video, stopping>>

\* onclose with "failed": no further route, and the fatal line of the end.
PeerFails(s) ==
  /\ peer[s] = "up" /\ route[s] # "socket" /\ plan[s] \in {"pipes", "wait"} /\ LosePeer(s)
  /\ IF plan[s] = "wait" THEN Fatal(FALSE) ELSE UNCHANGED <<loading, recovery>>
  /\ UNCHANGED <<stream, restart, connected, setting, socket, inbox, far, route, video, stopping>>

Far(s) == FarAnswers(s) \/ FarTerminates(s) \/ FarLeaves(s) \/ FarCloses(s)
Await(s) == AttemptConnects(s) \/ AttemptFails(s) \/ PipelinesReady(s)

Next ==
  \/ FirstStart \/ RestartStops \/ RestartStarts \/ OpenSettings
  \/ \E s \in Streams :
       \/ OnSetup(s) \/ OnComplete(s) \/ OnFatal(s) \/ OnSocketClosed(s)
       \/ NextAttempt(s) \/ PipelinesFail(s) \/ PeerFails(s)
       \/ (SocketOpens(s) \/ Far(s) \/ Await(s)) /\ UNCHANGED pageVars

Spec == Init /\ [][Next]_vars

\* Timers fire and awaits end; messages and the closing of a socket arrive; the host
\* answers; the streamer ends without a transport or when told to.
FairSpec ==
  /\ Spec /\ WF_vars(FirstStart) /\ WF_vars(RestartStarts)
  /\ \A s \in Streams :
       /\ WF_vars(OnSetup(s) \/ OnComplete(s) \/ OnFatal(s))
       /\ WF_vars(NextAttempt(s)) /\ WF_vars(AttemptFails(s) /\ UNCHANGED pageVars)
       /\ WF_vars((SocketOpens(s) \/ FarAnswers(s) \/ FarCloses(s) \/ PipelinesReady(s))
                    /\ UNCHANGED pageVars)
       /\ WF_vars(socket[s] = "open" /\ inbox[s] # <<>> /\ Head(inbox[s]) = "closed" /\ OnSocketClosed(s))
       /\ WF_vars((peer[s] = "down" \/ stopping[s] = "sent") /\ FarLeaves(s)
                    /\ UNCHANGED pageVars)

-----------------------------------------------------------------------------
TypeOK ==
  /\ StreamTypeOK /\ stream \in 0..MaxStreams
  /\ {restart, connected, loading, recovery} \subseteq BOOLEAN

\* A transport that is gone is one the plan knows of, which is how the page can learn of
\* it, unless it closed while the pipelines were built, when its onclose goes nowhere.
EveryEndIsHeard ==
  \A s \in Streams : peer[s] = "down" => plan[s] \in {"closing", "over"} \/ deaf[s]

\* The socket of a stream that waits for it is gone: its Setup, its answer to
\* StartStream.  The page is never told.
Silent(s) == plan[s] \in {"idle", "wait"} /\ (socket[s] = "closed" \/ deaf[s])

\* The loading screen ends, with the stream or with the recovery overlay.
LoadingEnds == loading ~> (~loading \/ Silent(stream))
=============================================================================
