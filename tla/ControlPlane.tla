----------------------------- MODULE ControlPlane -----------------------------
(***************************************************************************)
(* The tray process: Supervisor with control.Server.Publish as its         *)
(* OnSwitch, and the control server's Listen on the same context.          *)
(***************************************************************************)
EXTENDS Supervisor

VARIABLES
  current,      \* Server.current
  server,       \* "listening" or "closed"
  selected      \* auxiliary: some datacenter has been selected before

planeVars == <<vars, current, server, selected>>

(* The tray half of Control; no WebView polls.                             *)
C == INSTANCE Control WITH
  trayDone <- ctxDone,
  prev     <- [name |-> None, allDown |-> FALSE],
  fetch    <- "none",
  cur      <- [name |-> None, allDown |-> FALSE],
  watch    <- "polling"

Publish(a) ==
  /\ OnSwitch(a)
  /\ C!Publish(outbox[a])
  /\ UNCHANGED <<server, selected>>

Shutdown ==
  /\ ctxDone /\ server = "listening"
  /\ server' = "closed"
  /\ UNCHANGED <<vars, current, selected>>

PlaneInit ==
  /\ Init
  /\ current = C!ZeroActive
  /\ server = "listening"
  /\ selected = FALSE

PlaneNext ==
  \/ /\ Run \/ UI \/ Environment
     /\ selected' = (selected \/ active' # None)
     /\ UNCHANGED <<current, server>>
  \/ \E a \in Actors : Publish(a)
  \/ Shutdown

PlaneSpec == PlaneInit /\ [][PlaneNext]_planeVars

(* Supervisor's own fairness: a Publish is its OnSwitch.                   *)
PlaneFairSpec == PlaneSpec /\ Fairness

-------------------------------------------------------------------------------
(* Properties *)

(* Supervisor and Publish behave towards the control server as Control     *)
(* assumes: every change of the choice, and nothing else, leaves its actor *)
(* with one Switch to deliver, and what is published is what was handed    *)
(* over.                                                                   *)
ImplementsControl == C!Spec

(* The documented content of the server with a UI goroutine at work:       *)
(* "Server holds the latest active-DC state".                              *)
PublishedIsActive == C!PublishedIsActive

===============================================================================
