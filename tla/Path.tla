--------------------------------- MODULE Path ----------------------------------
(***************************************************************************)
(* A tray with two datacenters, the preferred one behind SSH: the          *)
(* Supervisor's prober and the gateway's handlers share the SSHForward, so *)
(* a handler can fail a probe and a probe can release a handler, and the   *)
(* Supervisor's choice decides whether handlers use the SSHForward at all. *)
(*                                                                         *)
(* The Supervisor is reduced to what it does with the answers of a round;  *)
(* its choice is FailoverSelector's, which module Supervisor implements.   *)
(* The other datacenter answers or not, round by round.                    *)
(***************************************************************************)
EXTENDS SSHForward, FiniteSetsExt

VARIABLES
  answer,       \* the SSH datacenter's result in this round; "none" between rounds
  up,           \* the healthy datacenters
  seasoned,     \* the SSH datacenter has been up for the hold-down
  active        \* the Supervisor's choice

choice   == <<up, seasoned, active>>
pathVars == <<vars, answer, choice>>

SSH   == 1                    \* ranks
Plain == 2

Selector == INSTANCE FailoverSelector WITH
  N <- 2, eligible <- up, settled <- up

-------------------------------------------------------------------------------
(* The prober *)

BeginRound ==
  /\ answer = "none"
  /\ \E c \in Probers : Call(c)
  /\ UNCHANGED <<answer, choice>>

ProbeSucceeds(c) ==           \* Probe closes the connection it was given
  /\ HangUp(c)
  /\ answer' = "ok"
  /\ UNCHANGED choice

ProbeFails(c) ==
  /\ ConnectFails(c) \/ CloseClient(c)
  /\ answer' = "fail"
  /\ UNCHANGED choice

(* The most preferred of the choices that the rule allows is the first one *)
(* that the scan meets.                                                    *)
FinishRound ==
  /\ answer # "none"
  /\ \E plain \in SUBSET {Plain} : up' = plain \cup {i \in {SSH} : answer = "ok"}
  /\ seasoned' = (seasoned /\ answer = "ok")
  /\ active' = LET settled == IF seasoned THEN up' ELSE up' \ {SSH}
               IN  Min(Selector!Successors(active, up', settled))
  /\ answer' = "none"
  /\ UNCHANGED vars

HoldDownPasses ==
  /\ SSH \in up /\ ~seasoned
  /\ seasoned' = TRUE
  /\ UNCHANGED <<vars, answer, up, active>>

-------------------------------------------------------------------------------
(* The gateway's handlers, and what prober and handlers do alike *)

HandlerDials(c) ==            \* handle: Active, then Dial
  /\ active = SSH
  /\ Call(c)

HandlerReturns(c) == HangUp(c) \/ ConnectFails(c) \/ CloseClient(c)

Step(c) ==
  \/ Lock(c) \/ TCPConnects(c) \/ HandshakeDone(c) \/ Forward(c) \/ DropClient(c)

Disturbance ==
  \/ HostChanges \/ \E n \in Clients : LinkFails(n)
  \/ \E c \in Callers : Deadline(c) \/ CloseBackend(c)

PathInit ==
  /\ Init
  /\ answer = "none"
  /\ up = {}
  /\ seasoned = FALSE
  /\ active = Selector!None

PathNext ==
  \/ BeginRound \/ FinishRound \/ HoldDownPasses
  \/ \E c \in Probers : ProbeSucceeds(c) \/ ProbeFails(c)
  \/ /\ \/ \E c \in Handlers : HandlerDials(c) \/ HandlerReturns(c)
        \/ \E c \in Callers : Step(c)
        \/ Disturbance
     /\ UNCHANGED <<answer, choice>>

PathSpec == PathInit /\ [][PathNext]_pathVars

(* SSHForward's fairness, the ticker's and the clock's.                    *)
PathFairSpec ==
  /\ PathSpec
  /\ Fairness
  /\ WF_pathVars(FinishRound) /\ WF_pathVars(HoldDownPasses)

-------------------------------------------------------------------------------
(* Properties *)

Calm == <>[][~Disturbance]_vars /\ <>[](host = "up" /\ webui)

(* Once the network stays calm, a Dial that failed late may still drop the *)
(* client that another has just made, and so on in turn: the prober's drop *)
(* fails a handler, the handler's the next probe.  The preferred           *)
(* datacenter comes back each time, whatever the handlers do, ...          *)
ComesBack == Calm => []<>(active = SSH)

(* ... and stays active for good once no new connection asks for it: what  *)
(* the last Dials left behind is dropped, and not again by every probe.    *)
Settles ==
  Calm /\ <>[][\A c \in Handlers : ~HandlerDials(c)]_vars => <>[](active = SSH)

===============================================================================
