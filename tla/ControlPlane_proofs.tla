------------------------- MODULE ControlPlane_proofs -------------------------
(***************************************************************************)
(* ControlPlane implements the tray half of Control, for any number of     *)
(* datacenters and UI goroutines: what Control assumes of a Supervisor is  *)
(* what Supervisor does.                                                   *)
(***************************************************************************)
EXTENDS ControlPlane, Supervisor_proofs

(* A datacenter is only active if one has been selected, and the prober    *)
(* has handed over its Switch before it enters the next round.             *)
PlaneIInv ==
  /\ IInv
  /\ selected \in BOOLEAN
  /\ active # None => selected
  /\ run \in {"new", "probing"} => outbox[Prober] = NoSwitch

-------------------------------------------------------------------------------
(* The Supervisor's part of every step is a step of Supervisor.            *)
LEMMA PlaneStepIsSupervisors == [PlaneNext]_planeVars => [Next]_vars
  BY DEF PlaneNext, Next, Publish, Shutdown, planeVars

(* How a whole reselectLocked changes the outbox and the choice: an actor  *)
(* with an empty outbox either keeps both or leaves with the new choice.   *)
LEMMA ReselectHandsOver ==
  ASSUME TypeOK, NEW a \in Actors, outbox[a] = NoSwitch, NEW up, NEW off, NEW seasoned,
         ReselectLocked(a, up, off, seasoned)
  PROVE  \/ active' = active /\ outbox' = outbox
         \/ /\ active' # active
            /\ outbox' = [outbox EXCEPT ![a] =
                 [from |-> active, to |-> active', allDown |-> active' = None]]
<1>1. outbox = [outbox EXCEPT ![a] = NoSwitch]
  BY DEF TypeOK
<1>2. QED
  BY <1>1 DEF ReselectLocked

(* No step of the prober leaves a Switch behind on its way into a round.   *)
LEMMA RoundsStartEmpty ==
  ASSUME PlaneIInv, [Next]_vars
  PROVE  run' \in {"new", "probing"} => outbox'[Prober] = NoSwitch
<1> USE DEF PlaneIInv
<1>1. TypeOK /\ outbox \in [Actors -> Switch] /\ Prober \in Actors
  BY DEF IInv, TypeOK, Actors
<1>2. CASE Launch \/ BeginRound \/ StopRun \/ (\E i \in DC : ProbeReturn(i))
  BY <1>2 DEF Launch, BeginRound, StopRun, ProbeReturn
<1>3. CASE FinishRound
  BY <1>3 DEF FinishRound
<1>4. ASSUME NEW u \in Callers, NEW c \in Filters, SetClusterFilter(u, c)
      PROVE  run' \in {"new", "probing"} => outbox'[Prober] = NoSwitch
  <2>1. u # Prober
    BY SupervisorAssumption
  <2>2. outbox'[Prober] = outbox[Prober] /\ run' = run
    BY <1>1, <1>4, <2>1 DEF SetClusterFilter, ReselectLocked, round
  <2>3. QED
    BY <2>2
<1>5. ASSUME NEW a \in Actors, OnSwitch(a)
      PROVE  run' \in {"new", "probing"} => outbox'[Prober] = NoSwitch
  BY <1>1, <1>5 DEF OnSwitch, round
<1>6. CASE Environment
  BY <1>6 DEF Environment, Tick, Cancel, Flip, round
<1>7. CASE UNCHANGED vars
  BY <1>7 DEF vars, round
<1>8. QED
  BY <1>2, <1>3, <1>4, <1>5, <1>6, <1>7 DEF Next, Run, UI

-------------------------------------------------------------------------------
(* Invariance *)

LEMMA PlaneInitIInv == PlaneInit => PlaneIInv
<1>1. Init => outbox[Prober] = NoSwitch /\ active = None
  BY DEF Init, Actors
<1>2. QED
  BY <1>1, InitIInv DEF PlaneInit, PlaneIInv

LEMMA PlaneNextIInv == PlaneIInv /\ [PlaneNext]_planeVars => PlaneIInv'
<1> SUFFICES ASSUME PlaneIInv, [PlaneNext]_planeVars
             PROVE  PlaneIInv'
  OBVIOUS
<1>1. [Next]_vars
  BY PlaneStepIsSupervisors
<1>2. IInv'
  BY <1>1, NextIInv DEF PlaneIInv
<1>3. run' \in {"new", "probing"} => outbox'[Prober] = NoSwitch
  BY <1>1, RoundsStartEmpty
<1>4. selected' \in BOOLEAN /\ (active' # None => selected')
  <2>1. CASE selected' = (selected \/ active' # None)
    BY <2>1 DEF PlaneIInv
  <2>2. CASE UNCHANGED <<selected, active>>
    BY <2>2 DEF PlaneIInv
  <2>3. QED
    BY <2>1, <2>2 DEF PlaneNext, Publish, OnSwitch, Shutdown, planeVars, vars, selection
<1>5. QED
  BY <1>2, <1>3, <1>4 DEF PlaneIInv

LEMMA PlaneInvariance == PlaneSpec => []PlaneIInv
  BY PlaneInitIInv, PlaneNextIInv, PTL DEF PlaneSpec

-------------------------------------------------------------------------------
(* Refinement of Control *)

(* A step that keeps the choice and the outbox, or moves both as one       *)
(* goroutine under the lock does, is Control's Reselect or a stutter.      *)
LEMMA ChangeRefines ==
  ASSUME PlaneIInv, TypeOK', NEW a \in Actors, outbox[a] = NoSwitch,
         \/ active' = active /\ outbox' = outbox
         \/ /\ active' # active
            /\ outbox' = [outbox EXCEPT ![a] =
                 [from |-> active, to |-> active', allDown |-> active' = None]],
         selected' = (selected \/ active' # None),
         UNCHANGED <<current, server, ctxDone>>
  PROVE  [C!Next]_(C!vars)
<1>1. active' \in DC \cup {None}
  BY DEF TypeOK
<1>2. CASE active' = active /\ outbox' = outbox
  <2>1. selected' = selected
    BY <1>2 DEF PlaneIInv
  <2>2. QED
    BY <1>2, <2>1 DEF C!vars, C!trayVars, C!viewVars
<1>3. CASE active' # active
  <2>1. selected' = TRUE
    BY <1>3 DEF PlaneIInv
  <2>2. C!Reselect(a)
    BY <1>1, <1>3, <2>1 DEF C!Reselect, C!NoSwitch, NoSwitch, C!viewVars
  <2>3. QED
    BY <2>2 DEF C!Next, C!Tray
<1>4. QED
  BY <1>2, <1>3

LEMMA PlaneStepRefines ==
  ASSUME PlaneIInv, PlaneIInv', [PlaneNext]_planeVars
  PROVE  [C!Next]_(C!vars)
<1> DEFINE Selects == selected' = (selected \/ active' # None)
<1>1. TypeOK /\ TypeOK' /\ Prober \in Actors
  BY DEF PlaneIInv, IInv, Actors
<1>2. ASSUME Selects, UNCHANGED <<active, outbox, current, server, ctxDone>>
      PROVE  [C!Next]_(C!vars)
  BY <1>2 DEF PlaneIInv, C!vars, C!trayVars, C!viewVars
<1>3. CASE Selects /\ UNCHANGED <<current, server>> /\ Run
  <2>1. CASE FinishRound
    <3>1. /\ ReselectLocked(Prober, {i \in DC : results[i] = "ok"}, disabled,
                            {i \in DC : UpForAfter(i) - roundFor >= HoldDown})
          /\ outbox[Prober] = NoSwitch
          /\ UNCHANGED ctxDone
      BY <2>1 DEF FinishRound, PlaneIInv
    <3>2. QED
      BY <1>1, <1>3, <3>1, ReselectHandsOver, ChangeRefines
  <2>2. CASE Launch \/ BeginRound \/ (\E i \in DC : ProbeReturn(i)) \/ StopRun
    BY <1>2, <1>3, <2>2 DEF Launch, BeginRound, ProbeReturn, StopRun, selection
  <2>3. QED
    BY <1>3, <2>1, <2>2 DEF Run
<1>4. CASE Selects /\ UNCHANGED <<current, server>> /\ UI
  <2>1. PICK u \in Callers, c \in Filters : SetClusterFilter(u, c)
    BY <1>4 DEF UI
  <2>2. /\ ReselectLocked(u, Healthy, Quarantined(c), {i \in DC : upFor[i] >= HoldDown})
        /\ outbox[u] = NoSwitch
        /\ u \in Actors
        /\ UNCHANGED ctxDone
    BY <2>1 DEF SetClusterFilter, Actors
  <2>3. QED
    BY <1>1, <1>4, <2>2, ReselectHandsOver, ChangeRefines
<1>5. CASE Selects /\ UNCHANGED <<current, server>> /\ Environment
  <2>1. CASE Cancel
    <3>1. UNCHANGED <<active, outbox>> /\ ~ctxDone /\ ctxDone' = TRUE
      BY <2>1 DEF Cancel, selection
    <3>2. selected' = selected
      BY <1>5, <3>1 DEF PlaneIInv
    <3>3. C!Cancel
      BY <1>5, <3>1, <3>2 DEF C!Cancel, C!viewVars
    <3>4. QED
      BY <3>3 DEF C!Next, C!Tray
  <2>2. CASE Tick \/ (\E i \in DC : Flip(i))
    BY <1>2, <1>5, <2>2 DEF Tick, Flip, selection
  <2>3. QED
    BY <1>5, <2>1, <2>2 DEF Environment
<1>6. ASSUME NEW a \in Actors, Publish(a)
      PROVE  [C!Next]_(C!vars)
  <2>1. C!OnSwitch(a)
    BY <1>6 DEF Publish, OnSwitch, selection, C!OnSwitch, C!NoSwitch, NoSwitch, C!viewVars
  <2>2. QED
    BY <2>1 DEF C!Next, C!Tray
<1>7. CASE Shutdown
  <2>1. C!Shutdown
    BY <1>7 DEF Shutdown, vars, selection, C!Shutdown, C!viewVars
  <2>2. QED
    BY <2>1 DEF C!Next, C!Tray
<1>8. CASE UNCHANGED planeVars
  BY <1>8 DEF planeVars, vars, selection, C!vars, C!trayVars, C!viewVars
<1>9. QED
  BY <1>3, <1>4, <1>5, <1>6, <1>7, <1>8 DEF PlaneNext

(* The tray as Control sees it: every change of the choice, by the prober  *)
(* or by a filter call, leaves that goroutine with one Switch that names   *)
(* the old and the new choice, and the server only ever takes over what a  *)
(* goroutine has handed to OnSwitch.                                       *)
THEOREM TrayRefinement == PlaneSpec => ImplementsControl
<1>1. PlaneInit => C!Init
  BY DEF PlaneInit, Init, C!Init, C!NoSwitch, NoSwitch, C!ZeroActive
<1>2. PlaneIInv /\ PlaneIInv' /\ [PlaneNext]_planeVars => [C!Next]_(C!vars)
  BY PlaneStepRefines
<1>3. QED
  BY <1>1, <1>2, PlaneInvariance, PTL DEF PlaneSpec, ImplementsControl, C!Spec

-------------------------------------------------------------------------------
(* The server's content when no UI goroutine switches clusters *)

StateOf(name) == [name |-> name, allDown |-> name = None]

(* What the prober is about to publish, or the server if it has, is the    *)
(* choice.                                                                 *)
ProberPublishes ==
  /\ PublishedIsActive
  /\ outbox[Prober] # NoSwitch => C!ActiveOf(outbox[Prober]) = StateOf(active)

LEMMA ControlStepPublishes ==
  ASSUME Callers = {}, PlaneIInv, PlaneIInv', ProberPublishes, [C!Next]_(C!vars)
  PROVE  ProberPublishes'
<1>1. /\ Actors = {Prober}
      /\ outbox \in [Actors -> Switch] /\ outbox' \in [Actors -> Switch]
  BY DEF Actors, PlaneIInv, IInv, TypeOK
<1>2. ASSUME NEW a \in Actors, C!Reselect(a)
      PROVE  ProberPublishes'
  <2>1. a = Prober /\ active' # active
    BY <1>1, <1>2 DEF C!Reselect
  <2>2. outbox'[Prober] = [from |-> active, to |-> active', allDown |-> active' = None]
    BY <1>1, <1>2, <2>1 DEF C!Reselect
  <2>3. outbox'[Prober] # C!NoSwitch
    BY <2>1, <2>2 DEF C!NoSwitch
  <2>4. QED
    BY <1>1, <2>2, <2>3
       DEF ProberPublishes, PublishedIsActive, C!PublishedIsActive, C!InFlight, C!ActiveOf, StateOf
<1>3. ASSUME NEW a \in Actors, C!OnSwitch(a)
      PROVE  ProberPublishes'
  <2>1. a = Prober
    BY <1>1
  <2>2. current' = StateOf(active) /\ active' = active
    BY <1>3, <2>1 DEF C!OnSwitch, C!Publish, C!NoSwitch, NoSwitch, ProberPublishes
  <2>3. outbox'[Prober] = NoSwitch
    BY <1>1, <1>3, <2>1 DEF C!OnSwitch, C!NoSwitch, NoSwitch
  <2>4. QED
    BY <2>2, <2>3 DEF ProberPublishes, PublishedIsActive, C!PublishedIsActive, StateOf
<1>4. CASE UNCHANGED <<active, outbox, current, selected>>
  BY <1>4 DEF ProberPublishes, PublishedIsActive, C!PublishedIsActive, C!InFlight
<1>5. QED
  BY <1>2, <1>3, <1>4
     DEF C!Next, C!Tray, C!View, C!Cancel, C!Shutdown, C!Poll, C!Handle, C!FetchReturns,
         C!FetchFails, C!StopWatch, C!vars, C!trayVars

(* Without calls of SwitchCluster the sentence that plane_stale refutes is *)
(* true: when no OnSwitch is under way the server holds the choice, for    *)
(* any number of datacenters and any timing.                               *)
THEOREM ProberAlone ==
  ASSUME Callers = {}
  PROVE  PlaneSpec => []PublishedIsActive
<1>1. PlaneInit => ProberPublishes
  BY DEF PlaneInit, Init, Actors, ProberPublishes, PublishedIsActive, C!PublishedIsActive
<1>2. PlaneIInv /\ PlaneIInv' /\ ProberPublishes /\ [PlaneNext]_planeVars => ProberPublishes'
  BY PlaneStepRefines, ControlStepPublishes
<1>3. ProberPublishes => PublishedIsActive
  BY DEF ProberPublishes
<1>4. QED
  BY <1>1, <1>2, <1>3, PlaneInvariance, PTL DEF PlaneSpec

===============================================================================
