--------------------------- MODULE SupervisorTiming ---------------------------
(***************************************************************************)
(* How fast failover.Supervisor fails over and how slowly it fails back,   *)
(* measured against the network rather than against its own records.  Two  *)
(* auxiliary clocks, which the program does not have, watch the network    *)
(* and the probe answers; Supervisor's actions are unchanged.              *)
(***************************************************************************)
EXTENDS Supervisor

VARIABLES
  steadyFor,    \* time since datacenter i last went up or down
  answersFor    \* time since the first answer of i's unbroken run of good
                \*   probes; Silent once a round has recorded a failed one

timedVars == <<vars, steadyFor, answersFor>>

Silent == -1

(* The longest time between the start of a round and the end of the next:  *)
(* a tick that fires during a slow round waits in t.C.                     *)
Detection == Max({Interval, ProbeTimeout}) + ProbeTimeout

AgedBy1(age, cap) == IF age = Silent THEN Silent ELSE Min({age + 1, cap})

TimedTick ==
  /\ Tick
  /\ steadyFor' = [i \in DC |-> AgedBy1(steadyFor[i], Detection + 1)]
  /\ answersFor' = [i \in DC |-> AgedBy1(answersFor[i], HoldDown)]

TimedFlip(i) ==
  /\ Flip(i)
  /\ steadyFor' = [steadyFor EXCEPT ![i] = 0]
  /\ UNCHANGED answersFor

TimedProbeReturn(i) ==
  /\ ProbeReturn(i)
  /\ answersFor' = [answersFor EXCEPT ![i] =
       IF results'[i] = "ok" /\ @ = Silent THEN 0 ELSE @]
  /\ UNCHANGED steadyFor

TimedFinishRound ==
  /\ FinishRound
  /\ answersFor' = [i \in DC |-> IF results[i] = "fail" THEN Silent ELSE answersFor[i]]
  /\ UNCHANGED steadyFor

Untimed ==
  /\ Launch \/ BeginRound \/ StopRun \/ UI \/ Cancel
       \/ \E a \in Actors : OnSwitch(a)
  /\ UNCHANGED <<steadyFor, answersFor>>

TimedInit ==
  /\ Init
  /\ steadyFor = [i \in DC |-> Detection + 1]
  /\ answersFor = [i \in DC |-> Silent]

TimedNext ==
  TimedTick \/ TimedFinishRound \/ Untimed \/ \E i \in DC : TimedFlip(i) \/ TimedProbeReturn(i)

TimedSpec == TimedInit /\ [][TimedNext]_timedVars

-------------------------------------------------------------------------------
(* Properties *)

(* "Fail fast": while Run is alive, no datacenter that has been            *)
(* unreachable for longer than Detection is still the active one, however  *)
(* slow its own and the other probes were.                                 *)
FailoverBound ==
  \A i \in DC :
    active = i /\ i \notin reachable /\ run \in {"idle", "probing"}
      => steadyFor[i] <= Detection

FailsBack ==
  /\ active' # None /\ active' < active
  /\ active \in Eligible(Healthy, disabled)'

(* "Fail back slow": a datacenter that takes over from a working one has   *)
(* answered every recorded probe for the hold-down, short of the time its  *)
(* first good probe took, whatever flaps, filters and slow rounds came     *)
(* between.  (A filter call during a round cannot know of a probe of that  *)
(* round that has failed already.)                                         *)
FailbackSeasoned ==
  [][FailsBack => answersFor'[active'] >= HoldDown - ProbeTimeout]_timedVars

(* A round of a live application that gives up its datacenter and finds no *)
(* other was right: each allowed one was unreachable at some moment of it. *)
AllDownWitnessed ==
  [][FinishRound /\ active # None /\ active' = None /\ ~ctxDone
       => \A i \in DC \ disabled : i \notin reachable \/ steadyFor[i] <= roundFor]_timedVars

===============================================================================
