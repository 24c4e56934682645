------------------------------ MODULE Supervisor ------------------------------
(***************************************************************************)
(* failover/supervisor.go: one goroutine (the prober) runs Supervisor.Run, *)
(* which probes every datacenter in rounds paced by a ticker; any number   *)
(* of UI goroutines call SetClusterFilter.  Both write under s.mu and call *)
(* OnSwitch after releasing it.                                            *)
(*                                                                         *)
(* Time is in ticks.  A time.Time is kept as its age: upFor[i] is the time *)
(* elapsed since eps[i].upSince, roundFor the time elapsed since the       *)
(* running round read its clock.  Ages saturate at Horizon, beyond which   *)
(* no comparison of the code tells them apart.                             *)
(*                                                                         *)
(* Definitions marked "fault" are what a slip in the code would make of    *)
(* the definition that follows them; no specification uses them.           *)
(***************************************************************************)
EXTENDS Selection

CONSTANTS
  N,            \* len(s.eps); datacenter 1 is the most preferred
  ClusterOf,    \* [1..N -> cluster name]: ep.Cluster
  NoCluster,    \* the empty cluster name, ""
  Filters,      \* arguments the UI passes to SetClusterFilter
  Callers,      \* UI goroutines that call SetClusterFilter
  Prober,       \* the goroutine of Supervisor.Run
  Interval,     \* opts.Interval, opts.HoldDown and opts.ProbeTimeout,
  HoldDown,     \*   positive once withDefaults has run
  ProbeTimeout

ASSUME SupervisorAssumption ==
  /\ N \in Nat \ {0}
  /\ Prober \notin Callers
  /\ Interval \in Nat \ {0}
  /\ HoldDown \in Nat \ {0}
  /\ ProbeTimeout \in Nat \ {0}

DC      == 1..N
Actors  == Callers \cup {Prober}
Horizon == HoldDown + ProbeTimeout

Switch   == [from : DC \cup {None}, to : DC \cup {None}, allDown : BOOLEAN]
NoSwitch == [from |-> None, to |-> None, allDown |-> FALSE]

VARIABLES
  reachable,    \* datacenters whose webui would answer a probe now (the network)
  ctxDone,      \* the context given to Run is cancelled
  health,       \* eps[i].health; eps[i].healthy is health[i] = "up"
  upFor,        \* age of eps[i].upSince
  disabled,     \* the endpoints with eps[i].disabled
  active,       \* s.active
  allDown,      \* s.allDown
  run,          \* where Run is: "new", "idle" (in its select), "probing", "stopped"
  results,      \* the running round's results[i]
  roundFor,     \* age of the running round's now
  tickIn,       \* time until the ticker fires next
  tickReady,    \* a tick waits in t.C (its buffer holds one)
  outbox,       \* outbox[a]: the Switch a is about to hand to OnSwitch
  scope         \* auxiliary: the argument of the last SetClusterFilter

selection == <<health, upFor, disabled, active, allDown>>
round     == <<run, results, roundFor>>
ticker    == <<tickIn, tickReady>>
vars == <<reachable, ctxDone, selection, round, ticker, outbox, scope>>

-------------------------------------------------------------------------------
(* reselectLocked (module Selection has its scan) *)

Healthy == {i \in DC : health[i] = "up"}

Quarantined(c) == {i \in DC : c # NoCluster /\ ClusterOf[i] # c}

ReselectAlwaysChanged(a, up, off, seasoned) ==   \* fault: changed is always true
  LET best == Select(active, up, off, seasoned) IN
  /\ active' = best
  /\ allDown' = (best = None)
  /\ outbox' = [outbox EXCEPT ![a] =
       [from |-> active, to |-> best, allDown |-> best = None]]

(* reselectLocked, run by actor a that holds s.mu; a leaves with a Switch  *)
(* to deliver iff the choice changed.                                      *)
ReselectLocked(a, up, off, seasoned) ==
  LET best == Select(active, up, off, seasoned) IN
  /\ active' = best
  /\ allDown' = IF best = active THEN allDown ELSE best = None
  /\ outbox' = [outbox EXCEPT ![a] =
       IF best = active THEN NoSwitch
       ELSE [from |-> active, to |-> best, allDown |-> best = None]]

-------------------------------------------------------------------------------
(* The probe goroutine *)

Launch ==                              \* Run: NewTicker, then the first round
  /\ run = "new"
  /\ run' = "probing"
  /\ tickIn' = Interval
  /\ UNCHANGED <<tickReady, results, roundFor>>
  /\ UNCHANGED <<reachable, ctxDone, selection, outbox, scope>>

BeginRound ==                          \* Run: case <-t.C
  /\ run = "idle" /\ tickReady /\ outbox[Prober] = NoSwitch
  /\ run' = "probing"
  /\ tickReady' = FALSE
  /\ UNCHANGED <<tickIn, results, roundFor>>
  /\ UNCHANGED <<reachable, ctxDone, selection, outbox, scope>>

(* A probe answers some time before its deadline.  The context of a probe  *)
(* is derived from Run's, so a cancelled Run fails every probe.            *)
ProbeReturn(i) ==
  /\ run = "probing" /\ results[i] = "pending"
  /\ results' = [results EXCEPT ![i] =
       IF i \in reachable /\ ~ctxDone THEN "ok" ELSE "fail"]
  /\ UNCHANGED <<run, roundFor>>
  /\ UNCHANGED <<reachable, ctxDone, selection, ticker, outbox, scope>>

UpForRestarted(i) ==   \* fault: every good round restarts the hold-down clock
  IF results[i] = "fail" THEN Horizon ELSE roundFor

UpForFirstEver(i) ==   \* fault: a failed probe does not clear upSince
  IF results[i] = "ok" /\ health[i] = "unknown" THEN roundFor ELSE upFor[i]

(* upSince after the round; a failed endpoint's is the zero time, older    *)
(* than any hold-down.                                                     *)
UpForAfter(i) ==
  IF results[i] = "fail" THEN Horizon
  ELSE IF i \in Healthy THEN upFor[i] ELSE roundFor

WaitSkipped == TRUE    \* fault: no wg.Wait, a missing answer counts as a failed one

AllReturned == \A i \in DC : results[i] # "pending"

FinishRound ==                         \* wg.Wait returned: the locked part of round
  /\ run = "probing" /\ AllReturned
  /\ health' = [i \in DC |-> IF results[i] = "ok" THEN "up" ELSE "down"]
  /\ upFor' = [i \in DC |-> UpForAfter(i)]
  /\ ReselectLocked(Prober, {i \in DC : results[i] = "ok"}, disabled,
                    {i \in DC : UpForAfter(i) - roundFor >= HoldDown})
  /\ run' = "idle"
  /\ results' = [i \in DC |-> "pending"]
  /\ roundFor' = 0
  /\ UNCHANGED <<reachable, ctxDone, disabled, ticker, scope>>

DoneBehindTicks == ctxDone /\ ~tickReady   \* fault: a waiting tick goes first

DoneSelected == ctxDone

StopRun ==                             \* Run: case <-ctx.Done()
  /\ run = "idle" /\ DoneSelected /\ outbox[Prober] = NoSwitch
  /\ run' = "stopped"
  /\ UNCHANGED <<results, roundFor>>
  /\ UNCHANGED <<reachable, ctxDone, selection, ticker, outbox, scope>>

-------------------------------------------------------------------------------
(* The UI goroutines, and OnSwitch *)

SetClusterFilter(u, c) ==
  /\ outbox[u] = NoSwitch
  /\ disabled' = Quarantined(c)
  /\ ReselectLocked(u, Healthy, Quarantined(c), {i \in DC : upFor[i] >= HoldDown})
  /\ scope' = c
  /\ UNCHANGED <<reachable, ctxDone, health, upFor, round, ticker>>

OnSwitch(a) ==                         \* a, which no longer holds s.mu, calls OnSwitch
  /\ outbox[a] # NoSwitch
  /\ outbox' = [outbox EXCEPT ![a] = NoSwitch]
  /\ UNCHANGED <<reachable, ctxDone, selection, round, ticker, scope>>

-------------------------------------------------------------------------------
(* The environment: time, the network, the application's context *)

DueNoDeadline ==       \* fault: probes run without the ProbeTimeout context
  \/ run = "idle" /\ tickReady
  \/ outbox[Prober] # NoSwitch

(* Work of the prober that is due at once: time does not pass over it.     *)
Due ==
  \/ run = "idle" /\ tickReady
  \/ run = "probing" /\ roundFor = ProbeTimeout
  \/ outbox[Prober] # NoSwitch

TickerFires == tickIn = 1

Tick ==
  /\ ~Due
  /\ upFor' = [i \in DC |-> Min({upFor[i] + 1, Horizon})]
  /\ roundFor' = IF run = "probing" THEN roundFor + 1 ELSE roundFor
  /\ IF run \in {"idle", "probing"}
     THEN /\ tickIn' = IF TickerFires THEN Interval ELSE tickIn - 1
          /\ tickReady' = (tickReady \/ TickerFires)
     ELSE UNCHANGED ticker
  /\ UNCHANGED <<reachable, ctxDone, health, disabled, active, allDown>>
  /\ UNCHANGED <<run, results, outbox, scope>>

Flip(i) ==
  /\ reachable' = IF i \in reachable THEN reachable \ {i} ELSE reachable \cup {i}
  /\ UNCHANGED <<ctxDone, selection, round, ticker, outbox, scope>>

Cancel ==
  /\ ~ctxDone
  /\ ctxDone' = TRUE
  /\ UNCHANGED <<reachable, selection, round, ticker, outbox, scope>>

-------------------------------------------------------------------------------

Init ==                                \* New
  /\ reachable \in SUBSET DC
  /\ ctxDone = FALSE
  /\ health = [i \in DC |-> "unknown"]
  /\ upFor = [i \in DC |-> Horizon]
  /\ disabled = {}
  /\ active = None
  /\ allDown = TRUE
  /\ run = "new"
  /\ results = [i \in DC |-> "pending"]
  /\ roundFor = 0
  /\ tickIn = Interval
  /\ tickReady = FALSE
  /\ outbox = [a \in Actors |-> NoSwitch]
  /\ scope = NoCluster

Run == Launch \/ BeginRound \/ (\E i \in DC : ProbeReturn(i)) \/ FinishRound \/ StopRun

UI == \E u \in Callers, c \in Filters : SetClusterFilter(u, c)

Environment == Tick \/ Cancel \/ \E i \in DC : Flip(i)

Next == Run \/ UI \/ (\E a \in Actors : OnSwitch(a)) \/ Environment

Spec == Init /\ [][Next]_vars

(* Goroutines that can run do run, probes meet their deadline and time     *)
(* passes.  A select with a tick and a cancelled context both ready picks  *)
(* at random, hence strong fairness of StopRun.  Nothing obliges the       *)
(* operator, the network or the application.                               *)
Fairness ==
  /\ WF_vars(Launch) /\ WF_vars(BeginRound) /\ WF_vars(FinishRound)
  /\ SF_vars(StopRun) /\ WF_vars(Tick)
  /\ \A i \in DC : WF_vars(ProbeReturn(i))
  /\ \A a \in Actors : WF_vars(OnSwitch(a))

FairSpec == Spec /\ Fairness

-------------------------------------------------------------------------------
(* Properties *)

(* Every variable holds a value of its type.                               *)
TypeOK ==
  /\ reachable \in SUBSET DC
  /\ ctxDone \in BOOLEAN
  /\ health \in [DC -> {"unknown", "up", "down"}]
  /\ upFor \in [DC -> 0..Horizon]
  /\ disabled \in SUBSET DC
  /\ active \in DC \cup {None}
  /\ allDown \in BOOLEAN
  /\ run \in {"new", "idle", "probing", "stopped"}
  /\ results \in [DC -> {"pending", "ok", "fail"}]
  /\ roundFor \in 0..ProbeTimeout
  /\ tickIn \in 1..Interval
  /\ tickReady \in BOOLEAN
  /\ outbox \in [Actors -> Switch]
  /\ scope \in Filters \cup {NoCluster}

(* Whenever s.mu is free, the selected datacenter is healthy and not       *)
(* excluded, and none is selected only if there is no such datacenter;     *)
(* rounds and filter calls interleave, and each sees only half of what the *)
(* other changes.  s.allDown mirrors the choice.                           *)
SelectionSound ==
  /\ active # None => active \in Eligible(Healthy, disabled)
  /\ active = None => Eligible(Healthy, disabled) = {}
  /\ allDown <=> active = None

(* "Every endpoint outside the cluster is quarantined so the supervisor    *)
(* can't pick one": after SetClusterFilter(c), no later round, even one    *)
(* that was in flight, selects a datacenter outside c.                     *)
ActiveInScope ==
  active # None /\ scope # NoCluster => ClusterOf[active] = scope

(* reselectLocked implements "fail over fast, fail back slow": a working   *)
(* choice only gives way to a more preferred datacenter that has been up   *)
(* for the hold-down, and a lost one is replaced at once by the best.      *)
Selector == INSTANCE FailoverSelector WITH
  eligible <- Eligible(Healthy, disabled),
  settled  <- {i \in Eligible(Healthy, disabled) : upFor[i] >= HoldDown}

ImplementsSelector == Selector!Spec

BestReachable ==
  LET up == Eligible(reachable, disabled) IN IF up = {} THEN None ELSE Min(up)

InputChanges == reachable' # reachable \/ disabled' # disabled

(* Once the network and the filter stop changing, the Supervisor settles   *)
(* for good on the most preferred reachable datacenter of the filter, or   *)
(* on none if there is none: hold-down delays a fail-back, it never loses  *)
(* one.                                                                    *)
Converges ==
  []<><<InputChanges>>_vars \/ <>ctxDone \/ <>[](active = BestReachable)

(* "Run probes on a ticker until ctx is cancelled": then it returns, in    *)
(* whatever state the cancellation catches it, although it fails every     *)
(* probe in flight, a tick may always be waiting and the Switch of the     *)
(* last round has to be delivered first.                                   *)
RunEnds == ctxDone ~> run = "stopped"

===============================================================================
