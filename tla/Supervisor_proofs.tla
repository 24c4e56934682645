-------------------------- MODULE Supervisor_proofs --------------------------
(***************************************************************************)
(* Proofs about Supervisor, and in the second half about SupervisorTiming, *)
(* for any number of datacenters and UI goroutines, any cluster layout and *)
(* any timing constants.                                                   *)
(***************************************************************************)
EXTENDS SupervisorTiming, FiniteSetTheorems, WellFoundedInduction, TLAPS

USE SupervisorAssumption DEF DC, None

-------------------------------------------------------------------------------
(* Lemmas about Min.  Well-foundedness of < comes from that of strict      *)
(* inclusion on the intervals 0..x: the library's own theorem goes through *)
(* an operator with an operator parameter, which the provers cannot expand.*)

(* Min of a nonempty set of naturals is its least element.                 *)
LEMMA MinIsLeast ==
  ASSUME NEW S \in SUBSET Nat, S # {}
  PROVE  /\ Min(S) \in S
         /\ \A y \in S : Min(S) <= y
<1> DEFINE T == {0..x : x \in S}
           R == StrictSubsetOrdering(Nat)
<1>1. T \subseteq FiniteSubsetsOf(Nat)
  <2> SUFFICES ASSUME NEW x \in S
               PROVE  0..x \in FiniteSubsetsOf(Nat)
    OBVIOUS
  <2>1. IsFiniteSet(0..x)
    BY FS_Interval
  <2>2. 0..x \in SUBSET Nat
    BY SMT
  <2>3. QED
    BY <2>1, <2>2 DEF FiniteSubsetsOf
<1>2. T # {}
  OBVIOUS
<1>3. PICK t \in T : \A u \in T : ~ (<<u, t>> \in R)
  <2> HIDE DEF T, R
  <2>1. IsWellFoundedOn(R, FiniteSubsetsOf(Nat))
    BY FS_StrictSubsetOrderingWellFounded DEF R
  <2>2. QED
    BY <1>1, <1>2, <2>1, WFMin, Zenon
<1>4. PICK x \in S : t = 0..x
  OBVIOUS
<1>5. ASSUME NEW y \in S
      PROVE  x <= y
  <2>1. SUFFICES ASSUME y < x
                 PROVE  FALSE
    BY SMT
  <2>2. 0..y \in SUBSET Nat /\ 0..x \in SUBSET Nat /\ 0..y \subseteq 0..x
    BY <2>1, SMT
  <2>3. x \in 0..x /\ x \notin 0..y
    BY <2>1, SMT
  <2>4. <<0..y, t>> \in R
    BY <1>4, <2>2, <2>3 DEF StrictSubsetOrdering
  <2>5. QED
    BY <1>3, <2>4
<1>6. QED
  BY <1>5 DEF Min

(* Min of two naturals, as in a counter that saturates.                    *)
LEMMA MinOfTwo ==
  ASSUME NEW a \in Nat, NEW b \in Nat
  PROVE  /\ Min({a, b}) \in Nat
         /\ Min({a, b}) <= a /\ Min({a, b}) <= b
         /\ Min({a, b}) \in {a, b}
<1>1. {a, b} \in SUBSET Nat /\ {a, b} # {}
  OBVIOUS
<1>2. Min({a, b}) \in {a, b} /\ \A y \in {a, b} : Min({a, b}) <= y
  BY <1>1, MinIsLeast
<1>3. QED
  BY <1>2

-------------------------------------------------------------------------------
(* Lemmas about the operators of the selection *)

(* What reselectLocked's scan returns.                                     *)
LEMMA SelectIsSound ==
  ASSUME NEW prev \in DC \cup {None}, NEW up \in SUBSET DC, NEW off \in SUBSET DC,
         NEW seasoned
  PROVE  LET best == Select(prev, up, off, seasoned)
             elig == Eligible(up, off)
         IN  /\ best \in elig \cup {None}
             /\ best = None => elig = {}
             /\ prev \in elig => \/ best = prev
                                 \/ best \in elig /\ best < prev /\ best \in seasoned
             /\ prev \notin elig /\ elig # {} => best = Min(elig)
<1> DEFINE stops == Candidates(prev, up, off, seasoned)
           elig  == Eligible(up, off)
           best  == Select(prev, up, off, seasoned)
<1>1. stops \in SUBSET elig /\ elig \in SUBSET DC
  BY DEF Candidates, Eligible
<1>2. (stops = {}) <=> (elig = {})
  BY DEF Candidates, Eligible, ActiveHealthy
<1>3. CASE stops = {}
  <2>1. best = None /\ elig = {}
    BY <1>2, <1>3 DEF Select
  <2>2. prev \notin elig
    BY <2>1
  <2>3. QED
    BY <2>1, <2>2
<1>4. CASE stops # {}
  <2>1. best = Min(stops) /\ stops \in SUBSET Nat
    BY <1>1, <1>4 DEF Select
  <2>2. best \in stops
    BY <1>4, <2>1, MinIsLeast
  <2>3. best \in elig /\ best # None
    BY <1>1, <2>2
  <2>4. ASSUME prev \in elig
        PROVE  best = prev \/ (best < prev /\ best \in seasoned)
    BY <2>2, <2>4 DEF Candidates, ActiveHealthy, Eligible
  <2>5. ASSUME prev \notin elig
        PROVE  best = Min(elig)
    BY <2>1, <2>5 DEF Candidates, ActiveHealthy, Eligible
  <2>6. QED
    BY <2>3, <2>4, <2>5
<1>5. QED
  BY <1>3, <1>4

(* What a whole reselectLocked leaves behind, whatever the actor.          *)
LEMMA ReselectIsSound ==
  ASSUME TypeOK, NEW a \in Actors, NEW up \in SUBSET DC, NEW off \in SUBSET DC,
         NEW seasoned,
         ReselectLocked(a, up, off, seasoned)
  PROVE  /\ active' \in DC \cup {None}
         /\ allDown' \in BOOLEAN
         /\ outbox' \in [Actors -> Switch]
         /\ active' # None => active' \in Eligible(up, off)
         /\ active' = None => Eligible(up, off) = {}
         /\ (allDown <=> active = None) => (allDown' <=> active' = None)
<1> DEFINE best == Select(active, up, off, seasoned)
<1>1. active \in DC \cup {None}
  BY DEF TypeOK
<1>2. /\ best \in Eligible(up, off) \cup {None}
      /\ best = None => Eligible(up, off) = {}
  BY <1>1, SelectIsSound
<1>3. best \in DC \cup {None}
  BY <1>2 DEF Eligible
<1>4. active' = best
  BY DEF ReselectLocked
<1>5. allDown' = IF best = active THEN allDown ELSE best = None
  BY DEF ReselectLocked
<1>6. outbox' \in [Actors -> Switch]
  <2>1. NoSwitch \in Switch
    BY DEF NoSwitch, Switch
  <2>2. [from |-> active, to |-> best, allDown |-> best = None] \in Switch
    BY <1>1, <1>3 DEF Switch
  <2>3. QED
    BY <2>1, <2>2 DEF ReselectLocked, TypeOK
<1>7. QED
  BY <1>2, <1>3, <1>4, <1>5, <1>6 DEF TypeOK

(* The ages FinishRound writes stay within the saturation bound, and the   *)
(* hold-down it compares them with is measured back from the round's now.  *)
LEMMA AgesAfterRound ==
  ASSUME TypeOK
  PROVE  /\ [i \in DC |-> UpForAfter(i)] \in [DC -> 0..Horizon]
         /\ [i \in DC |-> UpForAfter(i) - roundFor] \in [DC -> Int]
         /\ \A i \in DC : UpForAfter(i) - roundFor >= HoldDown => UpForAfter(i) >= HoldDown
<1>1. roundFor \in 0..ProbeTimeout /\ upFor \in [DC -> 0..Horizon]
  BY DEF TypeOK
<1>2. Horizon \in Nat /\ ProbeTimeout <= Horizon
  BY DEF Horizon
<1>3. \A i \in DC : UpForAfter(i) \in 0..Horizon
  BY <1>1, <1>2 DEF UpForAfter
<1>4. QED
  BY <1>1, <1>2, <1>3

(* A saturated age stands for the real one: saturating at every tick is    *)
(* saturating once, and neither a call of SetClusterFilter (r = 0) nor a   *)
(* round that has been running for r, which compares with its own start,   *)
(* tells the two apart.                                                    *)
THEOREM AgesSaturateLate ==
  ASSUME NEW age \in Nat, NEW r \in 0..ProbeTimeout
  PROVE  /\ Min({Min({age, Horizon}) + 1, Horizon}) = Min({age + 1, Horizon})
         /\ Min({age, Horizon}) - r >= HoldDown <=> age - r >= HoldDown
<1>1. Horizon \in Nat /\ Horizon = HoldDown + ProbeTimeout
  BY DEF Horizon
<1>2. Min({age, Horizon}) = IF age <= Horizon THEN age ELSE Horizon
  BY <1>1, MinOfTwo
<1>3. Min({age + 1, Horizon}) = IF age + 1 <= Horizon THEN age + 1 ELSE Horizon
  BY <1>1, MinOfTwo
<1>4. Min({Min({age, Horizon}) + 1, Horizon})
        = IF Min({age, Horizon}) + 1 <= Horizon THEN Min({age, Horizon}) + 1 ELSE Horizon
  BY <1>1, <1>2, MinOfTwo
<1>5. QED
  BY <1>1, <1>2, <1>3, <1>4

-------------------------------------------------------------------------------
(* Invariants *)

(* SelectionSound is inductive over the types; ActiveInScope also needs    *)
(* that the exclusions are exactly those of the last filter: no round      *)
(* touches them.                                                           *)
IInv ==
  /\ TypeOK
  /\ SelectionSound
  /\ disabled = Quarantined(scope)

LEMMA InitIInv == Init => IInv
<1> SUFFICES ASSUME Init
             PROVE  IInv
  OBVIOUS
<1>1. Horizon \in Nat
  BY DEF Horizon
<1>2. NoSwitch \in Switch
  BY DEF NoSwitch, Switch
<1>3. TypeOK
  <2>1. upFor \in [DC -> 0..Horizon] /\ roundFor \in 0..ProbeTimeout /\ tickIn \in 1..Interval
    BY <1>1 DEF Init
  <2>2. health \in [DC -> {"unknown", "up", "down"}] /\ results \in [DC -> {"pending", "ok", "fail"}]
    BY DEF Init
  <2>3. outbox \in [Actors -> Switch]
    BY <1>2 DEF Init
  <2>4. ctxDone \in BOOLEAN /\ allDown \in BOOLEAN /\ tickReady \in BOOLEAN
    BY DEF Init
  <2>5. QED
    BY <2>1, <2>2, <2>3, <2>4 DEF Init, TypeOK
<1>4. Healthy = {}
  BY DEF Init, Healthy
<1>5. SelectionSound
  BY <1>4 DEF Init, SelectionSound, Eligible
<1>6. disabled = Quarantined(scope)
  BY DEF Init, Quarantined
<1>7. QED
  BY <1>3, <1>5, <1>6 DEF IInv

(* A step that leaves the selection and the filter alone keeps IInv if it  *)
(* keeps the types.                                                        *)
LEMMA SelectionUntouched ==
  ASSUME IInv, TypeOK', UNCHANGED <<health, disabled, active, allDown, scope>>
  PROVE  IInv'
<1>1. Healthy' = Healthy /\ Quarantined(scope)' = Quarantined(scope)
  BY DEF Healthy, Quarantined
<1>2. QED
  BY <1>1 DEF IInv, SelectionSound, Eligible

LEMMA FinishRoundKeepsIInv ==
  ASSUME IInv, FinishRound
  PROVE  IInv'
<1> DEFINE up   == {i \in DC : results[i] = "ok"}
           seasoned == {i \in DC : UpForAfter(i) - roundFor >= HoldDown}
<1>1. TypeOK /\ disabled \in SUBSET DC
  BY DEF IInv, TypeOK
<1>2. ReselectLocked(Prober, up, disabled, seasoned)
  BY DEF FinishRound
<1>3. up \in SUBSET DC /\ Prober \in Actors
  BY <1>1, AgesAfterRound DEF Actors
<1>4. /\ active' \in DC \cup {None}
      /\ allDown' \in BOOLEAN
      /\ outbox' \in [Actors -> Switch]
      /\ active' # None => active' \in Eligible(up, disabled)
      /\ active' = None => Eligible(up, disabled) = {}
      /\ (allDown <=> active = None) => (allDown' <=> active' = None)
  <2> HIDE DEF up, seasoned
  <2>1. QED
    BY <1>1, <1>2, <1>3, ReselectIsSound
<1>5. health' \in [DC -> {"unknown", "up", "down"}] /\ Healthy' = up
  BY DEF FinishRound, Healthy
<1>6. upFor' \in [DC -> 0..Horizon]
  BY <1>1, AgesAfterRound DEF FinishRound
<1>7. TypeOK'
  BY <1>1, <1>4, <1>5, <1>6 DEF FinishRound, TypeOK, ticker
<1>8. SelectionSound'
  BY <1>4, <1>5 DEF SelectionSound, IInv, FinishRound, Eligible
<1>9. disabled' = Quarantined(scope)'
  BY DEF FinishRound, Quarantined, IInv
<1>10. QED
  BY <1>7, <1>8, <1>9 DEF IInv

LEMMA FilterKeepsIInv ==
  ASSUME IInv, NEW u \in Callers, NEW c \in Filters, SetClusterFilter(u, c)
  PROVE  IInv'
<1> DEFINE off      == Quarantined(c)
           seasoned == {i \in DC : upFor[i] >= HoldDown}
<1>1. TypeOK /\ Healthy \in SUBSET DC /\ off \in SUBSET DC /\ u \in Actors
  BY DEF IInv, Healthy, Quarantined, Actors
<1>2. ReselectLocked(u, Healthy, off, seasoned)
  BY DEF SetClusterFilter
<1>3. /\ active' \in DC \cup {None}
      /\ allDown' \in BOOLEAN
      /\ outbox' \in [Actors -> Switch]
      /\ active' # None => active' \in Eligible(Healthy, off)
      /\ active' = None => Eligible(Healthy, off) = {}
      /\ (allDown <=> active = None) => (allDown' <=> active' = None)
  <2> HIDE DEF off, seasoned
  <2>1. QED
    BY <1>1, <1>2, ReselectIsSound
<1>4. disabled' = off /\ scope' = c /\ Healthy' = Healthy
  BY DEF SetClusterFilter, Healthy
<1>5. TypeOK'
  BY <1>1, <1>3, <1>4 DEF SetClusterFilter, TypeOK, round, ticker
<1>6. SelectionSound'
  BY <1>3, <1>4 DEF SelectionSound, IInv, Eligible
<1>7. disabled' = Quarantined(scope)'
  BY <1>4 DEF Quarantined
<1>8. QED
  BY <1>5, <1>6, <1>7 DEF IInv

LEMMA TickKeepsTypes ==
  ASSUME TypeOK, Tick
  PROVE  TypeOK'
<1>1. Horizon \in Nat
  BY DEF Horizon
<1>2. upFor' \in [DC -> 0..Horizon]
  <2>1. upFor' = [i \in DC |-> Min({upFor[i] + 1, Horizon})]
    BY DEF Tick
  <2>2. ASSUME NEW i \in DC
        PROVE  Min({upFor[i] + 1, Horizon}) \in 0..Horizon
    <3>1. upFor[i] + 1 \in Nat
      BY <1>1 DEF TypeOK
    <3>2. QED
      BY <1>1, <3>1, MinOfTwo
  <2>3. QED
    BY <2>1, <2>2
<1>3. roundFor' \in 0..ProbeTimeout
  BY DEF Tick, Due, TypeOK
<1>4. tickIn' \in 1..Interval /\ tickReady' \in BOOLEAN
  <2>1. tickIn \in 1..Interval /\ tickReady \in BOOLEAN
    BY DEF TypeOK
  <2>2. CASE run \in {"idle", "probing"}
    <3>1. tickIn' = IF tickIn = 1 THEN Interval ELSE tickIn - 1
      BY <2>2, Zenon DEF Tick, TickerFires
    <3>2. tickReady' = (tickReady \/ TickerFires)
      BY <2>2, Zenon DEF Tick
    <3>3. tickReady' \in BOOLEAN
      BY <3>2, Zenon
    <3>4. tickIn' \in 1..Interval
      BY <2>1, <3>1, SMT
    <3>5. QED
      BY <3>3, <3>4
  <2>3. CASE run \notin {"idle", "probing"}
    BY <2>1, <2>3 DEF Tick, ticker
  <2>4. QED
    BY <2>2, <2>3
<1>5. QED
  BY <1>2, <1>3, <1>4 DEF Tick, TypeOK

LEMMA NextIInv == IInv /\ [Next]_vars => IInv'
<1> SUFFICES ASSUME IInv, [Next]_vars
             PROVE  IInv'
  OBVIOUS
<1>1. TypeOK
  BY DEF IInv
<1>2. CASE Launch
  <2>1. TypeOK'
    BY <1>1, <1>2 DEF Launch, TypeOK, selection
  <2>2. QED
    BY <2>1, <1>2, SelectionUntouched DEF Launch, selection
<1>3. CASE BeginRound
  <2>1. TypeOK'
    BY <1>1, <1>3 DEF BeginRound, TypeOK, selection
  <2>2. QED
    BY <2>1, <1>3, SelectionUntouched DEF BeginRound, selection
<1>4. ASSUME NEW i \in DC, ProbeReturn(i)
      PROVE  IInv'
  <2>1. TypeOK'
    BY <1>1, <1>4 DEF ProbeReturn, TypeOK, selection, ticker
  <2>2. QED
    BY <2>1, <1>4, SelectionUntouched DEF ProbeReturn, selection
<1>5. CASE FinishRound
  BY <1>5, FinishRoundKeepsIInv
<1>6. CASE StopRun
  <2>1. TypeOK'
    BY <1>1, <1>6 DEF StopRun, TypeOK, selection, ticker
  <2>2. QED
    BY <2>1, <1>6, SelectionUntouched DEF StopRun, selection
<1>7. ASSUME NEW u \in Callers, NEW c \in Filters, SetClusterFilter(u, c)
      PROVE  IInv'
  BY <1>7, FilterKeepsIInv
<1>8. ASSUME NEW a \in Actors, OnSwitch(a)
      PROVE  IInv'
  <2>1. NoSwitch \in Switch
    BY DEF NoSwitch, Switch
  <2>2. TypeOK'
    BY <1>1, <1>8, <2>1 DEF OnSwitch, TypeOK, selection, round, ticker
  <2>3. QED
    BY <2>2, <1>8, SelectionUntouched DEF OnSwitch, selection
<1>9. CASE Tick
  BY <1>1, <1>9, TickKeepsTypes, SelectionUntouched DEF Tick
<1>10. CASE Cancel
  <2>1. TypeOK'
    BY <1>1, <1>10 DEF Cancel, TypeOK, selection, round, ticker
  <2>2. QED
    BY <2>1, <1>10, SelectionUntouched DEF Cancel, selection
<1>11. ASSUME NEW i \in DC, Flip(i)
       PROVE  IInv'
  <2>1. TypeOK'
    BY <1>1, <1>11 DEF Flip, TypeOK, selection, round, ticker
  <2>2. QED
    BY <2>1, <1>11, SelectionUntouched DEF Flip, selection
<1>12. CASE UNCHANGED vars
  <2>1. TypeOK'
    BY <1>1, <1>12 DEF vars, TypeOK, selection, round, ticker
  <2>2. QED
    BY <2>1, <1>12, SelectionUntouched DEF vars, selection
<1>13. QED
  BY <1>2, <1>3, <1>4, <1>5, <1>6, <1>7, <1>8, <1>9, <1>10, <1>11, <1>12
     DEF Next, Run, UI, Environment

LEMMA Invariance == Spec => []IInv
  BY InitIInv, NextIInv, PTL DEF Spec

(* The types of Supervisor's variables, whatever the constants.            *)
THEOREM TypeCorrect == Spec => []TypeOK
<1>1. IInv => TypeOK
  BY DEF IInv
<1>2. QED
  BY Invariance, <1>1, PTL

(* The selected datacenter is healthy and allowed by the filter, and none  *)
(* is selected only when there is none to select: reselectLocked runs      *)
(* under s.mu after every change of either.                                *)
THEOREM Soundness == Spec => []SelectionSound
<1>1. IInv => SelectionSound
  BY DEF IInv
<1>2. QED
  BY Invariance, <1>1, PTL

(* Switching cluster is operator-driven: no round ever selects outside the *)
(* cluster of the last SetClusterFilter.                                   *)
THEOREM Scoped == Spec => []ActiveInScope
<1>1. IInv => ActiveInScope
  BY DEF IInv, ActiveInScope, SelectionSound, Eligible, Quarantined, TypeOK
<1>2. QED
  BY Invariance, <1>1, PTL

-------------------------------------------------------------------------------
(* Refinement of FailoverSelector *)

(* A reselect whose hold-down test is at least as strict as the abstract   *)
(* one makes an abstract choice.                                           *)
LEMMA SelectIsSuccessor ==
  ASSUME NEW prev \in DC \cup {None}, NEW up \in SUBSET DC, NEW off \in SUBSET DC,
         NEW seasoned, NEW sett \in SUBSET DC,
         Eligible(up, off) \cap seasoned \subseteq sett
  PROVE  Select(prev, up, off, seasoned) \in Selector!Successors(prev, Eligible(up, off), sett)
<1> DEFINE best == Select(prev, up, off, seasoned)
           elig == Eligible(up, off)
<1>1. /\ best \in elig \cup {None}
      /\ best = None => elig = {}
      /\ prev \in elig => \/ best = prev
                          \/ best \in elig /\ best < prev /\ best \in seasoned
      /\ prev \notin elig /\ elig # {} => best = Min(elig)
  BY SelectIsSound
<1>2. elig \in SUBSET DC
  BY DEF Eligible
<1> HIDE DEF best, elig
<1>3. CASE prev \in elig
  <2>1. best = prev \/ (best \in sett /\ best < prev)
    BY <1>1, <1>3 DEF elig
  <2>2. QED
    BY <1>3, <2>1 DEF Selector!Successors, best, elig
<1>4. CASE prev \notin elig /\ elig = {}
  <2>1. best = None
    BY <1>1, <1>4
  <2>2. None \in Selector!Successors(prev, elig, sett)
    BY <1>4 DEF Selector!Successors, Selector!None
  <2>3. QED
    BY <2>1, <2>2 DEF best, elig
<1>5. CASE prev \notin elig /\ elig # {}
  <2>1. best = Min(elig) /\ best \in elig
    BY <1>1, <1>5
  <2>2. best \in Selector!Successors(prev, elig, sett)
    BY <1>5, <2>1 DEF Selector!Successors, Min, Selector!Min
  <2>3. QED
    BY <2>2 DEF best, elig
<1>6. QED
  BY <1>3, <1>4, <1>5

(* A step that keeps the choice is abstractly a re-selection that changes  *)
(* nothing, as long as the choice is still sound.                          *)
LEMMA KeptChoiceRefines ==
  ASSUME TypeOK, TypeOK', SelectionSound', active' = active
  PROVE  Selector!Reselect
<1> DEFINE elig == Eligible(Healthy, disabled)
           sett == {i \in elig : upFor[i] >= HoldDown}
<1>1. elig' \in SUBSET DC /\ sett' \in SUBSET elig'
  BY DEF Eligible, Healthy
<1>2. active' \in Selector!Successors(active, elig', sett')
  <2>1. CASE active \in elig'
    BY <2>1 DEF Selector!Successors
  <2>2. CASE active \notin elig'
    <3>1. active' = None /\ elig' = {}
      BY <2>2 DEF SelectionSound
    <3>2. QED
      BY <2>2, <3>1 DEF Selector!Successors, Selector!None
  <2>3. QED
    BY <2>1, <2>2
<1>3. QED
  BY <1>1, <1>2 DEF Selector!Reselect, Selector!DC

LEMMA FinishRoundRefines ==
  ASSUME IInv, IInv', FinishRound
  PROVE  Selector!Reselect
<1> DEFINE up   == {i \in DC : results[i] = "ok"}
           seasoned == {i \in DC : UpForAfter(i) - roundFor >= HoldDown}
           sett == {i \in Eligible(up, disabled) : UpForAfter(i) >= HoldDown}
<1>1. /\ TypeOK /\ active \in DC \cup {None} /\ disabled \in SUBSET DC
      /\ up \in SUBSET DC /\ sett \in SUBSET DC
  BY DEF IInv, TypeOK, Eligible
<1>2. Eligible(up, disabled) \cap seasoned \subseteq sett
  BY <1>1, AgesAfterRound DEF Eligible
<1>3. active' = Select(active, up, disabled, seasoned)
  BY DEF FinishRound, ReselectLocked
<1>4. active' \in Selector!Successors(active, Eligible(up, disabled), sett)
  <2> HIDE DEF up, seasoned, sett
  <2>1. QED
    BY <1>1, <1>2, <1>3, SelectIsSuccessor
<1>5. Healthy' = up /\ disabled' = disabled
  BY DEF FinishRound, Healthy
<1>6. \A i \in DC : upFor'[i] = UpForAfter(i)
  BY DEF FinishRound
<1>7. /\ Eligible(Healthy, disabled)' = Eligible(up, disabled)
      /\ {i \in Eligible(Healthy, disabled) : upFor[i] >= HoldDown}' = sett
  BY <1>5, <1>6 DEF Eligible
<1>8. QED
  BY <1>1, <1>4, <1>7 DEF Selector!Reselect, Selector!DC, Eligible

LEMMA FilterRefines ==
  ASSUME IInv, IInv', NEW u \in Callers, NEW c \in Filters, SetClusterFilter(u, c)
  PROVE  Selector!Reselect
<1> DEFINE off  == Quarantined(c)
           seasoned == {i \in DC : upFor[i] >= HoldDown}
           sett == {i \in Eligible(Healthy, off) : upFor[i] >= HoldDown}
<1>1. /\ active \in DC \cup {None} /\ Healthy \in SUBSET DC /\ off \in SUBSET DC
      /\ sett \in SUBSET DC
  BY DEF IInv, TypeOK, Healthy, Quarantined, Eligible
<1>2. Eligible(Healthy, off) \cap seasoned \subseteq sett
  OBVIOUS
<1>3. active' = Select(active, Healthy, off, seasoned)
  BY DEF SetClusterFilter, ReselectLocked
<1>4. active' \in Selector!Successors(active, Eligible(Healthy, off), sett)
  <2> HIDE DEF off, seasoned, sett
  <2>1. QED
    BY <1>1, <1>2, <1>3, SelectIsSuccessor
<1>5. Healthy' = Healthy /\ disabled' = off /\ upFor' = upFor
  BY DEF SetClusterFilter, Healthy
<1>6. /\ Eligible(Healthy, disabled)' = Eligible(Healthy, off)
      /\ {i \in Eligible(Healthy, disabled) : upFor[i] >= HoldDown}' = sett
  BY <1>5 DEF Eligible
<1>7. QED
  BY <1>1, <1>4, <1>6 DEF Selector!Reselect, Selector!DC, Eligible

(* Every other step keeps the choice.                                      *)
LEMMA OtherStepsKeepChoice ==
  ASSUME [Next]_vars, ~ FinishRound,
         ~ (\E u \in Callers, c \in Filters : SetClusterFilter(u, c))
  PROVE  active' = active
  BY DEF Next, Run, UI, Environment, Launch, BeginRound, ProbeReturn, StopRun, OnSwitch,
         Tick, Cancel, Flip, vars, selection

(* Supervisor implements the abstract selector: fail over at once, fail    *)
(* back only to a datacenter that has held up for the hold-down.           *)
THEOREM Refinement == Spec => ImplementsSelector
<1>1. Init => Selector!Init
  BY DEF Init, Selector!Init, Healthy, Eligible, Selector!None
<1>2. IInv /\ IInv' /\ [Next]_vars => [Selector!Reselect]_(Selector!vars)
  <2> SUFFICES ASSUME IInv, IInv', [Next]_vars
               PROVE  Selector!Reselect
    OBVIOUS
  <2>1. CASE FinishRound
    BY <2>1, FinishRoundRefines
  <2>2. CASE \E u \in Callers, c \in Filters : SetClusterFilter(u, c)
    BY <2>2, FilterRefines
  <2>3. CASE ~ FinishRound /\ ~ (\E u \in Callers, c \in Filters : SetClusterFilter(u, c))
    BY <2>3, OtherStepsKeepChoice, KeptChoiceRefines DEF IInv
  <2>4. QED
    BY <2>1, <2>2, <2>3
<1>3. QED
  BY <1>1, <1>2, Invariance, PTL DEF Spec, ImplementsSelector, Selector!Spec

-------------------------------------------------------------------------------
(* SupervisorTiming: the argument follows the clocks through one round,    *)
(* what the ticker still has to wait, what a probe recorded, and how old   *)
(* that record is.  A timeout longer than the interval is included.        *)

USE DEF Silent

(* The inductive invariant *)

Slowest == Max({Interval, ProbeTimeout})

ClockTypes ==
  /\ steadyFor \in [DC -> Nat]
  /\ answersFor \in [DC -> Nat \cup {Silent}]

(* A round starts with no answers and its own clock at zero; as long as no *)
(* tick is waiting, it started no longer ago than the ticker has run.      *)
RoundClock ==
  /\ run # "probing" => roundFor = 0 /\ \A i \in DC : results[i] = "pending"
  /\ run = "new" => ~tickReady /\ \A i \in DC : health[i] # "up"
  /\ run = "probing" /\ ~tickReady => roundFor + tickIn <= Interval

(* How long a datacenter that the Supervisor still believes in, or that    *)
(* answered in the running round, may have been gone.                      *)
GoneClock ==
  \A i \in DC \ reachable :
    /\ run = "idle" /\ health[i] = "up" /\ tickReady => steadyFor[i] <= Slowest
    /\ run = "idle" /\ health[i] = "up" /\ ~tickReady =>
         steadyFor[i] + tickIn <= Interval
    /\ run = "probing" /\ health[i] = "up" => steadyFor[i] <= Slowest + roundFor
    /\ results[i] = "ok" => steadyFor[i] <= roundFor

(* A healthy datacenter has answered for as long as upSince says, short of *)
(* the time its first good probe took.                                     *)
AnswerClock ==
  \A i \in DC :
    /\ health[i] = "up" =>
         answersFor[i] # Silent /\ upFor[i] <= answersFor[i] + ProbeTimeout
    /\ results[i] = "ok" => answersFor[i] # Silent

(* A failed probe of a live application met a datacenter that was gone     *)
(* during the round.                                                       *)
FailClock ==
  \A i \in DC :
    results[i] = "fail" /\ ~ctxDone => i \notin reachable \/ steadyFor[i] <= roundFor

Clocks == ClockTypes /\ RoundClock /\ GoneClock /\ AnswerClock /\ FailClock

TimedInv == IInv /\ Clocks

-------------------------------------------------------------------------------
(* Lemmas about the clocks *)

LEMMA MaxOfTwo ==
  ASSUME NEW a \in Nat, NEW b \in Nat
  PROVE  Max({a, b}) \in Nat /\ Max({a, b}) >= a /\ Max({a, b}) >= b
<1>1. \E x \in {a, b} : \A y \in {a, b} : x >= y
  BY SMT
<1>2. Max({a, b}) \in {a, b} /\ \A y \in {a, b} : Max({a, b}) >= y
  BY <1>1 DEF Max
<1>3. QED
  BY <1>2

LEMMA BoundTypes ==
  /\ Slowest \in Nat /\ Slowest >= Interval /\ Slowest >= ProbeTimeout
  /\ Detection = Slowest + ProbeTimeout /\ Detection \in Nat
<1>1. Interval \in Nat /\ ProbeTimeout \in Nat
  OBVIOUS
<1>2. Slowest \in Nat /\ Slowest >= Interval /\ Slowest >= ProbeTimeout
  BY <1>1, MaxOfTwo DEF Slowest
<1>3. Detection = Slowest + ProbeTimeout
  BY DEF Detection, Slowest
<1>4. QED
  BY <1>1, <1>2, <1>3

(* The clocks of one datacenter over a tick.                               *)
LEMMA SteadyOverTick ==
  ASSUME ClockTypes, TimedTick, NEW i \in DC
  PROVE  steadyFor'[i] \in Nat /\ steadyFor'[i] <= steadyFor[i] + 1
<1>1. steadyFor[i] \in Nat
  BY DEF ClockTypes
<1>2. Detection + 1 \in Nat
  BY BoundTypes
<1>3. steadyFor'[i] = AgedBy1(steadyFor[i], Detection + 1)
  BY DEF TimedTick
<1>4. AgedBy1(steadyFor[i], Detection + 1) = Min({steadyFor[i] + 1, Detection + 1})
  BY <1>1 DEF AgedBy1
<1>5. steadyFor[i] + 1 \in Nat
  BY <1>1
<1>6. QED
  BY <1>2, <1>3, <1>4, <1>5, MinOfTwo

LEMMA AnswersOverTick ==
  ASSUME ClockTypes, TimedTick, NEW i \in DC
  PROVE  /\ answersFor[i] = Silent => answersFor'[i] = Silent
         /\ answersFor[i] # Silent =>
              answersFor'[i] \in Nat /\ answersFor'[i] \in {answersFor[i] + 1, HoldDown}
<1>1. answersFor'[i] = AgedBy1(answersFor[i], HoldDown)
  BY DEF TimedTick
<1>2. CASE answersFor[i] = Silent
  BY <1>1, <1>2 DEF AgedBy1
<1>3. CASE answersFor[i] # Silent
  <2>1. answersFor[i] + 1 \in Nat /\ HoldDown \in Nat
    BY <1>3 DEF ClockTypes
  <2>2. answersFor'[i] = Min({answersFor[i] + 1, HoldDown})
    BY <1>1, <1>3 DEF AgedBy1
  <2>3. QED
    BY <1>3, <2>1, <2>2, MinOfTwo
<1>4. QED
  BY <1>2, <1>3

(* What time does to the Supervisor while a tick passes.                   *)
LEMMA RoundOverTick ==
  ASSUME TypeOK, Tick
  PROVE  /\ run' = run /\ results' = results /\ health' = health
         /\ reachable' = reachable /\ ctxDone' = ctxDone
         /\ run = "probing" => roundFor' = roundFor + 1
         /\ run # "probing" => roundFor' = roundFor
         /\ run = "idle" => ~tickReady
         /\ run \in {"idle", "probing"} =>
              \/ tickReady' /\ (tickReady \/ tickIn = 1)
              \/ ~tickReady' /\ ~tickReady /\ tickIn' = tickIn - 1
         /\ run \notin {"idle", "probing"} => tickReady' = tickReady
<1>1. tickReady \in BOOLEAN /\ tickIn \in Nat
  BY DEF TypeOK
<1>2. /\ run' = run /\ results' = results /\ health' = health
      /\ reachable' = reachable /\ ctxDone' = ctxDone
      /\ run = "probing" => roundFor' = roundFor + 1
      /\ run # "probing" => roundFor' = roundFor
  BY DEF Tick
<1>3. run = "idle" => ~tickReady
  BY Zenon DEF Tick, Due
<1>4. ASSUME run \in {"idle", "probing"}
      PROVE  /\ tickIn' = IF tickIn = 1 THEN Interval ELSE tickIn - 1
             /\ tickReady' = (tickReady \/ tickIn = 1)
  BY <1>4, Zenon DEF Tick, TickerFires
<1>5. ASSUME run \in {"idle", "probing"}
      PROVE  \/ tickReady' /\ (tickReady \/ tickIn = 1)
             \/ ~tickReady' /\ ~tickReady /\ tickIn' = tickIn - 1
  <2>1. CASE tickReady \/ tickIn = 1
    BY <1>4, <1>5, <2>1, Zenon
  <2>2. CASE ~tickReady /\ tickIn # 1
    BY <1>4, <1>5, <2>2, Zenon
  <2>3. QED
    BY <2>1, <2>2
<1>6. run \notin {"idle", "probing"} => tickReady' = tickReady
  BY DEF Tick, ticker
<1>7. QED
  BY <1>2, <1>3, <1>5, <1>6, Zenon

-------------------------------------------------------------------------------
(* Each step keeps the clocks *)

LEMMA InitClocks == TimedInit => Clocks
<1> SUFFICES ASSUME TimedInit
             PROVE  Clocks
  OBVIOUS
<1>1. ClockTypes
  BY BoundTypes DEF TimedInit, ClockTypes
<1>2. RoundClock
  BY DEF TimedInit, Init, RoundClock
<1>3. GoneClock /\ AnswerClock /\ FailClock
  BY DEF TimedInit, Init, GoneClock, AnswerClock, FailClock
<1>4. QED
  BY <1>1, <1>2, <1>3 DEF Clocks

LEMMA TickKeepsClocks ==
  ASSUME TimedInv, TimedTick
  PROVE  Clocks'
<1>1. Tick /\ TypeOK /\ Clocks
  BY DEF TimedInv, IInv, TimedTick
<1>2. /\ run' = run /\ results' = results /\ health' = health
      /\ reachable' = reachable /\ ctxDone' = ctxDone
      /\ run = "probing" => roundFor' = roundFor + 1
      /\ run # "probing" => roundFor' = roundFor
      /\ run = "idle" => ~tickReady
      /\ run \in {"idle", "probing"} =>
           \/ tickReady' /\ (tickReady \/ tickIn = 1)
           \/ ~tickReady' /\ ~tickReady /\ tickIn' = tickIn - 1
      /\ run \notin {"idle", "probing"} => tickReady' = tickReady
  BY <1>1, RoundOverTick
<1>3. roundFor \in Nat /\ tickIn \in Nat
  BY <1>1 DEF TypeOK
<1>4. ASSUME NEW i \in DC
      PROVE  steadyFor[i] \in Nat /\ steadyFor'[i] \in Nat /\ steadyFor'[i] <= steadyFor[i] + 1
  BY <1>1, <1>4, SteadyOverTick DEF Clocks, ClockTypes
<1>5. ASSUME NEW i \in DC
      PROVE  /\ answersFor[i] \in Nat \cup {Silent}
             /\ answersFor[i] = Silent => answersFor'[i] = Silent
             /\ answersFor[i] # Silent =>
                  answersFor'[i] \in Nat /\ answersFor'[i] \in {answersFor[i] + 1, HoldDown}
  BY <1>1, <1>5, AnswersOverTick DEF Clocks, ClockTypes
<1>6. ClockTypes'
  <2>1. steadyFor' \in [DC -> Nat]
    BY <1>4 DEF TimedTick
  <2>2. answersFor' \in [DC -> Nat \cup {Silent}]
    BY <1>5 DEF TimedTick
  <2>3. QED
    BY <2>1, <2>2 DEF ClockTypes
<1>7. RoundClock'
  BY <1>1, <1>2, <1>3 DEF RoundClock, Clocks
<1>8. GoneClock'
  <2> SUFFICES ASSUME NEW i \in DC \ reachable
               PROVE  /\ run = "idle" /\ health[i] = "up" /\ tickReady' =>
                           steadyFor'[i] <= Slowest
                      /\ run = "idle" /\ health[i] = "up" /\ ~tickReady' =>
                           steadyFor'[i] + tickIn' <= Interval
                      /\ run = "probing" /\ health[i] = "up" =>
                           steadyFor'[i] <= Slowest + roundFor'
                      /\ results[i] = "ok" => steadyFor'[i] <= roundFor'
    BY <1>2 DEF GoneClock
  <2>1. /\ run = "idle" /\ health[i] = "up" /\ ~tickReady =>
             steadyFor[i] + tickIn <= Interval
        /\ run = "probing" /\ health[i] = "up" => steadyFor[i] <= Slowest + roundFor
        /\ results[i] = "ok" => steadyFor[i] <= roundFor /\ run = "probing"
    BY <1>1 DEF Clocks, GoneClock, RoundClock
  <2>2. QED
    BY <1>2, <1>3, <1>4, <2>1, BoundTypes
<1>9. AnswerClock'
  <2> SUFFICES ASSUME NEW i \in DC
               PROVE  /\ health[i] = "up" =>
                           answersFor'[i] # Silent /\ upFor'[i] <= answersFor'[i] + ProbeTimeout
                      /\ results[i] = "ok" => answersFor'[i] # Silent
    BY <1>2 DEF AnswerClock
  <2>1. upFor'[i] = Min({upFor[i] + 1, Horizon}) /\ upFor[i] \in Nat /\ Horizon \in Nat
    BY <1>1 DEF Tick, TypeOK, Horizon
  <2>2. upFor[i] + 1 \in Nat
    BY <2>1
  <2>3. upFor'[i] <= upFor[i] + 1 /\ upFor'[i] <= HoldDown + ProbeTimeout /\ upFor'[i] \in Nat
    BY <2>1, <2>2, MinOfTwo DEF Horizon
  <2>4. /\ health[i] = "up" =>
             answersFor[i] # Silent /\ upFor[i] <= answersFor[i] + ProbeTimeout
        /\ results[i] = "ok" => answersFor[i] # Silent
    BY <1>1 DEF Clocks, AnswerClock
  <2>5. QED
    BY <1>5, <2>1, <2>3, <2>4
<1>10. FailClock'
  <2> SUFFICES ASSUME NEW i \in DC, results[i] = "fail", ~ctxDone
               PROVE  i \notin reachable \/ steadyFor'[i] <= roundFor'
    BY <1>2 DEF FailClock
  <2>1. run = "probing" /\ (i \notin reachable \/ steadyFor[i] <= roundFor)
    BY <1>1 DEF Clocks, FailClock, RoundClock
  <2>2. QED
    BY <1>2, <1>3, <1>4, <2>1
<1>11. QED
  BY <1>6, <1>7, <1>8, <1>9, <1>10 DEF Clocks

LEMMA FlipKeepsClocks ==
  ASSUME TimedInv, NEW j \in DC, TimedFlip(j)
  PROVE  Clocks'
<1>1. TypeOK /\ Clocks
  BY DEF TimedInv, IInv
<1>2. /\ run' = run /\ results' = results /\ health' = health /\ roundFor' = roundFor
      /\ ctxDone' = ctxDone /\ tickIn' = tickIn /\ tickReady' = tickReady
      /\ upFor' = upFor /\ answersFor' = answersFor
      /\ steadyFor' = [steadyFor EXCEPT ![j] = 0]
      /\ \A i \in DC : i # j => (i \in reachable' <=> i \in reachable)
  BY DEF TimedFlip, Flip, selection, round, ticker
<1>3. roundFor \in Nat /\ tickIn \in 1..Interval
  BY <1>1 DEF TypeOK
<1>4. steadyFor \in [DC -> Nat]
  BY <1>1 DEF Clocks, ClockTypes
<1>5. ClockTypes'
  BY <1>1, <1>2 DEF Clocks, ClockTypes
<1>6. RoundClock'
  BY <1>1, <1>2 DEF Clocks, RoundClock
<1>7. GoneClock'
  <2> SUFFICES ASSUME NEW i \in DC, i \notin reachable'
               PROVE  /\ run = "idle" /\ health[i] = "up" /\ tickReady =>
                           steadyFor'[i] <= Slowest
                      /\ run = "idle" /\ health[i] = "up" /\ ~tickReady =>
                           steadyFor'[i] + tickIn <= Interval
                      /\ run = "probing" /\ health[i] = "up" =>
                           steadyFor'[i] <= Slowest + roundFor
                      /\ results[i] = "ok" => steadyFor'[i] <= roundFor
    BY <1>2 DEF GoneClock
  <2>1. CASE i = j
    <3>1. steadyFor'[i] = 0
      BY <1>2, <1>4, <2>1
    <3>2. QED
      BY <1>3, <3>1, BoundTypes
  <2>2. CASE i # j
    <3>1. steadyFor'[i] = steadyFor[i] /\ i \in DC \ reachable
      BY <1>2, <1>4, <2>2
    <3>2. QED
      BY <1>1, <3>1 DEF Clocks, GoneClock
  <2>3. QED
    BY <2>1, <2>2
<1>8. AnswerClock'
  BY <1>1, <1>2 DEF Clocks, AnswerClock
<1>9. FailClock'
  <2> SUFFICES ASSUME NEW i \in DC, results[i] = "fail", ~ctxDone
               PROVE  i \notin reachable' \/ steadyFor'[i] <= roundFor
    BY <1>2 DEF FailClock
  <2>1. CASE i = j
    BY <1>2, <1>3, <1>4, <2>1
  <2>2. CASE i # j
    BY <1>1, <1>2, <1>4, <2>2 DEF Clocks, FailClock
  <2>3. QED
    BY <2>1, <2>2
<1>10. QED
  BY <1>5, <1>6, <1>7, <1>8, <1>9 DEF Clocks

LEMMA ProbeReturnKeepsClocks ==
  ASSUME TimedInv, NEW j \in DC, TimedProbeReturn(j)
  PROVE  Clocks'
<1>1. TypeOK /\ Clocks
  BY DEF TimedInv, IInv
<1>2. /\ run = "probing" /\ run' = run /\ health' = health /\ roundFor' = roundFor
      /\ ctxDone' = ctxDone /\ reachable' = reachable
      /\ tickIn' = tickIn /\ tickReady' = tickReady
      /\ upFor' = upFor /\ steadyFor' = steadyFor
      /\ results' = [results EXCEPT ![j] =
           IF j \in reachable /\ ~ctxDone THEN "ok" ELSE "fail"]
  BY DEF TimedProbeReturn, ProbeReturn, selection, ticker
<1>3. /\ \A i \in DC : i # j => results'[i] = results[i] /\ answersFor'[i] = answersFor[i]
      /\ results'[j] = "ok" => j \in reachable /\ answersFor'[j] # Silent
      /\ results'[j] = "fail" => j \notin reachable \/ ctxDone
      /\ answersFor'[j] = IF results'[j] = "ok" /\ answersFor[j] = Silent
                           THEN 0 ELSE answersFor[j]
  BY <1>1, <1>2 DEF TimedProbeReturn, TypeOK, Clocks, ClockTypes
<1>4. ClockTypes'
  BY <1>1, <1>2 DEF TimedProbeReturn, Clocks, ClockTypes
<1>5. RoundClock'
  BY <1>1, <1>2 DEF Clocks, RoundClock
<1>6. GoneClock'
  BY <1>1, <1>2, <1>3 DEF Clocks, GoneClock
<1>7. AnswerClock'
  <2> SUFFICES ASSUME NEW i \in DC
               PROVE  /\ health[i] = "up" =>
                           answersFor'[i] # Silent /\ upFor[i] <= answersFor'[i] + ProbeTimeout
                      /\ results'[i] = "ok" => answersFor'[i] # Silent
    BY <1>2 DEF AnswerClock
  <2>1. /\ health[i] = "up" =>
             answersFor[i] # Silent /\ upFor[i] <= answersFor[i] + ProbeTimeout
        /\ results[i] = "ok" => answersFor[i] # Silent
    BY <1>1 DEF Clocks, AnswerClock
  <2>2. QED
    BY <1>3, <2>1
<1>8. FailClock'
  <2> SUFFICES ASSUME NEW i \in DC, results'[i] = "fail", ~ctxDone
               PROVE  i \notin reachable \/ steadyFor[i] <= roundFor
    BY <1>2 DEF FailClock
  <2>1. QED
    BY <1>1, <1>3 DEF Clocks, FailClock
<1>9. QED
  BY <1>4, <1>5, <1>6, <1>7, <1>8 DEF Clocks

LEMMA FinishRoundKeepsClocks ==
  ASSUME TimedInv, TimedFinishRound
  PROVE  Clocks'
<1>1. TypeOK /\ Clocks
  BY DEF TimedInv, IInv
<1>2. /\ run = "probing" /\ run' = "idle" /\ roundFor' = 0
      /\ reachable' = reachable /\ tickIn' = tickIn /\ tickReady' = tickReady
      /\ steadyFor' = steadyFor
      /\ results' = [i \in DC |-> "pending"]
      /\ \A i \in DC : /\ results[i] \in {"ok", "fail"}
                       /\ health'[i] = "up" <=> results[i] = "ok"
                       /\ upFor'[i] = UpForAfter(i)
                       /\ results[i] = "ok" => answersFor'[i] = answersFor[i]
  BY <1>1 DEF TimedFinishRound, FinishRound, ticker, AllReturned, TypeOK
<1>3. roundFor \in 0..ProbeTimeout /\ tickIn \in Nat
  BY <1>1 DEF TypeOK
<1>4. ClockTypes'
  BY <1>1, <1>2 DEF TimedFinishRound, Clocks, ClockTypes
<1>5. RoundClock'
  BY <1>2 DEF RoundClock
<1>6. GoneClock'
  <2> SUFFICES ASSUME NEW i \in DC \ reachable, results[i] = "ok"
               PROVE  /\ tickReady => steadyFor[i] <= Slowest
                      /\ ~tickReady => steadyFor[i] + tickIn <= Interval
    BY <1>2 DEF GoneClock
  <2>1. steadyFor[i] <= roundFor /\ (~tickReady => roundFor + tickIn <= Interval)
    BY <1>1, <1>2 DEF Clocks, GoneClock, RoundClock
  <2>2. steadyFor[i] \in Nat
    BY <1>1 DEF Clocks, ClockTypes
  <2>3. QED
    BY <1>3, <2>1, <2>2, BoundTypes
<1>7. AnswerClock'
  <2> SUFFICES ASSUME NEW i \in DC, results[i] = "ok"
               PROVE  answersFor[i] # Silent /\ UpForAfter(i) <= answersFor[i] + ProbeTimeout
    BY <1>2 DEF AnswerClock
  <2>1. /\ answersFor[i] \in Nat
        /\ health[i] = "up" => upFor[i] <= answersFor[i] + ProbeTimeout
    BY <1>1 DEF Clocks, ClockTypes, AnswerClock
  <2>2. UpForAfter(i) = IF health[i] = "up" THEN upFor[i] ELSE roundFor
    BY DEF UpForAfter, Healthy
  <2>3. QED
    BY <1>3, <2>1, <2>2
<1>8. FailClock'
  BY <1>2 DEF FailClock
<1>9. QED
  BY <1>4, <1>5, <1>6, <1>7, <1>8 DEF Clocks

LEMMA LaunchKeepsClocks ==
  ASSUME TimedInv, Launch, UNCHANGED <<steadyFor, answersFor>>
  PROVE  Clocks'
<1>1. TypeOK /\ Clocks
  BY DEF TimedInv, IInv
<1>2. /\ run = "new" /\ run' = "probing" /\ tickIn' = Interval /\ tickReady' = tickReady
      /\ results' = results /\ roundFor' = roundFor /\ reachable' = reachable
      /\ ctxDone' = ctxDone /\ health' = health /\ upFor' = upFor
  BY DEF Launch, selection
<1>3. roundFor = 0 /\ \A i \in DC : results[i] = "pending" /\ health[i] # "up"
  BY <1>1, <1>2 DEF Clocks, RoundClock
<1>4. ClockTypes'
  BY <1>1 DEF Clocks, ClockTypes
<1>5. RoundClock'
  BY <1>2, <1>3 DEF RoundClock
<1>6. GoneClock' /\ AnswerClock' /\ FailClock'
  BY <1>2, <1>3 DEF GoneClock, AnswerClock, FailClock
<1>7. QED
  BY <1>4, <1>5, <1>6 DEF Clocks

LEMMA BeginRoundKeepsClocks ==
  ASSUME TimedInv, BeginRound, UNCHANGED <<steadyFor, answersFor>>
  PROVE  Clocks'
<1>1. TypeOK /\ Clocks
  BY DEF TimedInv, IInv
<1>2. /\ run = "idle" /\ tickReady /\ run' = "probing" /\ ~tickReady'
      /\ tickIn' = tickIn /\ results' = results /\ roundFor' = roundFor
      /\ reachable' = reachable /\ ctxDone' = ctxDone /\ health' = health /\ upFor' = upFor
  BY DEF BeginRound, selection
<1>3. roundFor = 0 /\ \A i \in DC : results[i] = "pending"
  BY <1>1, <1>2 DEF Clocks, RoundClock
<1>4. ClockTypes'
  BY <1>1 DEF Clocks, ClockTypes
<1>5. RoundClock'
  BY <1>1, <1>2, <1>3 DEF RoundClock, TypeOK
<1>6. GoneClock'
  <2> SUFFICES ASSUME NEW i \in DC \ reachable, health[i] = "up"
               PROVE  steadyFor[i] <= Slowest + roundFor
    BY <1>2, <1>3 DEF GoneClock
  <2>1. steadyFor[i] <= Slowest
    BY <1>1, <1>2 DEF Clocks, GoneClock
  <2>2. QED
    BY <1>3, <2>1, BoundTypes
<1>7. AnswerClock' /\ FailClock'
  BY <1>1, <1>2 DEF Clocks, AnswerClock, FailClock
<1>8. QED
  BY <1>4, <1>5, <1>6, <1>7 DEF Clocks

(* A step that leaves the round, the health and the network alone.         *)
LEMMA ClocksUntouched ==
  ASSUME Clocks, UNCHANGED <<steadyFor, answersFor, reachable, health, upFor, ticker>>,
         results' = results, roundFor' = roundFor,
         run' = run \/ (run = "idle" /\ run' = "stopped"),
         ctxDone' = ctxDone \/ ctxDone' = TRUE
  PROVE  Clocks'
<1>1. ClockTypes' /\ RoundClock'
  BY DEF Clocks, ClockTypes, RoundClock, ticker
<1>2. GoneClock'
  BY DEF Clocks, GoneClock, ticker
<1>3. AnswerClock' /\ FailClock'
  BY DEF Clocks, AnswerClock, FailClock
<1>4. QED
  BY <1>1, <1>2, <1>3 DEF Clocks

LEMMA UntimedKeepsClocks ==
  ASSUME TimedInv, Untimed
  PROVE  Clocks'
<1>1. Clocks /\ UNCHANGED <<steadyFor, answersFor>>
  BY DEF TimedInv, Untimed
<1>2. CASE Launch
  BY <1>1, <1>2, LaunchKeepsClocks
<1>3. CASE BeginRound
  BY <1>1, <1>3, BeginRoundKeepsClocks
<1>4. CASE StopRun
  BY <1>1, <1>4, ClocksUntouched DEF StopRun, selection
<1>5. CASE UI
  BY <1>1, <1>5, ClocksUntouched DEF UI, SetClusterFilter, round
<1>6. CASE Cancel
  BY <1>1, <1>6, ClocksUntouched DEF Cancel, selection, round
<1>7. CASE \E a \in Actors : OnSwitch(a)
  BY <1>1, <1>7, ClocksUntouched DEF OnSwitch, selection, round
<1>8. QED
  BY <1>2, <1>3, <1>4, <1>5, <1>6, <1>7 DEF Untimed

-------------------------------------------------------------------------------
(* The invariant *)

(* The clocks only watch: every step is a step of Supervisor.              *)
LEMMA TimedStep == [TimedNext]_timedVars => [Next]_vars
  BY DEF TimedNext, timedVars, TimedTick, TimedFlip, TimedProbeReturn, TimedFinishRound,
         Untimed, Next, Run, Environment

LEMMA TimedInvInductive == TimedInv /\ [TimedNext]_timedVars => TimedInv'
<1> SUFFICES ASSUME TimedInv, [TimedNext]_timedVars
             PROVE  TimedInv'
  OBVIOUS
<1>1. IInv'
  BY TimedStep, NextIInv DEF TimedInv
<1> SUFFICES Clocks'
  BY <1>1 DEF TimedInv
<1>2. CASE TimedTick
  BY <1>2, TickKeepsClocks
<1>3. ASSUME NEW i \in DC, TimedFlip(i)
      PROVE  Clocks'
  BY <1>3, FlipKeepsClocks
<1>4. ASSUME NEW i \in DC, TimedProbeReturn(i)
      PROVE  Clocks'
  BY <1>4, ProbeReturnKeepsClocks
<1>5. CASE TimedFinishRound
  BY <1>5, FinishRoundKeepsClocks
<1>6. CASE Untimed
  BY <1>6, UntimedKeepsClocks
<1>7. CASE UNCHANGED timedVars
  BY <1>7, ClocksUntouched DEF TimedInv, timedVars, vars, selection, round
<1>8. QED
  BY <1>2, <1>3, <1>4, <1>5, <1>6, <1>7 DEF TimedNext

LEMMA TimedInvariance == TimedSpec => []TimedInv
<1>1. TimedInit => TimedInv
  BY InitIInv, InitClocks DEF TimedInit, TimedInv
<1>2. QED
  BY <1>1, TimedInvInductive, PTL DEF TimedSpec

(* "Fail fast": no datacenter gone for longer than Detection is active     *)
(* while Run lives, for every interval and probe timeout.                  *)
THEOREM FailsFast == TimedSpec => []FailoverBound
<1>1. TimedInv => FailoverBound
  <2> SUFFICES ASSUME TimedInv, NEW i \in DC, active = i, i \notin reachable,
                      run \in {"idle", "probing"}
               PROVE  steadyFor[i] <= Detection
    BY DEF FailoverBound
  <2>1. /\ roundFor \in 0..ProbeTimeout /\ tickIn \in Nat /\ steadyFor[i] \in Nat
        /\ tickReady \in BOOLEAN
    BY DEF TimedInv, IInv, TypeOK, Clocks, ClockTypes
  <2>2. health[i] = "up"
    BY DEF TimedInv, IInv, SelectionSound, Eligible, Healthy
  <2>3. \/ steadyFor[i] <= Slowest
        \/ steadyFor[i] + tickIn <= Interval
        \/ steadyFor[i] <= Slowest + roundFor
    BY <2>2 DEF TimedInv, Clocks, GoneClock
  <2>4. QED
    BY <2>1, <2>3, BoundTypes
<1>2. QED
  BY <1>1, TimedInvariance, PTL

(* The step that takes over from a working datacenter chose by upSince,    *)
(* and upSince never claims more than the answers show.                    *)
LEMMA FailbackStep ==
  ASSUME TimedInv, [TimedNext]_timedVars, FailsBack
  PROVE  answersFor'[active'] >= HoldDown - ProbeTimeout
<1>1. TypeOK /\ Clocks /\ active \in DC \cup {None} /\ disabled \in SUBSET DC
  BY DEF TimedInv, IInv, TypeOK
<1>2. active' # None /\ active' < active /\ active \in Eligible(Healthy, disabled)'
  BY DEF FailsBack
<1>3. CASE TimedFinishRound
  <2> DEFINE up   == {i \in DC : results[i] = "ok"}
             seasoned == {i \in DC : UpForAfter(i) - roundFor >= HoldDown}
             best == Select(active, up, disabled, seasoned)
  <2>1. up \in SUBSET DC
    BY <1>1, AgesAfterRound
  <2>2. active' = best
    BY <1>3 DEF TimedFinishRound, FinishRound, ReselectLocked
  <2>3. Eligible(Healthy, disabled)' = Eligible(up, disabled)
    BY <1>3 DEF TimedFinishRound, FinishRound, Healthy, Eligible
  <2>4. best \in Eligible(up, disabled) /\ best \in seasoned
    <3> HIDE DEF up, seasoned
    <3>1. /\ active \in Eligible(up, disabled) =>
               \/ best = active
               \/ best \in Eligible(up, disabled) /\ best < active /\ best \in seasoned
      BY <1>1, <2>1, SelectIsSound
    <3>2. best # active
      BY <1>1, <1>2, <2>2
    <3>3. QED
      BY <1>2, <2>3, <3>1, <3>2
  <2>5. PICK b \in DC : b = active' /\ results[b] = "ok" /\ UpForAfter(b) - roundFor >= HoldDown
    BY <2>2, <2>4 DEF Eligible
  <2>6. UpForAfter(b) = IF health[b] = "up" THEN upFor[b] ELSE roundFor
    BY <2>5 DEF UpForAfter, Healthy
  <2>7. roundFor \in Nat /\ upFor[b] \in Nat
    BY <1>1 DEF TypeOK, Horizon
  <2>8. health[b] = "up" /\ upFor[b] >= HoldDown
    BY <2>5, <2>6, <2>7
  <2>9. answersFor[b] \in Nat /\ upFor[b] <= answersFor[b] + ProbeTimeout
    BY <1>1, <2>8 DEF Clocks, ClockTypes, AnswerClock
  <2>10. answersFor'[b] = answersFor[b]
    BY <1>3, <2>5 DEF TimedFinishRound
  <2>11. QED
    BY <2>5, <2>7, <2>8, <2>9, <2>10
<1>4. CASE \E u \in Callers, c \in Filters :
             SetClusterFilter(u, c) /\ UNCHANGED <<steadyFor, answersFor>>
  <2>1. PICK u \in Callers, c \in Filters :
               SetClusterFilter(u, c) /\ UNCHANGED <<steadyFor, answersFor>>
    BY <1>4
  <2> DEFINE off      == Quarantined(c)
             seasoned == {i \in DC : upFor[i] >= HoldDown}
             best     == Select(active, Healthy, off, seasoned)
  <2>2. off \in SUBSET DC /\ Healthy \in SUBSET DC
    BY DEF Quarantined, Healthy
  <2>3. active' = best
    BY <2>1 DEF SetClusterFilter, ReselectLocked
  <2>4. Eligible(Healthy, disabled)' = Eligible(Healthy, off)
    BY <2>1 DEF SetClusterFilter, Healthy, Eligible
  <2>5. best \in Eligible(Healthy, off) /\ best \in seasoned
    <3> HIDE DEF off, seasoned
    <3>1. /\ active \in Eligible(Healthy, off) =>
               \/ best = active
               \/ best \in Eligible(Healthy, off) /\ best < active /\ best \in seasoned
      BY <1>1, <2>2, SelectIsSound
    <3>2. best # active
      BY <1>1, <1>2, <2>3
    <3>3. QED
      BY <1>2, <2>4, <3>1, <3>2
  <2>6. PICK b \in DC : b = active' /\ health[b] = "up" /\ upFor[b] >= HoldDown
    BY <2>3, <2>5 DEF Eligible, Healthy
  <2>7. answersFor[b] \in Nat /\ upFor[b] \in Nat /\ upFor[b] <= answersFor[b] + ProbeTimeout
    BY <1>1, <2>6 DEF Clocks, ClockTypes, AnswerClock, TypeOK, Horizon
  <2>8. answersFor'[b] = answersFor[b]
    BY <2>1
  <2>9. QED
    BY <2>6, <2>7, <2>8
<1>5. CASE /\ ~ TimedFinishRound
           /\ ~ \E u \in Callers, c \in Filters :
                  SetClusterFilter(u, c) /\ UNCHANGED <<steadyFor, answersFor>>
  <2>1. active' = active
    BY <1>5 DEF TimedNext, timedVars, vars, selection, TimedTick, TimedFlip, TimedProbeReturn,
                Untimed, Tick, Flip, ProbeReturn, Launch, BeginRound, StopRun, UI, Cancel, OnSwitch
  <2>2. QED
    BY <1>1, <1>2, <2>1
<1>6. QED
  BY <1>3, <1>4, <1>5

(* "Fail back slow": whatever takes over from a working datacenter has     *)
(* answered for the hold-down, short of one probe.                         *)
THEOREM FailsBackSlowly == TimedSpec => FailbackSeasoned
<1>1. TimedInv /\ [TimedNext]_timedVars =>
        [FailsBack => answersFor'[active'] >= HoldDown - ProbeTimeout]_timedVars
  BY FailbackStep
<1>2. QED
  BY <1>1, TimedInvariance, PTL DEF TimedSpec, FailbackSeasoned

(* A round that gives up the last datacenter met each allowed one gone.    *)
LEMMA AllDownStep ==
  ASSUME TimedInv, FinishRound, active' = None, ~ctxDone, NEW i \in DC \ disabled
  PROVE  i \notin reachable \/ steadyFor[i] <= roundFor
<1> DEFINE up   == {j \in DC : results[j] = "ok"}
           seasoned == {j \in DC : UpForAfter(j) - roundFor >= HoldDown}
<1>1. TypeOK /\ Clocks /\ active \in DC \cup {None} /\ disabled \in SUBSET DC
  BY DEF TimedInv, IInv, TypeOK
<1>2. up \in SUBSET DC
  BY <1>1, AgesAfterRound
<1>3. Select(active, up, disabled, seasoned) = None
  BY DEF FinishRound, ReselectLocked
<1>4. Eligible(up, disabled) = {}
  <2> HIDE DEF up, seasoned
  <2>1. QED
    BY <1>1, <1>2, <1>3, SelectIsSound
<1>5. results[i] = "fail"
  BY <1>1, <1>4 DEF FinishRound, AllReturned, TypeOK, Eligible
<1>6. QED
  BY <1>1, <1>5 DEF Clocks, FailClock

(* AllDown is announced on evidence, as long as the application lives.     *)
THEOREM Witnessed == TimedSpec => AllDownWitnessed
<1>1. TimedInv /\ [TimedNext]_timedVars =>
        [FinishRound /\ active # None /\ active' = None /\ ~ctxDone
           => \A i \in DC \ disabled : i \notin reachable \/ steadyFor[i] <= roundFor]_timedVars
  BY AllDownStep
<1>2. QED
  BY <1>1, TimedInvariance, PTL DEF TimedSpec, AllDownWitnessed

===============================================================================
