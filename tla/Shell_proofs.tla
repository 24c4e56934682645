----------------------------- MODULE Shell_proofs ------------------------------
(***************************************************************************)
(* Proofs about Shell, for any configuration files and options.            *)
(***************************************************************************)
EXTENDS Shell, FiniteSetTheorems, WellFoundedInduction, TLAPS

(* Until New succeeds there is nothing to select from; afterwards the      *)
(* endpoints are those of the file, and all of them could be built.        *)
Listed ==
  /\ shell # "built" =>
       /\ scope = NoCluster
       /\ \A p \in Services : eps[p] = <<>> /\ prober[p] = "off" /\ serve[p] = "off"
  /\ shell = "built" =>
       /\ eps = [p \in Services |-> Endpoints(file, p)]
       /\ \E opts \in OptionSets : \A p \in Services : PairBuilds(file, p, opts)

(* What the webui's Supervisor has disabled is what SwitchCluster asked    *)
(* for last, and no pair keeps a choice that is disabled, also between     *)
(* rounds.                                                                 *)
Confined ==
  /\ disabled["webui"] = Quarantined("webui", scope)
  /\ \A p \in Services : active[p] # None => active[p] \notin disabled[p]

(* TypeOK gives the values of these four but not their domain.             *)
PerPair ==
  /\ eps = [p \in Services |-> eps[p]]
  /\ disabled = [p \in Services |-> disabled[p]]
  /\ healthy = [p \in Services |-> healthy[p]]
  /\ active = [p \in Services |-> active[p]]

IInv == TypeOK /\ Listed /\ PerPair /\ Confined

LEMMA InitIInv == Init => IInv
<1> SUFFICES ASSUME Init
             PROVE  IInv
  OBVIOUS
<1>1. TypeOK
  BY DEF Init, TypeOK, Services, None
<1>2. Listed
  BY DEF Init, Listed, Services
<1>3. PerPair
  BY DEF Init, PerPair
<1>4. Confined
  BY DEF Init, Confined, Quarantined, Ranks, Services
<1>5. QED
  BY <1>1, <1>2, <1>3, <1>4 DEF IInv

(* The least of a set of naturals.  Well-foundedness of < comes from that  *)
(* of strict inclusion on the intervals 0..x, as in Supervisor_proofs.     *)
LEMMA MinIsLeast ==
  ASSUME NEW S \in SUBSET Nat, S # {}
  PROVE  /\ Min(S) \in S
         /\ \A y \in S : Min(S) <= y
<1> DEFINE T == {0..x : x \in S}
           R == StrictSubsetOrdering(Nat)
<1>1. T \subseteq FiniteSubsetsOf(Nat)
  <2> SUFFICES ASSUME NEW x \in S
               PROVE  0..x \in FiniteSubsetsOf(Nat)
    OBVIOUS
  <2>1. IsFiniteSet(0..x)
    BY FS_Interval
  <2>2. 0..x \in SUBSET Nat
    BY SMT
  <2>3. QED
    BY <2>1, <2>2 DEF FiniteSubsetsOf
<1>2. T # {}
  OBVIOUS
<1>3. PICK t \in T : \A u \in T : ~ (<<u, t>> \in R)
  <2> HIDE DEF T, R
  <2>1. IsWellFoundedOn(R, FiniteSubsetsOf(Nat))
    BY FS_StrictSubsetOrderingWellFounded DEF R
  <2>2. QED
    BY <1>1, <1>2, <2>1, WFMin, Zenon
<1>4. PICK x \in S : t = 0..x
  OBVIOUS
<1>5. ASSUME NEW y \in S
      PROVE  x <= y
  <2>1. SUFFICES ASSUME y < x
                 PROVE  FALSE
    BY SMT
  <2>2. 0..y \in SUBSET Nat /\ 0..x \in SUBSET Nat /\ 0..y \subseteq 0..x
    BY <2>1, SMT
  <2>3. x \in 0..x /\ x \notin 0..y
    BY <2>1, SMT
  <2>4. <<0..y, t>> \in R
    BY <1>4, <2>2, <2>3 DEF StrictSubsetOrdering
  <2>5. QED
    BY <1>3, <2>4
<1>6. QED
  BY <1>5 DEF Min

(* The scan picks an endpoint that is healthy and not disabled, or none.   *)
LEMMA SelectAmong ==
  ASSUME NEW prev, NEW up \in SUBSET Nat, NEW off, NEW seasoned
  PROVE  Select(prev, up, off, seasoned) \in (up \ off) \cup {None}
<1> DEFINE stops == Candidates(prev, up, off, seasoned)
<1>1. stops \subseteq up \ off
  BY DEF Candidates, Eligible
<1>2. CASE stops = {}
  BY <1>2 DEF Select
<1>3. CASE stops # {}
  <2>1. Min(stops) \in stops
    <3>1. stops \in SUBSET Nat
      BY <1>1
    <3> HIDE DEF stops
    <3>2. QED
      BY <1>3, <3>1, MinIsLeast
  <2>2. QED
    BY <1>1, <1>3, <2>1 DEF Select
<1>4. QED
  BY <1>2, <1>3

(* A step that leaves the lists, the filters and the choices alone.        *)
LEMMA ConfinedUntouched ==
  ASSUME IInv, UNCHANGED <<eps, selection>>
  PROVE  Confined'
BY DEF IInv, Confined, selection, Quarantined, Ranks

LEMMA RanksBounded ==
  ASSUME IInv, NEW p \in Services
  PROVE  Ranks(p) \subseteq 1..MaxRank
<1>1. CASE shell = "built"
  <2>1. DOMAIN eps[p] = DOMAIN Members(file, p)
    BY <1>1 DEF IInv, Listed, Endpoints
  <2>2. QED
    BY <2>1, ShellAssumption DEF IInv, TypeOK, Services, Ranks
<1>2. CASE shell # "built"
  BY <1>2 DEF IInv, Listed, Ranks
<1>3. QED
  BY <1>1, <1>2

(* A reselect of pair q among its healthy endpoints.                       *)
LEMMA ReselectConfines ==
  ASSUME IInv, NEW q \in Services, NEW up \in SUBSET Ranks(q), NEW off,
         ReselectLocked(q, up, off)
  PROVE  /\ active' = [p \in Services |-> active'[p]]
         /\ active'[q] \in Ranks(q) \cup {None}
         /\ active'[q] # None => active'[q] \notin off
         /\ \A p \in Services \ {q} : active'[p] = active[p]
<1>1. PICK seasoned \in SUBSET up :
             active' = [active EXCEPT ![q] = Select(active[q], up, off, seasoned)]
  BY DEF ReselectLocked
<1>2. up \in SUBSET Nat
  <2>1. Ranks(q) \subseteq 1..MaxRank /\ MaxRank \in Nat
    BY RanksBounded, ShellAssumption
  <2>2. QED
    BY <2>1
<1>3. Select(active[q], up, off, seasoned) \in (up \ off) \cup {None}
  BY <1>2, SelectAmong
<1>4. /\ active'[q] = Select(active[q], up, off, seasoned)
      /\ active' = [p \in Services |-> active'[p]]
      /\ \A p \in Services \ {q} : active'[p] = active[p]
  BY <1>1 DEF IInv, PerPair
<1>5. QED
  BY <1>3, <1>4

-------------------------------------------------------------------------------
(* Each step keeps the types *)

LEMMA NewKeepsIInv ==
  ASSUME IInv, New
  PROVE  IInv'
<1>1. TypeOK /\ Listed /\ shell = "none"
  BY DEF IInv, New
<1>2. /\ file' = file /\ ctxDone' = ctxDone /\ prober' = prober /\ serve' = serve
      /\ disabled' = disabled /\ healthy' = healthy /\ active' = active /\ scope' = scope
      /\ shell' \in {"failed", "built"}
  BY DEF New, selection
<1>3. /\ scope = NoCluster
      /\ \A p \in Services : /\ eps[p] = <<>> /\ prober[p] = "off" /\ serve[p] = "off"
                             /\ disabled[p] = {} /\ healthy[p] = {} /\ active[p] = None
  <2>1. \A p \in Services : DOMAIN eps[p] = {}
    BY <1>1 DEF Listed
  <2>2. QED
    BY <1>1, <2>1 DEF Listed, TypeOK
<1>4. listener' \in [Services -> {"none", "open", "closed"}]
  <2>1. CASE UNCHANGED listener
    BY <1>1, <2>1 DEF TypeOK
  <2>2. CASE listener' = [listener EXCEPT !["webui"] = "open"]
    BY <1>1, <2>2 DEF TypeOK
  <2>3. CASE listener' = [p \in Services |-> IF eps'[p] = <<>> THEN "none" ELSE "open"]
    BY <2>3
  <2>4. QED
    BY <2>1, <2>2, <2>3 DEF New
<1>5. TypeOK'
  BY <1>1, <1>2, <1>3, <1>4 DEF TypeOK
<1>6. Listed'
  <2>1. CASE shell' = "failed" /\ UNCHANGED eps
    BY <1>1, <1>2, <1>3, <2>1 DEF Listed
  <2>2. CASE /\ shell' = "built" /\ eps' = [p \in Services |-> Endpoints(file, p)]
             /\ \E opts \in OptionSets : \A p \in Services : PairBuilds(file, p, opts)
    BY <1>2, <2>2 DEF Listed
  <2>3. QED
    BY <2>1, <2>2 DEF New
<1>7. PerPair'
  BY <1>2 DEF IInv, PerPair, New
<1>8. Confined'
  BY <1>2, <1>3 DEF Confined, Quarantined, Ranks, Services
<1>9. QED
  BY <1>5, <1>6, <1>7, <1>8 DEF IInv

LEMMA RunKeepsIInv ==
  ASSUME IInv, Run
  PROVE  IInv'
<1>1. TypeOK'
  BY DEF IInv, Run, built, selection, TypeOK, Clusters
<1>2. Listed'
  BY DEF IInv, Run, built, selection, Listed
<1>3. PerPair'
  BY DEF IInv, Run, built, selection, PerPair
<1>4. Confined'
  BY ConfinedUntouched DEF Run, built, selection
<1>5. QED
  BY <1>1, <1>2, <1>3, <1>4 DEF IInv

LEMMA SwitchClusterKeepsIInv ==
  ASSUME IInv, NEW c \in Clusters \cup {NoCluster}, SwitchCluster(c)
  PROVE  IInv'
<1> DEFINE off == Quarantined("webui", c)
<1>1. /\ "webui" \in Services /\ healthy["webui"] \in SUBSET Ranks("webui")
      /\ ReselectLocked("webui", healthy["webui"], off)
  BY DEF SwitchCluster, IInv, TypeOK, Services, Ranks
<1>2. /\ active' = [p \in Services |-> active'[p]]
      /\ active'["webui"] \in Ranks("webui") \cup {None}
      /\ active'["webui"] # None => active'["webui"] \notin off
      /\ \A p \in Services \ {"webui"} : active'[p] = active[p]
  <2> HIDE DEF off
  <2>1. QED
    BY <1>1, ReselectConfines
<1>3. /\ disabled' = [p \in Services |-> disabled'[p]]
      /\ disabled'["webui"] = off /\ off \subseteq DOMAIN eps["webui"]
      /\ \A p \in Services \ {"webui"} : disabled'[p] = disabled[p]
      /\ scope' = c /\ eps' = eps /\ healthy' = healthy
  BY DEF SwitchCluster, built, IInv, PerPair, Services, Quarantined, Ranks
<1>4. TypeOK'
  <2>1. ASSUME NEW p \in Services
        PROVE  /\ disabled'[p] \cup healthy'[p] \subseteq DOMAIN eps'[p]
               /\ active'[p] \in DOMAIN eps'[p] \cup {None}
    BY <1>2, <1>3 DEF IInv, TypeOK, Ranks
  <2>2. QED
    BY <1>3, <2>1 DEF IInv, SwitchCluster, built, TypeOK, Clusters
<1>5. Listed'
  BY DEF IInv, SwitchCluster, built, Listed
<1>6. PerPair'
  BY <1>2, <1>3 DEF IInv, PerPair
<1>7. Confined'
  <2>1. disabled'["webui"] = Quarantined("webui", scope)'
    BY <1>3 DEF Quarantined, Ranks
  <2>2. \A p \in Services : active'[p] # None => active'[p] \notin disabled'[p]
    BY <1>2, <1>3 DEF IInv, Confined
  <2>3. QED
    BY <2>1, <2>2 DEF Confined
<1>8. QED
  BY <1>4, <1>5, <1>6, <1>7 DEF IInv

LEMMA RoundKeepsIInv ==
  ASSUME IInv, NEW p \in Services, Round(p)
  PROVE  IInv'
<1>1. PICK up \in SUBSET Ranks(p) :
             healthy' = [healthy EXCEPT ![p] = up] /\ ReselectLocked(p, up, disabled[p])
  BY DEF Round
<1>2. /\ active' = [q \in Services |-> active'[q]]
      /\ active'[p] \in Ranks(p) \cup {None}
      /\ active'[p] # None => active'[p] \notin disabled[p]
      /\ \A q \in Services \ {p} : active'[q] = active[q]
  BY <1>1, ReselectConfines
<1>3. eps' = eps /\ disabled' = disabled /\ scope' = scope
  BY DEF Round, built
<1>4. TypeOK'
  <2>1. ASSUME NEW q \in Services
        PROVE  /\ disabled'[q] \cup healthy'[q] \subseteq DOMAIN eps'[q]
               /\ active'[q] \in DOMAIN eps'[q] \cup {None}
    BY <1>1, <1>2, <1>3 DEF IInv, TypeOK, PerPair, Ranks
  <2>2. QED
    BY <1>3, <2>1 DEF IInv, Round, built, TypeOK, Clusters
<1>5. Listed'
  BY DEF IInv, Round, built, Listed
<1>6. PerPair'
  BY <1>1, <1>2, <1>3 DEF IInv, PerPair
<1>7. Confined'
  BY <1>2, <1>3 DEF IInv, Confined, Quarantined, Ranks
<1>8. QED
  BY <1>4, <1>5, <1>6, <1>7 DEF IInv

(* The goroutines leave alone what New and the selection decided.          *)
LEMMA GoroutineKeepsIInv ==
  ASSUME IInv, NEW p \in Services,
         ProberStops(p) \/ ContextCloses(p) \/ AcceptFaults(p) \/ ServeReturns(p)
  PROVE  IInv'
<1>1. UNCHANGED <<built, selection>>
  BY DEF ProberStops, ContextCloses, AcceptFaults, ServeReturns
<1>2. TypeOK'
  BY <1>1 DEF IInv, ProberStops, ContextCloses, AcceptFaults, ServeReturns, built, selection,
              TypeOK, Clusters
<1>3. Listed'
  BY <1>1 DEF IInv, ProberStops, ContextCloses, AcceptFaults, ServeReturns, built, selection,
              Listed
<1>4. PerPair' /\ Confined'
  BY <1>1, ConfinedUntouched DEF IInv, built, selection, PerPair
<1>5. QED
  BY <1>2, <1>3, <1>4 DEF IInv

LEMMA NextIInv == IInv /\ [Next]_vars => IInv'
<1> SUFFICES ASSUME IInv, [Next]_vars
             PROVE  IInv'
  OBVIOUS
<1>1. CASE New
  BY <1>1, NewKeepsIInv
<1>2. CASE Run
  BY <1>2, RunKeepsIInv
<1>3. CASE Close
  BY <1>3, ConfinedUntouched DEF IInv, Close, built, selection, TypeOK, Listed, PerPair,
                                 Clusters
<1>4. CASE Cancel
  BY <1>4, ConfinedUntouched DEF IInv, Cancel, built, selection, TypeOK, Listed, PerPair,
                                 Clusters
<1>5. ASSUME NEW c \in Clusters \cup {NoCluster}, SwitchCluster(c)
      PROVE  IInv'
  BY <1>5, SwitchClusterKeepsIInv
<1>6. ASSUME NEW p \in Pairs, Pair(p)
      PROVE  IInv'
  BY <1>6, RoundKeepsIInv, GoroutineKeepsIInv DEF Pair, Pairs
<1>7. CASE UNCHANGED vars
  BY <1>7, ConfinedUntouched DEF IInv, vars, built, selection, TypeOK, Listed, PerPair,
                                 Clusters
<1>8. QED
  BY <1>1, <1>2, <1>3, <1>4, <1>5, <1>6, <1>7 DEF Next, Application

LEMMA Invariance == Spec => []IInv
  BY InitIInv, NextIInv, PTL DEF Spec

(* The types of Shell's variables, for any files and options.              *)
THEOREM TypeCorrect == Spec => []TypeOK
<1>1. IInv => TypeOK
  BY DEF IInv
<1>2. QED
  BY Invariance, <1>1, PTL

-------------------------------------------------------------------------------
(* The order of New's loops gives every datacenter one rank.  The ranks    *)
(* are counted, not computed by recursion: a place has as many places      *)
(* ahead of it as its rank says, so that ranks and places correspond by    *)
(* the pigeonhole principle.                                               *)

LEMMA AheadCounts ==
  ASSUME NEW S, S \subseteq Nat \X Nat, IsFiniteSet(S), NEW a \in S
  PROVE  /\ IsFiniteSet(Ahead(S, a))
         /\ Cardinality(Ahead(S, a)) \in 0..(Cardinality(S) - 1)
<1>1. Ahead(S, a) \subseteq S \ {a}
  BY DEF Ahead, Before
<1>2. /\ IsFiniteSet(S \ {a}) /\ Cardinality(S) \in Nat
      /\ Cardinality(S \ {a}) = Cardinality(S) - 1
  BY FS_RemoveElement, FS_CardinalityType
<1>3. /\ IsFiniteSet(Ahead(S, a))
      /\ Cardinality(Ahead(S, a)) <= Cardinality(S) - 1
  BY <1>1, <1>2, FS_Subset
<1>4. QED
  BY <1>2, <1>3, FS_CardinalityType

LEMMA FewerAhead ==
  ASSUME NEW S, S \subseteq Nat \X Nat, IsFiniteSet(S), NEW a \in S, NEW b \in S,
         Before(a, b)
  PROVE  Cardinality(Ahead(S, a)) < Cardinality(Ahead(S, b))
<1>1. /\ a[1] \in Nat /\ a[2] \in Nat /\ b[1] \in Nat /\ b[2] \in Nat
      /\ \A q \in S : q[1] \in Nat /\ q[2] \in Nat
  OBVIOUS
<1>2. Ahead(S, a) \subseteq Ahead(S, b)
  BY <1>1 DEF Ahead, Before
<1>3. a \in Ahead(S, b) /\ a \notin Ahead(S, a)
  BY <1>1 DEF Ahead, Before
<1>4. /\ IsFiniteSet(Ahead(S, b))
      /\ Cardinality(Ahead(S, a)) \in Nat /\ Cardinality(Ahead(S, b)) \in Nat
  BY AheadCounts, FS_CardinalityType
<1>5. QED
  BY <1>2, <1>3, <1>4, FS_Subset

(* Every rank has its place and every place its rank.                      *)
LEMMA RanksArePlaces ==
  ASSUME NEW S, S \subseteq Nat \X Nat, IsFiniteSet(S)
  PROVE  /\ \A n \in 1..Cardinality(S) : PlaceAt(S, n) \in S
         /\ \A a \in S : \E n \in 1..Cardinality(S) : PlaceAt(S, n) = a
<1> DEFINE size == Cardinality(S)
           Rank == [a \in S |-> Cardinality(Ahead(S, a)) + 1]
<1>1. size \in Nat
  BY FS_CardinalityType
<1>2. \A a \in S : Cardinality(Ahead(S, a)) \in 0..(size - 1)
  BY AheadCounts
<1>3. Rank \in [S -> 1..size]
  BY <1>1, <1>2
<1>4. ASSUME NEW a \in S, NEW b \in S, Cardinality(Ahead(S, a)) = Cardinality(Ahead(S, b))
      PROVE  a = b
  <2>1. ~Before(a, b) /\ ~Before(b, a)
    BY <1>1, <1>2, <1>4, FewerAhead
  <2>2. a[1] = b[1] /\ a[2] = b[2]
    BY <2>1 DEF Before
  <2>3. QED
    BY <2>2
<1>5. Rank \in Injection(S, 1..size)
  BY <1>1, <1>2, <1>3, <1>4 DEF Injection, IsInjective
<1>6. Rank \in Surjection(S, 1..size)
  <2>1. IsFiniteSet(1..size) /\ Cardinality(1..size) = size
    BY <1>1, FS_Interval
  <2>2. QED
    BY <1>5, <2>1, FS_Injection
<1>7. ASSUME NEW n \in 1..size
      PROVE  PlaceAt(S, n) \in S /\ Cardinality(Ahead(S, PlaceAt(S, n))) = n - 1
  <2>1. PICK a \in S : Rank[a] = n
    BY <1>6 DEF Surjection
  <2>2. Cardinality(Ahead(S, a)) = n - 1
    BY <1>1, <1>2, <2>1
  <2>3. QED
    BY <2>2 DEF PlaceAt
<1>8. ASSUME NEW a \in S
      PROVE  \E n \in 1..size : PlaceAt(S, n) = a
  <2>1. Rank[a] \in 1..size /\ Cardinality(Ahead(S, a)) = Rank[a] - 1
    BY <1>1, <1>2
  <2>2. PlaceAt(S, Rank[a]) = a
    BY <1>4, <1>7, <2>1
  <2>3. QED
    BY <2>1, <2>2
<1>9. QED
  BY <1>7, <1>8

-------------------------------------------------------------------------------
(* What the endpoints are of a file *)

(* New reads the clusters that the file declares; the wrapped one has no   *)
(* datacenters if it is left out.                                          *)
LEMMA ReadsDeclared ==
  ASSUME file \in Files
  PROVE  LET cls == NormalisedClusters(file) IN
         /\ \E n \in Nat : DOMAIN cls = 1..n
         /\ \A cl \in ToSet(cls) : cl \in Declared /\ IsList(cl.dcs)
         /\ \A cl \in Declared : cl \in ToSet(cls) \/ ToSet(cl.dcs) = {}
<1> DEFINE wrapped == [name |-> Default, dcs |-> file.endpoints]
<1>1. /\ IsList(file.clusters) /\ IsList(file.endpoints)
      /\ \A cl \in ToSet(file.clusters) : IsList(cl.dcs)
  BY ShellAssumption
<1>2. CASE file.endpoints = <<>>
  <2>1. NormalisedClusters(file) = file.clusters
    BY <1>2 DEF NormalisedClusters
  <2>2. Declared = ToSet(file.clusters) \cup {wrapped}
    BY DEF Declared
  <2>3. ToSet(wrapped.dcs) = {}
    BY <1>2 DEF ToSet
  <2>4. Len(file.clusters) \in Nat /\ DOMAIN file.clusters = 1..Len(file.clusters)
    BY <1>1 DEF IsList
  <2>5. QED
    BY <1>1, <2>1, <2>2, <2>3, <2>4
<1>3. CASE file.endpoints # <<>>
  <2>1. NormalisedClusters(file) = <<wrapped>> \o file.clusters
    BY <1>3 DEF NormalisedClusters
  <2>2. file.clusters \in Seq(ToSet(file.clusters) \cup {wrapped})
    BY <1>1 DEF IsList
  <2>3. /\ DOMAIN NormalisedClusters(file) = 1..(Len(file.clusters) + 1)
        /\ NormalisedClusters(file)[1] = wrapped
        /\ \A k \in 1..Len(file.clusters) :
             NormalisedClusters(file)[k + 1] = file.clusters[k]
    BY <2>1, <2>2
  <2>4. Len(file.clusters) \in Nat /\ DOMAIN file.clusters = 1..Len(file.clusters)
    BY <2>2
  <2>5. Declared = ToSet(file.clusters) \cup {wrapped}
    BY DEF Declared
  <2>6. wrapped \in ToSet(NormalisedClusters(file))
    BY <2>3, <2>4 DEF ToSet
  <2>7. ToSet(file.clusters) \subseteq ToSet(NormalisedClusters(file))
    <3> SUFFICES ASSUME NEW k \in 1..Len(file.clusters)
                 PROVE  file.clusters[k] \in ToSet(NormalisedClusters(file))
      BY <2>4 DEF ToSet
    <3>1. k + 1 \in DOMAIN NormalisedClusters(file)
      BY <2>3, <2>4
    <3>2. QED
      BY <2>3, <3>1 DEF ToSet
  <2>8. ToSet(NormalisedClusters(file)) \subseteq ToSet(file.clusters) \cup {wrapped}
    <3> SUFFICES ASSUME NEW k \in 1..(Len(file.clusters) + 1), k # 1
                 PROVE  NormalisedClusters(file)[k] \in ToSet(file.clusters)
      BY <2>3 DEF ToSet
    <3>1. k - 1 \in 1..Len(file.clusters) /\ (k - 1) + 1 = k
      BY <2>4
    <3>2. NormalisedClusters(file)[k] = file.clusters[k - 1]
      BY <2>3, <3>1
    <3>3. QED
      BY <2>4, <3>1, <3>2 DEF ToSet
  <2>9. QED
    BY <1>1, <2>3, <2>4, <2>5, <2>6, <2>7, <2>8
<1>4. QED
  BY <1>2, <1>3

LEMMA PlacesAreFinite ==
  ASSUME file \in Files, NEW p
  PROVE  Places(file, p) \subseteq Nat \X Nat /\ IsFiniteSet(Places(file, p))
<1> DEFINE cls == NormalisedClusters(file)
           Row(k) == {k} \X DOMAIN cls[k].dcs
           Rows == {Row(k) : k \in DOMAIN cls}
<1>1. PICK n \in Nat : DOMAIN cls = 1..n
  BY ReadsDeclared
<1>2. ASSUME NEW k \in DOMAIN cls
      PROVE  \E m \in Nat : DOMAIN cls[k].dcs = 1..m
  <2>1. IsList(cls[k].dcs)
    BY ReadsDeclared DEF ToSet
  <2>2. QED
    BY <2>1 DEF IsList
<1>3. \A k \in DOMAIN cls : IsFiniteSet(Row(k)) /\ Row(k) \subseteq Nat \X Nat
  <2> SUFFICES ASSUME NEW k \in DOMAIN cls
               PROVE  IsFiniteSet(Row(k)) /\ Row(k) \subseteq Nat \X Nat
    OBVIOUS
  <2>1. PICK m \in Nat : DOMAIN cls[k].dcs = 1..m
    BY <1>2
  <2>2. IsFiniteSet({k})
    BY FS_Singleton
  <2>3. IsFiniteSet(1..m)
    BY FS_Interval
  <2>4. QED
    BY <1>1, <2>1, <2>2, <2>3, FS_Product
<1>4. IsFiniteSet(Rows)
  <2>1. [k \in DOMAIN cls |-> Row(k)] \in Surjection(DOMAIN cls, Rows)
    BY DEF Surjection
  <2>2. IsFiniteSet(DOMAIN cls)
    BY <1>1, FS_Interval
  <2>3. QED
    BY <2>1, <2>2, FS_Surjection
<1>5. IsFiniteSet(UNION Rows)
  BY <1>3, <1>4, FS_UNION
<1>6. Places(file, p) \subseteq UNION Rows
  BY DEF Places
<1>7. UNION Rows \subseteq Nat \X Nat
  BY <1>3
<1>8. QED
  BY <1>5, <1>6, <1>7, FS_Subset

(* The list of a service has the declared datacenters that offer it, each  *)
(* with its cluster, and nothing else.                                     *)
LEMMA MembersAreDeclared ==
  ASSUME file \in Files, NEW p, NEW i \in DOMAIN Members(file, p)
  PROVE  \E cl \in Declared : \E dc \in ToSet(cl.dcs) :
           Serves(dc, p) /\ Members(file, p)[i] = [cluster |-> cl.name, dc |-> dc]
<1> DEFINE cls == NormalisedClusters(file)
           pl == PlaceAt(Places(file, p), i)
<1>1. pl \in Places(file, p)
  BY PlacesAreFinite, RanksArePlaces DEF Members
<1>2. pl[1] \in DOMAIN cls /\ pl[2] \in DOMAIN cls[pl[1]].dcs /\ Serves(cls[pl[1]].dcs[pl[2]], p)
  <2>1. PICK k \in DOMAIN cls : pl \in {k} \X DOMAIN cls[k].dcs
    BY <1>1 DEF Places
  <2>2. pl[1] = k /\ pl[2] \in DOMAIN cls[k].dcs
    BY <2>1
  <2>3. QED
    BY <1>1, <2>2 DEF Places
<1>3. cls[pl[1]] \in Declared
  BY <1>2, ReadsDeclared DEF ToSet
<1>4. Members(file, p)[i] = [cluster |-> cls[pl[1]].name, dc |-> cls[pl[1]].dcs[pl[2]]]
  BY DEF Members
<1>5. QED
  BY <1>2, <1>3, <1>4 DEF ToSet

LEMMA DeclaredAreMembers ==
  ASSUME file \in Files, NEW p, NEW cl \in Declared, NEW dc \in ToSet(cl.dcs), Serves(dc, p)
  PROVE  \E i \in DOMAIN Members(file, p) :
           Members(file, p)[i] = [cluster |-> cl.name, dc |-> dc]
<1> DEFINE cls == NormalisedClusters(file)
<1>1. PICK k \in DOMAIN cls : cls[k] = cl
  BY ReadsDeclared DEF ToSet
<1>2. PICK j \in DOMAIN cl.dcs : cl.dcs[j] = dc
  BY DEF ToSet
<1>3. <<k, j>> \in Places(file, p)
  BY <1>1, <1>2 DEF Places
<1>4. PICK i \in 1..Cardinality(Places(file, p)) : PlaceAt(Places(file, p), i) = <<k, j>>
  BY <1>3, PlacesAreFinite, RanksArePlaces
<1>5. QED
  BY <1>1, <1>2, <1>4 DEF Members

(* Neither the copies nor buildBackend change where a datacenter leads.    *)
LEMMA LeadsAsDeclared ==
  ASSUME NEW p \in Services, NEW dc
  PROVE  BuildBackend(ToLegacy(dc, p)) = Declares(p, dc)
<1>1. CASE p = "webui"
  <2>1. ToLegacy(dc, p) = EndpointConfig(dc, dc.addr, dc.webuiAddr)
    BY <1>1 DEF ToLegacy, DcToLegacy
  <2>2. QED
    BY <1>1, <2>1 DEF BuildBackend, EndpointConfig, Declares
<1>2. CASE p = "loom"
  <2>1. ToLegacy(dc, p) = EndpointConfig(dc, dc.loomAddr, dc.loomAddr)
    BY <1>2 DEF ToLegacy, DcToLegacyLoom
  <2>2. QED
    BY <1>2, <2>1 DEF BuildBackend, EndpointConfig, Declares
<1>3. QED
  BY <1>1, <1>2 DEF Services

(* Every name in the two lists leads to the service that the file declares *)
(* for that datacenter, none that offers it is missing, and no SSH host is *)
(* trusted unseen, for any file in either shape.                           *)
THEOREM Aimed == Spec => []Targets
<1>1. IInv => Targets
  <2> SUFFICES ASSUME IInv, shell = "built", NEW p \in Services
               PROVE  LET Wanted(cl) == {dc \in ToSet(cl.dcs) : p = "loom" => dc.loomAddr # NoAddr}
                      IN  /\ {<<e.cluster, e.name, e.backend>> : e \in ToSet(eps[p])}
                               = UNION {{<<cl.name, dc.name, Declares(p, dc)>> :
                                          dc \in Wanted(cl)} : cl \in Declared}
                          /\ \A cl \in Declared : \A dc \in Wanted(cl) :
                               dc.kind = "ssh" => dc.hosts = "loaded"
    BY DEF Targets
  <2> DEFINE ms == Members(file, p)
             Wanted(cl) == {dc \in ToSet(cl.dcs) : p = "loom" => dc.loomAddr # NoAddr}
             Listing == {<<e.cluster, e.name, e.backend>> : e \in ToSet(eps[p])}
             Declaration == UNION {{<<cl.name, dc.name, Declares(p, dc)>> : dc \in Wanted(cl)} :
                                    cl \in Declared}
  <2>1. file \in Files /\ eps[p] = Endpoints(file, p)
    BY DEF IInv, TypeOK, Listed
  <2>2. /\ DOMAIN eps[p] = DOMAIN ms
        /\ \A i \in DOMAIN ms : eps[p][i] = Endpoint(ms[i], ToLegacy(ms[i].dc, p))
    BY <2>1 DEF Endpoints
  <2>3. \A dc : Serves(dc, p) <=> (p = "loom" => dc.loomAddr # NoAddr)
    BY DEF Serves, Services
  <2>4. ASSUME NEW i \in DOMAIN ms, NEW cl, NEW dc, ms[i] = [cluster |-> cl.name, dc |-> dc]
        PROVE  <<eps[p][i].cluster, eps[p][i].name, eps[p][i].backend>>
                 = <<cl.name, dc.name, Declares(p, dc)>>
    <3>1. ms[i].cluster = cl.name /\ ms[i].dc = dc
      BY <2>4
    <3>2. eps[p][i] = Endpoint(ms[i], ToLegacy(dc, p))
      BY <2>2, <3>1
    <3>3. QED
      BY <3>1, <3>2, LeadsAsDeclared DEF Endpoint
  <2>5. Listing \subseteq Declaration
    <3> SUFFICES ASSUME NEW i \in DOMAIN ms
                 PROVE  <<eps[p][i].cluster, eps[p][i].name, eps[p][i].backend>> \in Declaration
      BY <2>2 DEF ToSet
    <3>1. PICK cl \in Declared : \E dc \in ToSet(cl.dcs) :
                 Serves(dc, p) /\ ms[i] = [cluster |-> cl.name, dc |-> dc]
      BY <2>1, MembersAreDeclared
    <3>2. PICK dc \in ToSet(cl.dcs) :
                 Serves(dc, p) /\ ms[i] = [cluster |-> cl.name, dc |-> dc]
      BY <3>1
    <3>3. <<cl.name, dc.name, Declares(p, dc)>> \in Declaration
      BY <2>3, <3>2
    <3>4. QED
      BY <2>4, <3>2, <3>3
  <2>6. ASSUME NEW cl \in Declared, NEW dc \in Wanted(cl)
        PROVE  /\ <<cl.name, dc.name, Declares(p, dc)>> \in Listing
               /\ dc.kind = "ssh" => dc.hosts = "loaded"
    <3>1. PICK i \in DOMAIN ms : ms[i] = [cluster |-> cl.name, dc |-> dc]
      <4>1. dc \in ToSet(cl.dcs) /\ Serves(dc, p)
        BY <2>3
      <4>2. QED
        BY <2>1, <4>1, DeclaredAreMembers
    <3>2. <<cl.name, dc.name, Declares(p, dc)>> \in Listing
      BY <2>2, <2>4, <3>1 DEF ToSet
    <3>3. PICK opts \in OptionSets : Builds(ToLegacy(ms[i].dc, p), opts)
      BY <3>1 DEF IInv, Listed, PairBuilds, ToSet
    <3>4. dc.kind = "ssh" => dc.hosts = "loaded"
      BY <3>1, <3>3 DEF Builds, HostKeyCallback, ToLegacy, DcToLegacy, DcToLegacyLoom, EndpointConfig
    <3>5. QED
      BY <3>2, <3>4
  <2>7. QED
    BY <2>5, <2>6
<1>2. QED
  BY Invariance, <1>1, PTL

(* After SwitchCluster the WebView's origin leads to the datacenters that  *)
(* the file declares in that cluster and to no others, whatever rounds     *)
(* were running.                                                           *)
THEOREM OriginConfined == Spec => []OriginInCluster
<1>1. IInv => OriginInCluster
  <2> SUFFICES ASSUME IInv, active["webui"] # None, scope # NoCluster
               PROVE  \E cl \in Declared :
                        /\ cl.name = scope
                        /\ eps["webui"][active["webui"]].name \in {dc.name : dc \in ToSet(cl.dcs)}
    BY DEF OriginInCluster
  <2> DEFINE i == active["webui"]
             ms == Members(file, "webui")
  <2>1. "webui" \in Services
    BY DEF Services
  <2>2. shell = "built" /\ file \in Files
    BY <2>1 DEF IInv, Listed, TypeOK
  <2>3. eps["webui"] = Endpoints(file, "webui") /\ i \in DOMAIN eps["webui"]
    BY <2>1, <2>2 DEF IInv, Listed, TypeOK
  <2>4. i \in DOMAIN ms /\ eps["webui"][i] = Endpoint(ms[i], ToLegacy(ms[i].dc, "webui"))
    BY <2>3 DEF Endpoints
  <2>5. eps["webui"][i].cluster = scope
    BY <2>1, <2>3 DEF IInv, Confined, Quarantined, Ranks
  <2>6. PICK cl \in Declared :
          \E dc \in ToSet(cl.dcs) : ms[i] = [cluster |-> cl.name, dc |-> dc]
    BY <2>2, <2>4, MembersAreDeclared
  <2>7. PICK dc \in ToSet(cl.dcs) : ms[i] = [cluster |-> cl.name, dc |-> dc]
    BY <2>6
  <2>8. cl.name = scope /\ eps["webui"][i].name = dc.name
    BY <2>4, <2>5, <2>7 DEF Endpoint
  <2>9. QED
    BY <2>8
<1>2. QED
  BY Invariance, <1>1, PTL

===============================================================================
