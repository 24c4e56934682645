--------------------------- MODULE Discovery_proofs ---------------------------
(***************************************************************************)
(* Proofs about Discovery, for any zone, any answers and any number of     *)
(* starts.                                                                 *)
(***************************************************************************)
EXTENDS Discovery, FiniteSetTheorems, TLAPS

(* No host is given another priority between two starts.                   *)
OnePriority ==
  \A r, s \in Records :
    r.label = s.label /\ r.domain = s.domain => r.priority = s.priority

-------------------------------------------------------------------------------
(* What a start leaves behind, by either kind of lookup *)

SRVTargets(ts) ==
  /\ \A i \in DOMAIN ts : i \in Nat /\ \E r \in Records : ts[i] = Target(r)
  /\ SortTargets(ts)

ATargets(ts) ==
  /\ \E n \in Nat : DOMAIN ts = 1..n
  /\ \A i \in DOMAIN ts : ts[i].name = i /\ ts[i].host \in Nat
  /\ \A i, j \in DOMAIN ts : i < j => ts[i].host < ts[j].host

Targets(ts) == IF kind = "SRV" THEN SRVTargets(ts) ELSE ATargets(ts)

IInv ==
  /\ kind \in {"SRV", "A"}
  /\ zone \in SUBSET Records
  /\ Targets(endpoints)
  /\ Targets(before)

(* An order of a finite set is a function on an interval.                  *)
LEMMA OrderOfSet ==
  ASSUME NEW S, IsFiniteSet(S), NEW f \in SetToSeqs(S)
  PROVE  /\ Cardinality(S) \in Nat
         /\ DOMAIN f = 1..Cardinality(S)
         /\ \A i \in DOMAIN f : f[i] \in S
BY FS_CardinalityType DEF SetToSeqs

LEMMA EmptyTargets == Targets(<<>>)
BY DEF Targets, SRVTargets, ATargets, SortTargets

LEMMA InitIInv == Init => IInv
BY EmptyTargets DEF Init, IInv

-------------------------------------------------------------------------------
(* Each step keeps the invariant *)

LEMMA SRVStarts ==
  ASSUME IInv, SRV
  PROVE  SRVTargets(endpoints')
<1>1. PICK recs \in SetToSeqs(zone) :
             /\ SortTargets([i \in DOMAIN recs |-> Target(recs[i])])
             /\ endpoints' = [i \in DOMAIN recs |-> Target(recs[i])]
  BY DEF SRV, Start
<1>2. IsFiniteSet(zone)
  BY DiscoveryAssumption, FS_Subset DEF IInv
<1>3. \A i \in DOMAIN recs : i \in Nat /\ recs[i] \in Records
  BY <1>1, <1>2, OrderOfSet DEF IInv
<1>4. QED
  BY <1>1, <1>3 DEF SRVTargets

LEMMA AStarts ==
  ASSUME IInv, A
  PROVE  ATargets(endpoints')
<1> DEFINE S == {r.addr : r \in zone}
<1>1. PICK addrs \in SetToSeqs(S) :
             /\ SortStrings(addrs)
             /\ endpoints' =
                  [i \in DOMAIN addrs |-> [name |-> i, host |-> addrs[i], priority |-> 0]]
  BY DEF A, Start
<1>2. IsFiniteSet(zone)
  BY DiscoveryAssumption, FS_Subset DEF IInv
<1>3. IsFiniteSet(S)
  <2>1. [r \in zone |-> r.addr] \in Surjection(zone, S)
    BY DEF Surjection
  <2>2. QED
    BY <1>2, <2>1, FS_Surjection
<1>4. S \subseteq Nat
  BY DiscoveryAssumption DEF IInv
<1>5. /\ Cardinality(S) \in Nat /\ DOMAIN addrs = 1..Cardinality(S)
      /\ \A i \in DOMAIN addrs : addrs[i] \in Nat
  BY <1>1, <1>3, <1>4, OrderOfSet
<1>6. QED
  BY <1>1, <1>5 DEF ATargets, SortStrings

LEMMA NextIInv == IInv /\ [Next]_vars => IInv'
<1> SUFFICES ASSUME IInv, [Next]_vars
             PROVE  IInv'
  OBVIOUS
<1>1. CASE SRV
  <2>1. kind = "SRV" /\ kind' = kind /\ zone' = zone /\ before' = endpoints
    BY <1>1 DEF SRV, Start
  <2>2. SRVTargets(endpoints') /\ SRVTargets(before')
    BY <1>1, <2>1, SRVStarts DEF IInv, Targets
  <2>3. QED
    BY <2>1, <2>2 DEF IInv, Targets
<1>2. CASE A
  <2>1. kind = "A" /\ kind' = kind /\ zone' = zone /\ before' = endpoints
    BY <1>2 DEF A, Start
  <2>2. ATargets(endpoints') /\ ATargets(before')
    BY <1>2, <2>1, AStarts DEF IInv, Targets
  <2>3. QED
    BY <2>1, <2>2 DEF IInv, Targets
<1>3. ASSUME NEW r \in Records, ZoneChanges(r)
      PROVE  IInv'
  BY <1>3 DEF ZoneChanges, IInv, Targets
<1>4. CASE UNCHANGED vars
  BY <1>4 DEF vars, IInv, Targets
<1>5. QED
  BY <1>1, <1>2, <1>3, <1>4 DEF Next

LEMMA Invariance == Spec => []IInv
  BY InitIInv, NextIInv, PTL DEF Spec

-------------------------------------------------------------------------------
(* Preference *)

(* Less is a strict order that is total on targets with different keys.    *)
LEMMA LessIsStrict ==
  ASSUME NEW r \in Records, NEW s \in Records,
         r.priority # s.priority \/ r.label # s.label
  PROVE  Less(Target(r), Target(s)) <=> ~Less(Target(s), Target(r))
BY DiscoveryAssumption DEF Less, Target, Label

(* A host has one target, whenever it is found.                            *)
LEMMA HostHasOneTarget ==
  ASSUME OnePriority, NEW r \in Records, NEW s \in Records,
         Target(r).host = Target(s).host
  PROVE  Target(r) = Target(s)
BY DEF OnePriority, Target, Label

LEMMA SRVKeepsPreference ==
  ASSUME OnePriority, SRVTargets(before), SRVTargets(endpoints),
         NEW t \in ToSet(before), NEW u \in ToSet(before),
         Precedes(t.host, u.host, before), Precedes(u.host, t.host, endpoints),
         t.priority # u.priority \/ t.name # u.name
  PROVE  FALSE
<1>1. PICK r \in Records, s \in Records : t = Target(r) /\ u = Target(s)
  BY DEF SRVTargets, ToSet
<1>2. ASSUME NEW ts, SRVTargets(ts), NEW x \in Records, NEW y \in Records,
             Precedes(Target(x).host, Target(y).host, ts)
      PROVE  ~Less(Target(y), Target(x))
  <2>1. PICK i \in DOMAIN ts, j \in DOMAIN ts :
               i < j /\ ts[i].host = Target(x).host /\ ts[j].host = Target(y).host
    BY <1>2 DEF Precedes
  <2>2. ts[i] = Target(x) /\ ts[j] = Target(y)
    BY <1>2, <2>1, HostHasOneTarget DEF SRVTargets
  <2>3. QED
    BY <1>2, <2>1, <2>2 DEF SRVTargets, SortTargets
<1>3. ~Less(Target(s), Target(r)) /\ ~Less(Target(r), Target(s))
  BY <1>1, <1>2
<1>4. r.priority # s.priority \/ r.label # s.label
  BY <1>1 DEF Target, Label
<1>5. QED
  BY <1>3, <1>4, LessIsStrict

LEMMA AKeepsPreference ==
  ASSUME ATargets(before), ATargets(endpoints), NEW g, NEW h,
         Precedes(g, h, before), Precedes(h, g, endpoints)
  PROVE  FALSE
<1>1. g \in Nat /\ h \in Nat /\ g < h
  BY DEF Precedes, ATargets
<1>2. h < g
  BY DEF Precedes, ATargets
<1>3. QED
  BY <1>1, <1>2

(* As long as no host is given another priority, a restart never turns a   *)
(* preference around, whatever DNS answers and whichever records come or   *)
(* go in between.                                                          *)
THEOREM Preferred ==
  ASSUME OnePriority
  PROVE  Spec => []PreferenceKept
<1>1. IInv => PreferenceKept
  BY SRVKeepsPreference, AKeepsPreference DEF IInv, Targets, PreferenceKept
<1>2. QED
  BY <1>1, Invariance, PTL

-------------------------------------------------------------------------------
(* Names *)

(* The targets below the one at position i number i - 1.                   *)
LEMMA LowerCounts ==
  ASSUME NEW ts, ATargets(ts), NEW i \in DOMAIN ts
  PROVE  Cardinality({h \in Hosts(ts) : h < ts[i].host}) = i - 1
<1> DEFINE Lower == {h \in Hosts(ts) : h < ts[i].host}
           below == [k \in 1..(i - 1) |-> ts[k].host]
<1>1. PICK n \in Nat : DOMAIN ts = 1..n
  BY DEF ATargets
<1>2. \A k \in DOMAIN ts : ts[k].host < ts[i].host <=> k < i
  BY <1>1 DEF ATargets
<1>3. below \in Bijection(1..(i - 1), Lower)
  <2>1. below \in [1..(i - 1) -> Lower]
    BY <1>1, <1>2 DEF Hosts, ToSet
  <2>2. \A j, k \in 1..(i - 1) : below[j] = below[k] => j = k
    BY <1>1 DEF ATargets
  <2>3. \A h \in Lower : \E k \in 1..(i - 1) : below[k] = h
    BY <1>1, <1>2 DEF Hosts, ToSet
  <2>4. QED
    BY <2>1, <2>2, <2>3 DEF Bijection, Injection, Surjection, IsInjective
<1>4. IsFiniteSet(1..(i - 1)) /\ Cardinality(1..(i - 1)) = i - 1
  BY <1>1, FS_Interval
<1>5. QED
  BY <1>3, <1>4, FS_Bijection DEF ExistsBijection

(* A datacenter found by SRV keeps its name for ever; one found by address *)
(* keeps it until an address that sorts before its own comes or goes.      *)
THEOREM Named == Spec => []NameKept
<1>1. IInv => NameKept
  <2> SUFFICES ASSUME IInv, NEW t \in ToSet(before), NEW u \in ToSet(endpoints),
                      t.host = u.host,
                      kind = "A" => {h \in Hosts(before) : h < t.host}
                                      = {h \in Hosts(endpoints) : h < u.host}
               PROVE  t.name = u.name
    BY DEF NameKept
  <2>1. CASE kind = "SRV"
    <3>1. PICK r \in Records, s \in Records : t = Target(r) /\ u = Target(s)
      BY <2>1 DEF IInv, Targets, SRVTargets, ToSet
    <3>2. QED
      BY <3>1 DEF Target, Label
  <2>2. CASE kind = "A"
    <3>1. ATargets(before) /\ ATargets(endpoints)
      BY <2>2 DEF IInv, Targets
    <3>2. PICK i \in DOMAIN before, j \in DOMAIN endpoints : t = before[i] /\ u = endpoints[j]
      BY DEF ToSet
    <3>3. i - 1 = j - 1
      BY <2>2, <3>1, <3>2, LowerCounts
    <3>4. i \in Int /\ j \in Int /\ t.name = i /\ u.name = j
      BY <3>1, <3>2 DEF ATargets
    <3>5. QED
      BY <3>3, <3>4
  <2>3. QED
    BY <2>1, <2>2 DEF IInv
<1>2. QED
  BY <1>1, Invariance, PTL

===============================================================================
