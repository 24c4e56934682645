-------------------------- MODULE SSHForward_proofs --------------------------
(***************************************************************************)
(* Proofs about SSHForward, for any number of probers and gateway handlers *)
(* and of clients, and that all of it holds of Path, where a Supervisor's  *)
(* rounds and choice say when they call.                                   *)
(***************************************************************************)
EXTENDS Path, FiniteSetTheorems, TLAPS

Connecting(c) == pc[c] \in {"dialing", "shaking"}

(* What s.mu protects: whoever dials or shakes hands holds it, there is no *)
(* cached client meanwhile, and a client that was taken out of s.client is *)
(* in the hands of the goroutine about to close it.                        *)
IInv ==
  /\ TypeOK
  /\ \A c \in Callers : Connecting(c) => mu = c
  /\ mu # Nobody => client = NoClient
  /\ \A c \in Callers : victim[c] # NoClient => pc[c] = "closing"
  /\ NoOrphanClient

LEMMA InitIInv == Init => IInv
  BY SSHForwardAssumption DEF Init, IInv, TypeOK, Connecting, NoOrphanClient, Callers

-------------------------------------------------------------------------------
(* Each step keeps the invariant *)

(* A step that leaves the clients alone, lets nobody start to connect and  *)
(* nobody that is closing go.                                              *)
LEMMA ClientsUntouched ==
  ASSUME IInv, TypeOK', UNCHANGED <<mu, client, victim, link>>,
         \A c \in Callers : Connecting(c)' => Connecting(c),
         \A c \in Callers : pc[c] = "closing" => pc'[c] = "closing"
  PROVE  IInv'
  BY DEF IInv, NoOrphanClient

LEMMA HandshakeKeepsIInv ==
  ASSUME IInv, NEW c \in Callers, HandshakeDone(c)
  PROVE  IInv'
<1> DEFINE n == CHOOSE m \in Unused : TRUE
<1>1. n \in Clients                    \* the client that NewClientConn returns is fresh
  BY DEF HandshakeDone, Unused
<1>2. TypeOK /\ mu = c /\ client = NoClient
  BY SSHForwardAssumption DEF IInv, HandshakeDone, Connecting, Callers
<1>3. TypeOK'
  BY <1>1, <1>2 DEF TypeOK, HandshakeDone, Goto
<1>4. \A d \in Callers : ~Connecting(d)'
  BY <1>2 DEF IInv, TypeOK, Connecting, HandshakeDone, Goto
<1>5. \A d \in Callers : victim'[d] # NoClient => pc'[d] = "closing"
  BY <1>2 DEF IInv, TypeOK, HandshakeDone, Goto
<1>6. NoOrphanClient'
  BY <1>1, <1>2 DEF IInv, TypeOK, NoOrphanClient, HandshakeDone
<1>7. QED
  BY <1>3, <1>4, <1>5, <1>6 DEF IInv, HandshakeDone

LEMMA DropKeepsIInv ==
  ASSUME IInv, NEW c \in Callers, DropClient(c)
  PROVE  IInv'
<1>1. TypeOK /\ victim[c] = NoClient /\ mu = Nobody
  BY DEF IInv, DropClient
<1>2. TypeOK'
  BY <1>1 DEF TypeOK, DropClient, Goto, Taken, CachedAfterDrop, net
<1>3. \A d \in Callers : Connecting(d)' => mu' = d
  BY <1>1 DEF IInv, TypeOK, Connecting, DropClient, Goto
<1>4. \A d \in Callers : victim'[d] # NoClient => pc'[d] = "closing"
  BY <1>1 DEF IInv, TypeOK, DropClient, Goto
<1>5. NoOrphanClient'
  BY <1>1 DEF IInv, TypeOK, NoOrphanClient, DropClient, Taken, CachedAfterDrop, net
<1>6. QED
  BY <1>2, <1>3, <1>4, <1>5 DEF IInv, DropClient

LEMMA CloseKeepsIInv ==
  ASSUME IInv, NEW c \in Callers, CloseClient(c)
  PROVE  IInv'
<1>1. TypeOK
  BY DEF IInv
<1>2. TypeOK'
  BY <1>1 DEF TypeOK, CloseClient, Return, Goto
<1>3. \A d \in Callers : Connecting(d)' => mu' = d
  BY <1>1 DEF IInv, TypeOK, Connecting, CloseClient, Return, Goto
<1>4. \A d \in Callers : victim'[d] # NoClient => pc'[d] = "closing"
  BY <1>1 DEF IInv, TypeOK, CloseClient, Return, Goto
<1>5. NoOrphanClient'
  BY <1>1 DEF IInv, TypeOK, NoOrphanClient, CloseClient
<1>6. QED
  BY <1>2, <1>3, <1>4, <1>5 DEF IInv, CloseClient

LEMMA ConnectFailsKeepsIInv ==
  ASSUME IInv, NEW c \in Callers, ConnectFails(c)
  PROVE  IInv'
<1>1. TypeOK /\ mu = c /\ Connecting(c)
  BY DEF IInv, ConnectFails, Connecting
<1>2. TypeOK'
  BY <1>1 DEF TypeOK, ConnectFails, Return, Goto, net
<1>3. \A d \in Callers : ~Connecting(d)'
  BY <1>1 DEF IInv, TypeOK, Connecting, ConnectFails, Return, Goto
<1>4. \A d \in Callers : victim'[d] # NoClient => pc'[d] = "closing"
  BY <1>1 DEF IInv, TypeOK, Connecting, ConnectFails, Return, Goto
<1>5. NoOrphanClient'
  BY <1>1 DEF IInv, NoOrphanClient, ConnectFails, net
<1>6. QED
  BY <1>2, <1>3, <1>4, <1>5 DEF IInv, ConnectFails

LEMMA ConnectNewKeepsIInv ==
  ASSUME IInv, NEW c \in Callers, ConnectNew(c)
  PROVE  IInv'
<1>1. TypeOK /\ mu = Nobody /\ client = NoClient /\ mu' = c
  BY DEF IInv, ConnectNew, Holder
<1>2. TypeOK'
  BY <1>1 DEF TypeOK, ConnectNew, Goto, net
<1>3. \A d \in Callers : Connecting(d)' => d = c
  BY <1>1, SSHForwardAssumption DEF IInv, TypeOK, Connecting, ConnectNew, Goto, Callers
<1>4. \A d \in Callers : victim'[d] # NoClient => pc'[d] = "closing"
  BY <1>1 DEF IInv, TypeOK, ConnectNew, Goto
<1>5. NoOrphanClient'
  BY <1>1 DEF IInv, NoOrphanClient, ConnectNew, net
<1>6. QED
  BY <1>1, <1>2, <1>3, <1>4, <1>5 DEF IInv, ConnectNew

LEMMA NextIInv == IInv /\ [Next]_vars => IInv'
<1> SUFFICES ASSUME IInv, [Next]_vars
             PROVE  IInv'
  OBVIOUS
<1>1. TypeOK
  BY DEF IInv
<1>2. ASSUME NEW c \in Callers,
             Call(c) \/ ConnectCached(c) \/ TCPConnects(c) \/ Forward(c) \/ HangUp(c)
      PROVE  IInv'
  <2>1. TypeOK'
    BY <1>1, <1>2 DEF TypeOK, Call, ConnectCached, TCPConnects, Forward, ChannelOpens,
                      ChannelFails, HangUp, Return, Goto, net
  <2>2. UNCHANGED <<mu, client, victim, link>>
    BY <1>2 DEF Call, ConnectCached, TCPConnects, Forward, ChannelOpens, ChannelFails,
                HangUp, net
  <2>3. \A d \in Callers : /\ Connecting(d)' => Connecting(d)
                           /\ pc[d] = "closing" => pc'[d] = "closing"
    BY <1>1, <1>2 DEF TypeOK, Connecting, Call, ConnectCached, TCPConnects, Forward,
                      ChannelOpens, ChannelFails, HangUp, Return, Goto
  <2>4. QED
    BY <2>1, <2>2, <2>3, ClientsUntouched
<1>3. ASSUME NEW c \in Callers, CloseBackend(c) \/ Deadline(c)
      PROVE  IInv'
  <2>1. TypeOK'
    BY <1>1, <1>3 DEF TypeOK, CloseBackend, Deadline, HasDeadline, Goto, net
  <2>2. UNCHANGED <<mu, client, victim, link>>
    BY <1>3 DEF CloseBackend, Deadline, net
  <2>3. \A d \in Callers : /\ Connecting(d)' => Connecting(d)
                           /\ pc[d] = "closing" => pc'[d] = "closing"
    BY <1>1, <1>3 DEF TypeOK, Connecting, CloseBackend, Deadline, Goto
  <2>4. QED
    BY <2>1, <2>2, <2>3, ClientsUntouched
<1>4. ASSUME NEW n \in Clients, LinkFails(n)
      PROVE  IInv'
  <2>1. TypeOK'
    BY <1>1, <1>4 DEF TypeOK, LinkFails
  <2>2. NoOrphanClient'
    BY <1>1, <1>4 DEF IInv, TypeOK, NoOrphanClient, LinkFails
  <2>3. QED
    BY <1>4, <2>1, <2>2 DEF IInv, Connecting, LinkFails
<1>5. CASE HostChanges
  <2>1. TypeOK'
    BY <1>1, <1>5 DEF TypeOK, HostChanges
  <2>2. QED
    BY <1>5, <2>1, ClientsUntouched DEF HostChanges, Connecting
<1>6. CASE UNCHANGED vars
  <2>1. TypeOK'
    BY <1>1, <1>6 DEF TypeOK, vars, calls, net
  <2>2. QED
    BY <1>6, <2>1, ClientsUntouched DEF vars, calls, net, Connecting
<1>7. QED
  BY <1>2, <1>3, <1>4, <1>5, <1>6, HandshakeKeepsIInv, DropKeepsIInv, CloseKeepsIInv,
     ConnectFailsKeepsIInv, ConnectNewKeepsIInv DEF Next, Lock, Dial

LEMMA Invariance == Spec => []IInv
  BY InitIInv, NextIInv, PTL DEF Spec

-------------------------------------------------------------------------------
(* Theorems *)

(* The types of SSHForward's variables, whatever the constants.            *)
THEOREM TypeCorrect == Spec => []TypeOK
<1>1. IInv => TypeOK
  BY DEF IInv
<1>2. QED
  BY Invariance, <1>1, PTL

(* connect, dropClient and Close never lose an SSH connection: one that is *)
(* open is cached or about to be closed.                                   *)
THEOREM NoLeak == Spec => []NoOrphanClient
<1>1. IInv => NoOrphanClient
  BY DEF IInv
<1>2. QED
  BY Invariance, <1>1, PTL

(* connect dials under s.mu: however many Dials find no client, one of     *)
(* them shakes hands at a time.                                            *)
THEOREM OneHandshake == Spec => []SharedHandshake
<1>1. IInv => SharedHandshake
  BY DEF IInv, SharedHandshake, Connecting
<1>2. QED
  BY Invariance, <1>1, PTL

-------------------------------------------------------------------------------
(* The lock has an owner that goes on: what DialsReturn rests on *)

HeldWhileConnecting == mu # Nobody => mu \in Callers /\ Connecting(mu)

LEMMA NextHeld == IInv /\ HeldWhileConnecting /\ [Next]_vars => HeldWhileConnecting'
<1> SUFFICES ASSUME IInv, HeldWhileConnecting, [Next]_vars
             PROVE  HeldWhileConnecting'
  OBVIOUS
<1>1. TypeOK
  BY DEF IInv
<1> USE DEF HeldWhileConnecting, Connecting, Goto
<1>2. ASSUME NEW c \in Callers, HandshakeDone(c) \/ ConnectFails(c)
      PROVE  HeldWhileConnecting'
  BY <1>2 DEF HandshakeDone, ConnectFails
<1>3. ASSUME NEW c \in Callers, ConnectNew(c)
      PROVE  HeldWhileConnecting'
  BY <1>1, <1>3 DEF TypeOK, ConnectNew, Holder
<1>4. ASSUME NEW c \in Callers, TCPConnects(c)
      PROVE  HeldWhileConnecting'
  BY <1>1, <1>4 DEF TypeOK, TCPConnects
<1>5. ASSUME NEW c \in Callers,
             \/ Call(c) \/ ConnectCached(c) \/ Forward(c) \/ HangUp(c)
             \/ DropClient(c) \/ CloseClient(c) \/ CloseBackend(c)
      PROVE  HeldWhileConnecting'
  BY <1>1, <1>5 DEF TypeOK, Call, ConnectCached, Forward, ChannelOpens, ChannelFails, HangUp,
                    DropClient, CloseClient, CloseBackend, Return
<1>6. CASE UNCHANGED <<mu, pc>>
  BY <1>6
<1>7. QED
  BY <1>2, <1>3, <1>4, <1>5, <1>6
     DEF Next, Lock, Dial, Deadline, LinkFails, HostChanges, vars, calls

(* On every way out of connect, its errors included, s.mu is released: it  *)
(* is only held by a goroutine that is dialing or shaking hands.  So what  *)
(* ends those two ends every wait for the lock.                            *)
THEOREM LockHasOwner == Spec => []HeldWhileConnecting
<1>1. Init => HeldWhileConnecting
  BY DEF Init, HeldWhileConnecting
<1>2. QED
  BY <1>1, NextHeld, Invariance, PTL DEF Spec

-------------------------------------------------------------------------------
(* How many clients there are *)

(* A caller that has not yet got as far as a client refers to none.        *)
Unassigned ==
  \A c \in Callers :
    pc[c] \in {"idle", "connecting", "dialing", "shaking"} => used[c] = NoClient

LEMMA NextUnassigned == TypeOK /\ Unassigned /\ [Next]_vars => Unassigned'
<1> SUFFICES ASSUME TypeOK, Unassigned, [Next]_vars
             PROVE  Unassigned'
  OBVIOUS
<1> USE DEF TypeOK, Unassigned, Goto
<1>1. ASSUME NEW c \in Callers, HangUp(c) \/ ConnectFails(c) \/ CloseClient(c)
      PROVE  Unassigned'
  BY <1>1 DEF HangUp, ConnectFails, CloseClient, Return
<1>2. ASSUME NEW c \in Callers, Call(c) \/ ConnectNew(c) \/ TCPConnects(c)
      PROVE  Unassigned'
  BY <1>2 DEF Call, ConnectNew, TCPConnects
<1>3. ASSUME NEW c \in Callers, ConnectCached(c) \/ HandshakeDone(c)
      PROVE  Unassigned'
  BY <1>3 DEF ConnectCached, HandshakeDone
<1>4. ASSUME NEW c \in Callers, Forward(c) \/ DropClient(c) \/ CloseBackend(c)
      PROVE  Unassigned'
  BY <1>4 DEF Forward, ChannelOpens, ChannelFails, DropClient, CloseBackend
<1>5. CASE UNCHANGED <<pc, used>>
  BY <1>5
<1>6. QED
  BY <1>1, <1>2, <1>3, <1>4, <1>5
     DEF Next, Lock, Dial, Deadline, LinkFails, HostChanges, vars, calls

LEMMA UnassignedInvariance == Spec => []Unassigned
<1>1. Init => Unassigned
  BY DEF Init, Unassigned
<1>2. QED
  BY <1>1, NextUnassigned, TypeCorrect, PTL DEF Spec

(* What some callers refer to with one of their variables is no more than  *)
(* they are.                                                               *)
LEMMA OneEach ==
  ASSUME NEW S, IsFiniteSet(S), NEW f
  PROVE  /\ IsFiniteSet({f[c] : c \in S})
         /\ Cardinality({f[c] : c \in S}) \in Nat
         /\ Cardinality({f[c] : c \in S}) <= Cardinality(S)
<1> DEFINE T == {f[c] : c \in S}
<1>1. [c \in S |-> f[c]] \in Surjection(S, T)
  BY DEF Surjection
<1>2. QED
  BY <1>1, FS_Surjection, FS_CardinalityType

LEMMA ShakingHasRoom ==
  ASSUME IInv, Unassigned, IsFiniteSet(Callers), 2 * Cardinality(Callers) - 1 <= MaxClients,
         NEW c \in Callers, pc[c] = "shaking"
  PROVE  Unused # {}
<1> DEFINE others == Callers \ {c}
           U == {used[d] : d \in others}
           V == {victim[d] : d \in others}
<1>1. /\ IsFiniteSet(others) /\ Cardinality(others) = Cardinality(Callers) - 1
      /\ Cardinality(Callers) \in Nat
  BY FS_RemoveElement, FS_CardinalityType
<1>2. /\ IsFiniteSet(U) /\ Cardinality(U) \in Nat /\ Cardinality(U) <= Cardinality(others)
      /\ IsFiniteSet(V) /\ Cardinality(V) \in Nat /\ Cardinality(V) <= Cardinality(others)
  BY <1>1, OneEach
<1>3. /\ IsFiniteSet(U \cup V) /\ Cardinality(U \cup V) \in Nat
      /\ Cardinality(U \cup V) <= Cardinality(U) + Cardinality(V)
  <2>1. IsFiniteSet(U \cap V) /\ Cardinality(U \cap V) \in Nat
    BY <1>2, FS_Intersection, FS_CardinalityType
  <2>2. /\ IsFiniteSet(U \cup V)
        /\ Cardinality(U \cup V) = Cardinality(U) + Cardinality(V) - Cardinality(U \cap V)
    BY <1>2, FS_Union
  <2>3. QED
    BY <1>2, <2>1, <2>2, FS_CardinalityType
<1>4. IsFiniteSet(Clients) /\ Cardinality(Clients) = MaxClients
  BY FS_Interval, SSHForwardAssumption DEF Clients
<1>5. client = NoClient /\ used[c] = NoClient /\ victim[c] = NoClient
  BY SSHForwardAssumption DEF IInv, Unassigned, Connecting, Callers
<1>6. Clients \subseteq Unused \cup (U \cup V)
  BY <1>5 DEF Unused, Clients, NoClient
<1>7. ASSUME Unused = {}
      PROVE  FALSE
  <2>1. Clients \subseteq U \cup V
    BY <1>6, <1>7
  <2>2. Cardinality(Clients) <= Cardinality(U \cup V)
    BY <1>3, <2>1, FS_Subset
  <2>3. QED
    BY <1>1, <1>2, <1>3, <1>4, <2>2, SSHForwardAssumption
<1>8. QED
  BY <1>7

(* The bound on clients takes no behaviour away: a handshake that could    *)
(* succeed finds a number for its client, if there are two for each other  *)
(* caller and one more.                                                    *)
THEOREM BoundIsLoose ==
  ASSUME IsFiniteSet(Callers), 2 * Cardinality(Callers) - 1 <= MaxClients
  PROVE  Spec => [](\A c \in Callers : pc[c] = "shaking" => Unused # {})
<1>1. IInv /\ Unassigned => \A c \in Callers : pc[c] = "shaking" => Unused # {}
  BY ShakingHasRoom
<1>2. QED
  BY <1>1, Invariance, UnassignedInvariance, PTL

(* The datacenter's SSH host sees at most one connection for each          *)
(* goroutine that closes one, and the cached one.                          *)
THEOREM FewConnections ==
  ASSUME IsFiniteSet(Callers)
  PROVE  Spec => [](Cardinality({n \in Clients : link[n] # "dead"})
                      <= Cardinality({c \in Callers : pc[c] = "closing"}) + 1)
<1> DEFINE Closing == {c \in Callers : pc[c] = "closing"}
           Alive == {n \in Clients : link[n] # "dead"}
           V == {victim[c] : c \in Closing}
<1>1. ASSUME IInv
      PROVE  Cardinality(Alive) <= Cardinality(Closing) + 1
  <2>1. IsFiniteSet(Closing) /\ Cardinality(Closing) \in Nat
    BY FS_Subset, FS_CardinalityType
  <2>2. IsFiniteSet(V) /\ Cardinality(V) \in Nat /\ Cardinality(V) <= Cardinality(Closing)
    BY <2>1, OneEach
  <2>3. IsFiniteSet(V \cup {client}) /\ Cardinality(V \cup {client}) <= Cardinality(V) + 1
    <3>1. /\ IsFiniteSet(V \cup {client})
          /\ Cardinality(V \cup {client})
               = IF client \in V THEN Cardinality(V) ELSE Cardinality(V) + 1
      BY <2>2, FS_AddElement
    <3> HIDE DEF V
    <3>2. QED
      BY <2>2, <3>1
  <2>4. Alive \subseteq V \cup {client}
    BY <1>1 DEF IInv, NoOrphanClient, Clients, NoClient
  <2>5. /\ Cardinality(Alive) <= Cardinality(V \cup {client})
        /\ Cardinality(Alive) \in Nat /\ Cardinality(V \cup {client}) \in Nat
    BY <2>3, <2>4, FS_Subset, FS_CardinalityType
  <2>6. QED
    BY <2>1, <2>2, <2>3, <2>5
<1>2. QED
  BY <1>1, Invariance, PTL

-------------------------------------------------------------------------------
(* Path implements SSHForward *)

(* What the prober and the handlers do to the transport is what any caller *)
(* may do.                                                                 *)
LEMMA CallersStep ==
  ASSUME NEW c \in Callers,
         \/ Call(c) \/ HangUp(c) \/ ConnectFails(c) \/ CloseClient(c)
         \/ Step(c) \/ Deadline(c) \/ CloseBackend(c)
  PROVE  Next
BY DEF Next, Step, Dial

LEMMA PathStep == [PathNext]_pathVars => [Next]_vars
<1> SUFFICES ASSUME PathNext
             PROVE  [Next]_vars
  BY DEF pathVars
<1>1. Probers \subseteq Callers /\ Handlers \subseteq Callers
  BY DEF Callers
<1>2. CASE BeginRound
  BY <1>1, <1>2, CallersStep DEF BeginRound
<1>3. CASE FinishRound \/ HoldDownPasses
  BY <1>3 DEF FinishRound, HoldDownPasses
<1>4. ASSUME NEW c \in Probers, ProbeSucceeds(c) \/ ProbeFails(c)
      PROVE  Next
  BY <1>1, <1>4, CallersStep DEF ProbeSucceeds, ProbeFails
<1>5. ASSUME NEW c \in Handlers, HandlerDials(c) \/ HandlerReturns(c)
      PROVE  Next
  BY <1>1, <1>5, CallersStep DEF HandlerDials, HandlerReturns
<1>6. ASSUME NEW c \in Callers, Step(c)
      PROVE  Next
  BY <1>6, CallersStep
<1>7. ASSUME Disturbance
      PROVE  Next
  <2>1. CASE HostChanges \/ \E n \in Clients : LinkFails(n)
    BY <2>1 DEF Next
  <2>2. CASE \E c \in Callers : Deadline(c) \/ CloseBackend(c)
    BY <2>2, CallersStep
  <2>3. QED
    BY <1>7, <2>1, <2>2 DEF Disturbance
<1>8. QED
  BY <1>2, <1>3, <1>4, <1>5, <1>6, <1>7 DEF PathNext

(* Whatever a Supervisor chooses and whenever its rounds run, the prober   *)
(* and the handlers it sends use the shared client as SSHForward allows.   *)
THEOREM PathImplements == PathFairSpec => Spec
<1>1. PathInit => Init
  BY DEF PathInit
<1>2. QED
  BY <1>1, PathStep, PTL DEF PathFairSpec, PathSpec, Spec

(* So no connection is lost between a probe's drop and a handler's, and no *)
(* handler opens a second one next to a probe's.                           *)
THEOREM PathShares == PathFairSpec => [](TypeOK /\ NoOrphanClient /\ SharedHandshake)
  BY PathImplements, TypeCorrect, NoLeak, OneHandshake, PTL

===============================================================================
