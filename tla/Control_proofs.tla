---------------------------- MODULE Control_proofs ----------------------------
(***************************************************************************)
(* Proofs about Control, for any set of datacenters.                       *)
(***************************************************************************)
EXTENDS Control, TLAPS

(* One goroutine changes the choice and delivers it, as in a tray whose    *)
(* application never calls SetClusterFilter.                               *)
OneActor == \E a : Actors = {a}

(* What the server should hold while i is the choice.                      *)
StateOf(i) == [name |-> i, allDown |-> i = None]

(* An all-down Switch names no datacenter.                                 *)
TypeInv ==
  /\ TypeOK
  /\ \A a \in Actors : outbox[a].allDown => outbox[a].to = None

(* What is still to be delivered is the choice as it is now.               *)
IInv ==
  /\ TypeInv
  /\ \A a \in Actors : outbox[a] # NoSwitch => ActiveOf(outbox[a]) = StateOf(active)
  /\ PublishedIsActive

-------------------------------------------------------------------------------
(* Types, for any number of goroutines *)

LEMMA Zeroes == ZeroActive \in Active /\ NoSwitch \in Switch
  BY DEF ZeroActive, Active, NoSwitch, Switch

LEMMA InitTypeInv == Init => TypeInv
<1> SUFFICES ASSUME Init
             PROVE  TypeInv
  OBVIOUS
<1>1. TypeOK
  BY Zeroes DEF Init, TypeOK
<1>2. \A a \in Actors : ~outbox[a].allDown
  BY DEF Init, NoSwitch
<1>3. QED
  BY <1>1, <1>2 DEF TypeInv

LEMMA ReselectKeepsTypes ==
  ASSUME TypeInv, NEW a \in Actors, Reselect(a)
  PROVE  TypeInv'
<1>1. active' \in DC \cup {None}
  BY DEF Reselect
<1>2. [from |-> active, to |-> active', allDown |-> active' = None] \in Switch
  BY <1>1 DEF Switch, TypeInv, TypeOK
<1>3. outbox' \in [Actors -> Switch]
  BY <1>2 DEF Reselect, TypeInv, TypeOK
<1>4. \A b \in Actors : outbox'[b].allDown => outbox'[b].to = None
  BY DEF Reselect, TypeInv, TypeOK
<1>5. QED
  BY <1>1, <1>3, <1>4 DEF Reselect, TypeInv, TypeOK, viewVars

LEMMA OnSwitchKeepsTypes ==
  ASSUME TypeInv, NEW a \in Actors, OnSwitch(a)
  PROVE  TypeInv'
<1>1. ActiveOf(outbox[a]) \in Active
  BY DEF TypeInv, TypeOK, Switch, ActiveOf, Active
<1>2. NoSwitch \in Switch
  BY Zeroes
<1>3. outbox' \in [Actors -> Switch]
  BY <1>2 DEF OnSwitch, TypeInv, TypeOK
<1>4. \A b \in Actors : outbox'[b].allDown => outbox'[b].to = None
  BY DEF OnSwitch, TypeInv, TypeOK, NoSwitch
<1>5. QED
  BY <1>1, <1>3, <1>4 DEF OnSwitch, Publish, TypeInv, TypeOK, viewVars

LEMMA NextTypeInv == TypeInv /\ [Next]_vars => TypeInv'
<1> SUFFICES ASSUME TypeInv, [Next]_vars
             PROVE  TypeInv'
  OBVIOUS
<1>1. CASE Cancel \/ Shutdown
  BY <1>1 DEF Cancel, Shutdown, TypeInv, TypeOK, viewVars
<1>2. CASE View
  <2>1. UNCHANGED trayVars
    BY <1>2 DEF View, Poll, Handle, FetchReturns, FetchFails, StopWatch
  <2>2. /\ prev' \in Active /\ cur' \in Active
        /\ fetch' \in {"none", "sent", "refused", "answered"}
        /\ watch' \in {"polling", "stopped"}
    BY <1>2, Zeroes DEF View, Poll, Handle, FetchReturns, FetchFails, StopWatch, TypeInv,
                        TypeOK, trayVars
  <2>3. QED
    BY <2>1, <2>2 DEF trayVars, TypeInv, TypeOK
<1>3. CASE UNCHANGED vars
  BY <1>3 DEF vars, trayVars, viewVars, TypeInv, TypeOK
<1>4. QED
  BY <1>1, <1>2, <1>3, ReselectKeepsTypes, OnSwitchKeepsTypes DEF Next, Tray

(* Every variable keeps its type, whatever the constants; an all-down      *)
(* state never names a datacenter.                                         *)
THEOREM TypeCorrect == Spec => []TypeOK
<1>1. TypeInv => TypeOK
  BY DEF TypeInv
<1>2. QED
  BY <1>1, InitTypeInv, NextTypeInv, PTL DEF Spec

-------------------------------------------------------------------------------
(* The server's content, for one goroutine *)

LEMMA NextIInv ==
  ASSUME OneActor
  PROVE  IInv /\ [Next]_vars => IInv'
<1> SUFFICES ASSUME IInv, [Next]_vars
             PROVE  IInv'
  OBVIOUS
<1>1. TypeInv /\ TypeInv'
  BY NextTypeInv DEF IInv
<1>2. PICK p : Actors = {p}
  BY DEF OneActor
<1>3. ASSUME NEW a \in Actors, Reselect(a)
      PROVE  IInv'
  <2>1. outbox'[a] = [from |-> active, to |-> active', allDown |-> active' = None]
    BY <1>1, <1>3 DEF Reselect, TypeInv, TypeOK
  <2>2. active' # active
    BY <1>3 DEF Reselect
  <2>3. outbox'[a] # NoSwitch
    BY <2>1, <2>2 DEF NoSwitch
  <2>4. \A b \in Actors : ActiveOf(outbox'[b]) = StateOf(active')
    BY <1>2, <2>1 DEF ActiveOf, StateOf
  <2>5. PublishedIsActive'
    BY <2>3 DEF PublishedIsActive, InFlight
  <2>6. QED
    BY <1>1, <2>4, <2>5 DEF IInv, ActiveOf, StateOf
<1>4. ASSUME NEW a \in Actors, OnSwitch(a)
      PROVE  IInv'
  <2>1. current' = StateOf(active) /\ active' = active
    BY <1>4 DEF OnSwitch, Publish, IInv
  <2>2. \A b \in Actors : outbox'[b] = NoSwitch
    BY <1>1, <1>2, <1>4 DEF OnSwitch, TypeInv, TypeOK
  <2>3. PublishedIsActive'
    BY <2>1 DEF PublishedIsActive, StateOf
  <2>4. QED
    BY <1>1, <2>2, <2>3 DEF IInv
<1>5. CASE UNCHANGED <<active, outbox, current, selected>>
  BY <1>1, <1>5 DEF IInv, PublishedIsActive, InFlight, ActiveOf, StateOf, NoSwitch
<1>6. QED
  BY <1>3, <1>4, <1>5 DEF Next, Tray, View, Cancel, Shutdown, Poll, Handle, FetchReturns,
                          FetchFails, StopWatch, vars, trayVars

(* As long as one goroutine calls OnSwitch, the server holds the choice    *)
(* whenever nothing is being delivered; with two this fails (plane_stale). *)
THEOREM Published ==
  ASSUME OneActor
  PROVE  Spec => []PublishedIsActive
<1>1. Init => IInv
  BY InitTypeInv DEF Init, IInv, PublishedIsActive
<1>2. IInv => PublishedIsActive
  BY DEF IInv
<1>3. IInv /\ [Next]_vars => IInv'
  BY NextIInv
<1>4. QED
  BY <1>1, <1>2, <1>3, PTL DEF Spec

===============================================================================
