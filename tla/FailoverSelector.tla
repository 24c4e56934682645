--------------------------- MODULE FailoverSelector ---------------------------
(***************************************************************************)
(* What failover.Supervisor promises about its choice of datacenter, with  *)
(* no probes, clocks, goroutines or filters: "fail over fast, fail back    *)
(* slow".                                                                  *)
(*                                                                         *)
(* eligible is the set of datacenters that may be selected (healthy, and   *)
(* not excluded by the operator); settled is the set of those that have    *)
(* been eligible long enough to take over from a working datacenter.       *)
(* Both change freely; only the choice is constrained.                     *)
(***************************************************************************)
EXTENDS Integers, FiniteSetsExt

CONSTANT N          \* number of datacenters; 1 is the most preferred

DC   == 1..N
None == 0           \* nothing selected: every datacenter is down

VARIABLES eligible, settled, active

vars == <<eligible, settled, active>>

Init ==
  /\ eligible = {}
  /\ settled = {}
  /\ active = None

(* The choices allowed when prev was selected.  A datacenter that is still *)
(* eligible is kept, or gives way to a more preferred settled one; one     *)
(* that is not gives way at once to the most preferred eligible one.       *)
Successors(prev, elig, sett) ==
  IF prev \in elig
  THEN {prev} \cup {i \in sett : i < prev}
  ELSE {i \in elig : i = Min(elig)} \cup {i \in {None} : elig = {}}

Reselect ==
  /\ eligible' \in SUBSET DC
  /\ settled' \in SUBSET eligible'
  /\ active' \in Successors(active, eligible', settled')

Spec == Init /\ [][Reselect]_vars

===============================================================================
