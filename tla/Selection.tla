------------------------------- MODULE Selection -------------------------------
(***************************************************************************)
(* failover/supervisor.go, reselectLocked: which endpoint the scan over    *)
(* the endpoints in their order of preference returns.                     *)
(*                                                                         *)
(* prev is the choice so far, up the healthy endpoints, off the disabled   *)
(* ones, seasoned those whose hold-down has passed.                        *)
(***************************************************************************)
EXTENDS Integers, FiniteSetsExt

None == 0                               \* s.active = -1

EligibleIgnoringFilter(up, off) == up   \* fault: the scan does not skip disabled

Eligible(up, off) == up \ off

ActiveHealthyIgnoringFilter(prev, up, off) == prev \in up  \* fault: disabled pick kept

ActiveHealthy(prev, up, off) == prev \in up \ off

CandidatesNoHoldDown(prev, up, off, seasoned) ==  \* fault: fails back at once
  IF ActiveHealthy(prev, up, off)
  THEN {i \in Eligible(up, off) : i <= prev}
  ELSE Eligible(up, off)

(* The endpoints that the scan would stop at; it stops at the first.       *)
Candidates(prev, up, off, seasoned) ==
  IF ActiveHealthy(prev, up, off)
  THEN {i \in Eligible(up, off) : i = prev \/ (i < prev /\ i \in seasoned)}
  ELSE Eligible(up, off)

Select(prev, up, off, seasoned) ==
  LET stops == Candidates(prev, up, off, seasoned)
  IN  IF stops = {} THEN None ELSE Min(stops)

===============================================================================
