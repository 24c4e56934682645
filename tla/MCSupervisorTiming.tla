-------------------------- MODULE MCSupervisorTiming --------------------------
(* Instances of SupervisorTiming for TLC. *)
EXTENDS SupervisorTiming

CONSTANTS paris, tokyo

TwoClusters == <<paris, tokyo>>
===============================================================================
