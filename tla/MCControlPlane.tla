---------------------------- MODULE MCControlPlane ----------------------------
(* Instances of ControlPlane for TLC. *)
EXTENDS ControlPlane

CONSTANTS paris, tokyo

TwoClusters == <<paris, tokyo>>
===============================================================================
