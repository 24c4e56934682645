----------------------------- MODULE MCDiscovery ------------------------------
(* Instances of Discovery for TLC. *)
EXTENDS Discovery

CONSTANTS internal, external

Record(label, domain, priority, addr) ==
  [label |-> label, domain |-> domain, priority |-> priority, addr |-> addr]

(* As in the doc comment of SRV, weft-a.internal and so on; two of the     *)
(* hosts have the same label and priority.                                 *)
TwoDomains ==
  {Record(1, internal, 0, 3), Record(2, internal, 0, 1), Record(3, internal, 10, 4),
   Record(3, external, 10, 2), Record(0, internal, 10, 0)}
===============================================================================
