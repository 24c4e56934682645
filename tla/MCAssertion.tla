----------------------------- MODULE MCAssertion ------------------------------
(* Instances of Assertion for TLC. *)
EXTENDS Assertion

(* Around zero and the leeway on either side, one far ahead, one that puts *)
(* the device near the epoch.                                              *)
ClockOffsets == {-30, -5, -4, -1, 0, 3, 4, 5, 20}
===============================================================================
