----------------------------- MODULE MCCrossABC -----------------------------
(***************************************************************************)
(* Instances of CrossABC for TLC.                                          *)
(***************************************************************************)
EXTENDS CrossABC

CONSTANTS a1, a2, a3, b1, b2, b3, b4, b5, b6, b7, x, y

\* Every request asks for two instances.
TwoInstances == [v \in Value |-> 2]
=============================================================================
