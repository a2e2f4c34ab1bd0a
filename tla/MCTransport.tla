---------------------------- MODULE MCTransport ----------------------------
(***************************************************************************)
(* Instances of Transport for TLC.                                         *)
(***************************************************************************)
EXTENDS Transport, TLC

CONSTANTS a1, b1, b2, m1, m2, m3

\* A broadcast is the same whatever is sent.
Symmetry == Permutations(Message)
=============================================================================
