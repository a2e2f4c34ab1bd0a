----------------------------- MODULE MCSigGroup -----------------------------
(***************************************************************************)
(* Instances of SigGroup for TLC.                                          *)
(***************************************************************************)
EXTENDS SigGroup

CONSTANTS b1, b2, b3, x, y

\* Every request asks for three instances.
ThreeInstances == [v \in Request |-> 3]
=============================================================================
