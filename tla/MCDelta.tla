------------------------------ MODULE MCDelta ------------------------------
(***************************************************************************)
(* Instances of Delta for TLC.                                             *)
(***************************************************************************)
EXTENDS Delta

CONSTANTS n1, n2, n3, n4, x, y

OneInstance  == [v \in Value |-> 1]

\* A faulty node proposes y, which no client submits.
ProposeY == {m \in Message : m.type = "PROPOSE" /\ m.from \in Faulty /\ m.val = y}
=============================================================================
