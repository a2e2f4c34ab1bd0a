-------------------------------- MODULE MCRA --------------------------------
(***************************************************************************)
(* Instances of RA for TLC.                                                *)
(***************************************************************************)
EXTENDS RA, TLC

CONSTANTS a1, a2, a3, a4, b1, b2, b3, b4, x, y

\* Every request asks for one instance.
OneInstance  == [v \in Value |-> 1]

\* b4 sends what it likes, but no SEND for y, and READY for x only.
MadeUp == {m \in Message : /\ m.from = b4
                           /\ m.type = "SEND" => m.val = x
                           /\ m.type = "READY" => m.hash[2] = x}

\* The two nodes that run the code do so alike.
Alike == Permutations(Correct)
=============================================================================
