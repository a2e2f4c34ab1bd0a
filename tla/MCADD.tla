------------------------------- MODULE MCADD -------------------------------
(***************************************************************************)
(* Instances of ADD for TLC.                                               *)
(***************************************************************************)
EXTENDS ADD

CONSTANT x

OneInstance == [v \in Value |-> 1]

\* Node 6 sends its share to all, and to node 4 in a CROSS, too, as if it were of
\* group A; node 2 sends node 4 a SHARE, as if it were of group B.
ShareOf6 == <<x, 2>>
TwoForgers ==
  {f \in Correct \X Message :
     /\ f[2].share = ShareOf6
     /\ \/ f[2].type = "SHARE" /\ f[2].from = 6
        \/ f[2].type = "CROSS" /\ f[2].from = 6 /\ f[1] = 4
        \/ f[2].type = "SHARE" /\ f[2].from = 2 /\ f[1] = 4}

\* Without node 6 all nodes decode the same shares, and in vain.
Without6 == {<<<<v, 0>>, <<v, 1>>, <<v, 3>>>> : v \in Value}
=============================================================================
