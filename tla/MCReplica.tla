----------------------------- MODULE MCReplica -----------------------------
(***************************************************************************)
(* Instances of Replica for TLC: the start with every configuration of     *)
(* AllModes, and all of the rest with one configuration for each mode.     *)
(***************************************************************************)
EXTENDS Replica

CONSTANTS s1, s2, b1, b2, c1, c2, r1, r2, r3

Configuration(modes, adds, numA, numsB) ==
  [mode : modes, add : adds, numA : {numA}, numB : numsB]

MaxB == 100

\* Group A has the 4 nodes that StartQuorum counts on; CrossSigGroup divides
\* group B by three and is started with 3f + 1 nodes.
AllModes ==
  Configuration({"CrossRA", "DeltaBA"}, {0}, 4, 1 .. MaxB)
    \cup Configuration({"CrossABC"}, {0, 1}, 4, 1 .. MaxB)
    \cup Configuration({"CrossRA"}, {1}, 4, {4})
    \cup Configuration({"CrossSigGroup"}, {0}, 4, {3 * t + 1 : t \in 1 .. MaxB \div 3})

OfEachMode == {d \in AllModes : d.numB = 4}

Sendings == [p \in Node |-> IF p \in ANode THEN 2 ELSE 4]

\* The nodes of group B, the clients and the messages are alike.
Symmetry == Permutations(Client) \cup Permutations(BNode) \cup Permutations(Reply)

OneInstance == [c \in Client |-> 1]

Messages == Reply \cup {<<c, 0>> : c \in Client}
=============================================================================
