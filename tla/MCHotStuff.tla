----------------------------- MODULE MCHotStuff -----------------------------
(***************************************************************************)
(* Instances of HotStuff for TLC.                                          *)
(***************************************************************************)
EXTENDS HotStuff

CONSTANTS b1, b2, b3

\* Bound: the first three heights, in any order.
FirstHeights == proposed \subseteq {1, 2, 3}

\* Bound: only heights above a gap, so that nothing is delivered and blocks are
\* committed.  They are proposed in their order, each when the last is certified,
\* and the goroutines of node 4 keep up; those of the follower run as they like.
AboveGap ==
  /\ proposed \subseteq 5 .. 9
  /\ \A h \in proposed : 5 .. h \subseteq proposed
  /\ Cardinality(proposed \ prepared) <= 1
  /\ Cardinality(checks) <= 1
  /\ Cardinality(infos[Proposer] \cup adopting[Proposer]) <= 1

\* What TLC follows: the steps that stay within one of the two.
Bounds == (FirstHeights \/ AboveGap)'
=============================================================================
