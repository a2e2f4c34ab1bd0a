------------------------------- MODULE Chain -------------------------------
(***************************************************************************)
(* What HotStuff promises the nodes that follow, whatever the protocol:    *)
(* a height is proposed once and certified once, a node delivers the       *)
(* heights in their order, commits certified ones only, and takes neither  *)
(* back.                                                                   *)
(***************************************************************************)
EXTENDS Naturals

CONSTANTS
  Follower,  \* the nodes that follow the proposer
  Height     \* the heights of the chain

VARIABLES
  proposed,   \* the heights that were proposed
  certified,  \* those that a quorum has voted for
  committed,  \* the heights each follower has committed
  delivered   \* the height up to which each follower has delivered

vars == <<proposed, certified, committed, delivered>>

Init ==
  /\ proposed = {} /\ certified = {}
  /\ committed = [b \in Follower |-> {}]
  /\ delivered = [b \in Follower |-> 0]

Propose(h) ==
  /\ h \notin proposed
  /\ proposed' = proposed \cup {h}
  /\ UNCHANGED <<certified, committed, delivered>>

Certify(h) ==
  /\ h \in proposed \ certified
  /\ certified' = certified \cup {h}
  /\ UNCHANGED <<proposed, committed, delivered>>

Commit(b, h) ==
  /\ h \in certified
  /\ committed' = [committed EXCEPT ![b] = @ \cup {h}]
  /\ UNCHANGED <<proposed, certified, delivered>>

\* The heights from the next one up to n, none of which was left out.
Deliver(b, n) ==
  /\ n > delivered[b]
  /\ 1 .. n \subseteq proposed
  /\ delivered' = [delivered EXCEPT ![b] = n]
  /\ UNCHANGED <<proposed, certified, committed>>

Next ==
  \/ \E h \in Height : Propose(h) \/ Certify(h)
  \/ \E b \in Follower, h \in Height : Commit(b, h) \/ Deliver(b, h)

Spec == Init /\ [][Next]_vars
=============================================================================
