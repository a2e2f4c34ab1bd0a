-------------------------------- MODULE XRBC --------------------------------
(***************************************************************************)
(* What cross-consensus reliable broadcast promises group B, whatever the  *)
(* protocol: an instance is delivered with one request, the same at every  *)
(* node, and the request is one that group A has relayed, or one that a    *)
(* faulty node has started the broadcast of.                               *)
(***************************************************************************)
CONSTANTS
  Node,       \* the nodes of group B that run the protocol
  Instance,   \* the broadcast instances
  Value,      \* request payloads
  Spurious,   \* pairs of an instance and a request that faulty nodes may start
  None        \* not a value

VARIABLES
  relayed,    \* the requests group A has relayed
  decision,   \* the request each instance is delivered with, or None
  delivered   \* the instances each node has delivered

vars == <<relayed, decision, delivered>>

Init ==
  /\ relayed = {}
  /\ decision = [i \in Instance |-> None]
  /\ delivered = [b \in Node |-> {}]

AcceptRequest(v) ==
  /\ relayed' = relayed \cup {v}
  /\ UNCHANGED <<decision, delivered>>

\* The first node to deliver an instance decides its request.
Deliver(b, i, v) ==
  /\ i \notin delivered[b]
  /\ decision[i] \in {None, v}
  /\ v \in relayed \/ <<i, v>> \in Spurious
  /\ decision' = [decision EXCEPT ![i] = v]
  /\ delivered' = [delivered EXCEPT ![b] = @ \cup {i}]
  /\ UNCHANGED relayed

Next ==
  \/ \E v \in Value : AcceptRequest(v)
  \/ \E b \in Node, i \in Instance, v \in Value : Deliver(b, i, v)

Spec == Init /\ [][Next]_vars
=============================================================================
