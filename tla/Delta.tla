------------------------------- MODULE Delta -------------------------------
(***************************************************************************)
(* Mode DeltaBA: group A proposes every instance of a request to all nodes *)
(* of both groups (PROPOSE), each node votes for the first proposal of an  *)
(* instance (VOTE), and an instance with f + 1 votes for one payload is    *)
(* counted; a node reports when it has counted as many as were asked for.  *)
(* Sources: consensus/delta.go, quorum/quorum.go, sender.go.               *)
(*                                                                         *)
(* Every message is handled by a goroutine of its own.  PROPOSE handlers   *)
(* run under proposeLock and VOTE handlers under deltaVoteLock, so one of  *)
(* each may run at a time, and both keep the payload they work on in the   *)
(* package variable sourceMsg: each handler is two actions, one that sets  *)
(* sourceMsg and one that reads it.                                        *)
(***************************************************************************)
EXTENDS QuorumSizes, FiniteSets

CONSTANTS
  Node,      \* the nodes of both groups
  Relay,     \* nodes of group A that clients submit requests to
  Correct,   \* the nodes that run this code and stay up
  Faulty,    \* nodes that may send any message in Forged; the rest is silent
  Forged,    \* messages that faulty nodes make up
  Value,     \* request payloads
  Request,   \* those of Value that clients submit
  NumReq,    \* the number of instances a request asks for
  None       \* "no handler at work", "no payload yet"

ASSUME Groups ==
  /\ IsFiniteSet(Node)
  /\ Correct \subseteq Node /\ Relay \subseteq Correct /\ Faulty \subseteq Node \ Correct
  /\ Request \subseteq Value /\ NumReq \in [Value -> Nat \ {0}]
  /\ None \notin Value

\* At most f = (n - 1) / 3 nodes of both groups together are faulty.
ASSUME FaultBound == Cardinality(Faulty) <= FSize(Cardinality(Node))

Instance == UNION {0 .. (NumReq[v] - 1) : v \in Value}

Message == [type : {"PROPOSE", "VOTE"}, from : Node, inst : Instance, val : Value]

ASSUME Forgeries ==
  /\ Forged \subseteq {m \in Message : m.from \in Faulty}
  /\ None \notin Instance \cup Message

Msg(t, c, i, v) == [type |-> t, from |-> c, inst |-> i, val |-> v]

\* StartDeltaQuorum and CheckDeltaSmallQuorum: f + 1 of all nodes.  The
\* variants named ...Variant are mistakes the code could have made; runs are
\* repeated with them to show that the properties notice.  These take one vote
\* less, and the votes of all nodes.
SmallQuorumVariant == SQuorumSize(Cardinality(Node)) - 1
SmallQuorumVariant2 == Cardinality(Node)
SmallQuorum == SQuorumSize(Cardinality(Node))

VARIABLES
  submitted,         \* the requests each relay has proposed
  net,               \* the messages on their way to each node
  deltaProposeList,  \* the instances whose PROPOSE a node has handled
  deltaVoteList,     \* the instances a node has counted
  deltaTotalEpoch,   \* how many instances it waits for
  votes,             \* quorum.buffer: VOTE senders by instance and payload
  voted,             \* the payload a node has voted for in each instance, or None
  sourceMsg,         \* the payload a handler is working on
  proposing,         \* the instance of the PROPOSE handler at work, or None
  voting,            \* the VOTE whose handler is at work, or None
  reported           \* the node has logged its result

voteVars == <<deltaVoteList, votes, voting, reported>>
proposeVars == <<deltaProposeList, voted, proposing>>
vars == <<submitted, net, voteVars, proposeVars, deltaTotalEpoch, sourceMsg>>

\* InitDelta
Init ==
  /\ submitted = [r \in Relay |-> {}]
  /\ net = [b \in Correct |-> {}]
  /\ deltaProposeList = [b \in Correct |-> {}]
  /\ deltaVoteList = [b \in Correct |-> {}]
  /\ deltaTotalEpoch = [b \in Correct |-> 0]
  /\ votes = [b \in Correct |-> [k \in Instance \X Value |-> {}]]
  /\ voted = [b \in Correct |-> [i \in Instance |-> None]]
  /\ sourceMsg = [b \in Correct |-> None]
  /\ proposing = [b \in Correct |-> None]
  /\ voting = [b \in Correct |-> None]
  /\ reported = [b \in Correct |-> FALSE]

\* An instance whose PROPOSE was handled, and one that was counted: every other
\* such message is ignored, and not kept in net.
Handled(b, i) == i \in deltaProposeList[b]

Ignored(b, m) ==
  IF m.type = "PROPOSE" THEN Handled(b, m.inst) ELSE m.inst \in deltaVoteList[b]

\* b receives the messages got, every node is sent the messages new:
\* MACBroadcast reaches both groups in this mode, and the sender.
Transmit(b, got, new) ==
  net' = [c \in Correct |->
            {m \in (net[c] \ (IF c = b THEN got ELSE {})) \cup new : ~Ignored(c, m)'}]

\* A message that b can be given next: one in flight, or any a faulty node
\* makes up.
Receivable(b, m) == (m \in net[b] \/ m \in Forged) /\ ~Ignored(b, m)

(***************************************************************************)
(* Proposals                                                               *)
(***************************************************************************)

\* SendDeltaPropose, under proposeLock
SendDeltaPropose(r, v) ==
  /\ v \notin submitted[r]
  /\ proposing[r] = None
  /\ submitted' = [submitted EXCEPT ![r] = @ \cup {v}]
  /\ deltaTotalEpoch' = [deltaTotalEpoch EXCEPT ![r] = NumReq[v]]
  /\ UNCHANGED <<voteVars, proposeVars, sourceMsg>>
  /\ Transmit(None, {}, {Msg("PROPOSE", r, i, v) : i \in 0 .. (NumReq[v] - 1)})

\* HandleDeltaPropose marks the instance, sets sourceMsg, takes the total from
\* the message if it has none ...
HandleDeltaPropose(b, m) ==
  /\ m.type = "PROPOSE"
  /\ Receivable(b, m)
  /\ proposing[b] = None
  /\ deltaProposeList' = [deltaProposeList EXCEPT ![b] = @ \cup {m.inst}]
  /\ sourceMsg' = [sourceMsg EXCEPT ![b] = m.val]
  /\ deltaTotalEpoch' = [deltaTotalEpoch EXCEPT ![b] = IF @ = 0 THEN NumReq[m.val] ELSE @]
  /\ proposing' = [proposing EXCEPT ![b] = m.inst]
  /\ UNCHANGED <<submitted, voteVars, voted>>
  /\ Transmit(b, {m}, {})

\* ... and SendDeltaVote broadcasts a vote for what sourceMsg is now.
SendDeltaVote(b) ==
  /\ proposing[b] # None
  /\ voted' = [voted EXCEPT ![b][proposing[b]] = sourceMsg[b]]
  /\ proposing' = [proposing EXCEPT ![b] = None]
  /\ UNCHANGED <<submitted, voteVars, deltaProposeList, deltaTotalEpoch, sourceMsg>>
  /\ Transmit(b, {}, {Msg("VOTE", b, proposing[b], sourceMsg[b])})

(***************************************************************************)
(* Votes                                                                   *)
(***************************************************************************)

\* HandleDeltaVote returns early for an instance that was counted.  Otherwise
\* it sets sourceMsg ...
HandleDeltaVote(b, m) ==
  /\ m.type = "VOTE"
  /\ Receivable(b, m)
  /\ voting[b] = None
  /\ voting' = [voting EXCEPT ![b] = m]
  /\ sourceMsg' = [sourceMsg EXCEPT ![b] = m.val]
  /\ UNCHANGED <<submitted, deltaVoteList, votes, reported, proposeVars, deltaTotalEpoch>>
  /\ Transmit(b, {m}, {})

\* ... and counts the vote for what sourceMsg is now.  With f + 1 votes the
\* instance is counted, and StartBA reports when the total is reached.
CountVote(b) ==
  LET m == voting[b]
      k == <<m.inst, sourceMsg[b]>>
      senders == votes[b][k] \cup {m.from}
      counted == deltaVoteList[b] \cup {m.inst}
      enough == Cardinality(senders) >= SmallQuorum
  IN
  /\ m # None
  /\ voting' = [voting EXCEPT ![b] = None]
  /\ votes' = [votes EXCEPT ![b][k] = senders]
  /\ \/ /\ enough
        /\ deltaVoteList' = [deltaVoteList EXCEPT ![b] = counted]
        /\ reported' = [reported EXCEPT
                          ![b] = @ \/ Cardinality(counted) = deltaTotalEpoch[b]]
     \/ /\ ~enough
        /\ UNCHANGED <<deltaVoteList, reported>>
  /\ UNCHANGED <<submitted, proposeVars, deltaTotalEpoch, sourceMsg>>
  /\ Transmit(b, {}, {})

(***************************************************************************)
(* The specification                                                       *)
(***************************************************************************)

HandleDeltaMsg(b, m) == HandleDeltaPropose(b, m) \/ HandleDeltaVote(b, m)

Next ==
  \/ \E r \in Relay, v \in Request : SendDeltaPropose(r, v)
  \/ \E b \in Correct, m \in Message : HandleDeltaMsg(b, m)
  \/ \E b \in Correct : SendDeltaVote(b) \/ CountVote(b)

Spec == Init /\ [][Next]_vars

(***************************************************************************)
(* Properties                                                              *)
(***************************************************************************)

\* Every variable has the type its declaration in the source says.
TypeOK ==
  /\ submitted \in [Relay -> SUBSET Request]
  /\ net \in [Correct -> SUBSET Message]
  /\ deltaProposeList \in [Correct -> SUBSET Instance]
  /\ deltaVoteList \in [Correct -> SUBSET Instance]
  /\ deltaTotalEpoch \in [Correct -> Nat]
  /\ votes \in [Correct -> [Instance \X Value -> SUBSET Node]]
  /\ voted \in [Correct -> [Instance -> Value \cup {None}]]
  /\ sourceMsg \in [Correct -> Value \cup {None}]
  /\ proposing \in [Correct -> Instance \cup {None}]
  /\ voting \in [Correct -> Message \cup {None}]
  /\ reported \in [Correct -> BOOLEAN]

\* The faulty nodes that may send a vote.
Forgers == {m.from : m \in {k \in Forged : k.type = "VOTE"}}

\* A node counts an instance only when f + 1 nodes have voted in it, so that one
\* of them runs this code, whatever the faulty nodes send and whichever
\* handlers share sourceMsg.
InstanceVoted ==
  \A b \in Correct, i \in Instance : i \in deltaVoteList[b] =>
    Cardinality({c \in Correct : voted[c][i] # None} \cup Forgers)
      >= SQuorumSize(Cardinality(Node))

\* Nothing is left to do: every request is proposed, every message handled.
Done ==
  /\ submitted = [r \in Relay |-> Request]
  /\ \A b \in Correct : net[b] = {} /\ proposing[b] = None /\ voting[b] = None

\* Then every node has counted every instance, whatever the faulty nodes propose
\* and vote for, and though a proposal may come between the two halves of the
\* handling of a vote and have it counted for another payload.
DoneCounted ==
  Done => \A b \in Correct, v \in Request, i \in Instance :
            i < NumReq[v] => i \in deltaVoteList[b]
=============================================================================
