------------------------------ MODULE SigGroup ------------------------------
(***************************************************************************)
(* Mode CrossSigGroup: node 0 of group A sends every instance of a request *)
(* to group B (CROSS), collects the answers of its nodes (REP), and tells  *)
(* group B which instances enough of them hold (CONFIRM).  Each node of B  *)
(* stores the confirmed instances in their order, and when it has all of   *)
(* them node 4 proposes them to HotStuff.                                  *)
(* Sources: consensus/CrossSigGroup.go, communication/sender/sender.go,    *)
(* quorum/quorum.go.                                                       *)
(*                                                                         *)
(* Every message is handled by a goroutine of its own, so handlers run     *)
(* concurrently.  HandleGroupRep is two actions, as it reads confirmTag    *)
(* and sets it later.  HandleGroupCross and HandleGroupConfirm are one     *)
(* action each: each reads or writes msg_local once.  ConfirmStatusMonitor *)
(* works under the mutex that HandleGroupConfirm appends under.            *)
(*                                                                         *)
(* Nodes of B may be silent, and messages are lost with them.  No node     *)
(* lies: the handlers check neither the sender nor the MAC of a message.   *)
(***************************************************************************)
EXTENDS QuorumSizes, Sequences, FiniteSets

CONSTANTS
  B,         \* the nodes of group B
  Correct,   \* those of B that run this code and stay up; the rest is silent
  Proposer,  \* node 4
  Request,   \* the payloads node 0 is given
  NumReq,    \* the number of instances a request asks for (field R)
  None       \* no payload: msg_local before the first CROSS

ASSUME Groups ==
  /\ IsFiniteSet(B) /\ Correct \subseteq B
  /\ NumReq \in [Request -> Nat \ {0}]
  /\ None \notin Request

Epoch == UNION {0 .. (NumReq[v] - 1) : v \in Request}

\* The variants named ...Variant are mistakes the code could have made; runs
\* are repeated with them to show that the properties notice.  This one takes
\* one REP less for enough.
BQuorumVariant == SigGroupBQuorum(Cardinality(B)) - 1
BQuorum == SigGroupBQuorum(Cardinality(B))

\* CROSS and CONFIRM go to the nodes of B, REP goes to node 0.  CONFIRM goes to
\* group A as well, where no CROSS is handled and no hash fits that of msg_local.
Message == [type : {"CROSS", "CONFIRM"}, node : B, R : Epoch, val : Request]
             \cup [type : {"REP"}, node : B, R : Epoch, val : Request]

Msg(t, b, e, v) == [type |-> t, node |-> b, R |-> e, val |-> v]

VARIABLES
  started,         \* the requests node 0 has sent as CROSS
  net,             \* the messages on their way; node is the one of B concerned
  votes,           \* quorum.buffer of node 0: REP senders by epoch and payload
  confirmTag,      \* the epochs node 0 has confirmed
  checking,        \* HandleGroupRep between reading confirmTag and the quorum check
  msgLocal,        \* msg_local: the payload of the last CROSS handled
  reqNum,          \* field E of the last CROSS handled
  awaitingEpochs,  \* confirmed and not yet stored, sorted and without duplicates
  awaitingEpochsMap,
  confirmedEpoch,  \* the next epoch to store
  groupCrossList,  \* the payload stored for each epoch, or None
  ended,           \* ConfirmStatusMonitor has returned
  proposed         \* the heights StartHotStuff was called with on node 4

leaderVars  == <<started, votes, confirmTag, checking>>
handlerVars == <<msgLocal, reqNum>>
awaitVars   == <<awaitingEpochs, awaitingEpochsMap>>
monitorVars == <<confirmedEpoch, groupCrossList, ended, proposed>>
vars == <<net, leaderVars, handlerVars, awaitVars, monitorVars>>

\* InitGroupSig
Init ==
  /\ started = {} /\ net = {}
  /\ votes = [k \in Epoch \X Request |-> {}]
  /\ confirmTag = {} /\ checking = {}
  /\ msgLocal = [b \in Correct |-> None]
  /\ reqNum = [b \in Correct |-> 0]
  /\ awaitingEpochs = [b \in Correct |-> {}]
  /\ awaitingEpochsMap = [b \in Correct |-> {}]
  /\ confirmedEpoch = [b \in Correct |-> 0]
  /\ groupCrossList = [b \in Correct |-> [e \in Epoch |-> None]]
  /\ ended = [b \in Correct |-> FALSE]
  /\ proposed = <<>>

(***************************************************************************)
(* Node 0                                                                  *)
(***************************************************************************)

\* StartSigCross: SendGroupCrossMessage sends every instance to group B.
StartSigCross(v) ==
  /\ v \notin started
  /\ started' = started \cup {v}
  /\ net' = net \cup {Msg("CROSS", b, e, v) : b \in Correct, e \in 0 .. (NumReq[v] - 1)}
  /\ UNCHANGED <<votes, confirmTag, checking, handlerVars, awaitVars, monitorVars>>

\* HandleGroupRep counts the REP and reads confirmTag ...
HandleGroupRep(m) ==
  /\ m.type = "REP" /\ m \in net
  /\ net' = net \ {m}
  /\ votes' = [votes EXCEPT ![<<m.R, m.val>>] = @ \cup {m.node}]
  /\ checking' = checking \cup {[rep |-> m, cflag |-> m.R \in confirmTag]}
  /\ UNCHANGED <<started, confirmTag, handlerVars, awaitVars, monitorVars>>

\* ... and then confirms the epoch, if the REPs are enough and the tag it read
\* was not set.
MayConfirm(c) ==
  Cardinality(votes[<<c.rep.R, c.rep.val>>]) >= BQuorum /\ ~c.cflag

CheckGroupRep(c) ==
  LET e == c.rep.R
  IN
  /\ c \in checking
  /\ checking' = checking \ {c}
  /\ \/ /\ MayConfirm(c)
        /\ confirmTag' = confirmTag \cup {e}
        /\ net' = net \cup {Msg("CONFIRM", b, e, c.rep.val) : b \in Correct}
     \/ /\ ~MayConfirm(c)
        /\ UNCHANGED <<confirmTag, net>>
  /\ UNCHANGED <<started, votes, handlerVars, awaitVars, monitorVars>>

(***************************************************************************)
(* Group B                                                                 *)
(***************************************************************************)

\* HandleGroupCross remembers the payload and answers with its hash.
HandleGroupCross(m) ==
  /\ m.type = "CROSS" /\ m \in net
  /\ msgLocal' = [msgLocal EXCEPT ![m.node] = m.val]
  /\ reqNum' = [reqNum EXCEPT ![m.node] = NumReq[m.val]]
  /\ net' = (net \ {m}) \cup {Msg("REP", m.node, m.R, m.val)}
  /\ UNCHANGED <<leaderVars, awaitVars, monitorVars>>

\* HandleGroupConfirm queues an epoch that is not queued, if the hash is that
\* of the payload this node remembers; otherwise the CONFIRM has no effect.
Queued(b, e) == e \in awaitingEpochsMap[b]

HandleGroupConfirm(m) ==
  LET b == m.node
  IN
  /\ m.type = "CONFIRM" /\ m \in net
  /\ net' = net \ {m}
  /\ \/ /\ msgLocal[b] = m.val /\ ~Queued(b, m.R)
        /\ awaitingEpochs' = [awaitingEpochs EXCEPT ![b] = @ \cup {m.R}]
        /\ awaitingEpochsMap' = [awaitingEpochsMap EXCEPT ![b] = @ \cup {m.R}]
     \/ /\ msgLocal[b] # m.val \/ Queued(b, m.R)
        /\ UNCHANGED awaitVars
  /\ UNCHANGED <<leaderVars, handlerVars, monitorVars>>

\* The epochs that ConfirmStatusMonitor drops, as they were stored before: a
\* CONFIRM that was sent twice.  The variant keeps them, at the head of the list.
StaleVariant(b) == {}
Stale(b) == {e \in awaitingEpochs[b] : e < confirmedEpoch[b]}

\* Epoch e is the head of awaitingEpochs when the stale ones are gone.
AtHead(b, e) ==
  /\ e \in awaitingEpochs[b] \ Stale(b)
  /\ \A d \in awaitingEpochs[b] \ Stale(b) : e <= d

\* GetLen of the list after the payload of epoch e is stored.  The variant
\* counts it twice.
StoredVariant(b, e) == Cardinality({d \in Epoch : groupCrossList[b][d] # None}) + 2
Stored(b, e) == Cardinality({d \in Epoch : groupCrossList[b][d] # None} \cup {e})

\* One turn of ConfirmStatusMonitor that finds the next epoch confirmed.  With
\* the last one it returns, and node 4 proposes a block for each height.
StoreEpoch(b) ==
  LET e == confirmedEpoch[b]
      last == Stored(b, e) = reqNum[b]
  IN
  /\ ~ended[b]
  /\ AtHead(b, e)
  /\ awaitingEpochs' = [awaitingEpochs EXCEPT ![b] = (@ \ Stale(b)) \ {e}]
  /\ awaitingEpochsMap' = [awaitingEpochsMap EXCEPT ![b] = @ \ {e}]
  /\ groupCrossList' = [groupCrossList EXCEPT ![b][e] = msgLocal[b]]
  /\ confirmedEpoch' = [confirmedEpoch EXCEPT ![b] = @ + 1]
  /\ \/ /\ last
        /\ ended' = [ended EXCEPT ![b] = TRUE]
        /\ proposed' = IF b = Proposer
                         THEN proposed \o [i \in 1 .. Stored(b, e) |->
                                             [height |-> i, val |-> msgLocal[b]]]
                         ELSE proposed
     \/ /\ ~last
        /\ UNCHANGED <<ended, proposed>>
  /\ UNCHANGED <<net, leaderVars, handlerVars>>

\* One that only drops stale epochs, and waits.
DropStale(b) ==
  /\ ~ended[b]
  /\ Stale(b) # {}
  /\ ~AtHead(b, confirmedEpoch[b])
  /\ awaitingEpochs' = [awaitingEpochs EXCEPT ![b] = @ \ Stale(b)]
  /\ UNCHANGED <<net, leaderVars, handlerVars, awaitingEpochsMap, monitorVars>>

(***************************************************************************)
(* The specification                                                       *)
(***************************************************************************)

HandleGroupSigMessage(m) ==
  HandleGroupCross(m) \/ HandleGroupRep(m) \/ HandleGroupConfirm(m)

ConfirmStatusMonitor(b) == StoreEpoch(b) \/ DropStale(b)

Next ==
  \/ \E v \in Request : StartSigCross(v)
  \/ \E m \in net : HandleGroupSigMessage(m)
  \/ \E c \in checking : CheckGroupRep(c)
  \/ \E b \in Correct : ConfirmStatusMonitor(b)

Spec == Init /\ [][Next]_vars

\* Node 0 processes its requests, goroutines run to their end, nothing sent
\* between nodes that run this code is lost, and a monitor that was signalled
\* goes on.
FairSpec ==
  /\ Spec
  /\ \A v \in Request : WF_vars(StartSigCross(v))
  /\ WF_vars(\E m \in net : HandleGroupSigMessage(m))
  /\ WF_vars(\E c \in checking : CheckGroupRep(c))
  /\ \A b \in Correct : WF_vars(ConfirmStatusMonitor(b))

(***************************************************************************)
(* Properties                                                              *)
(***************************************************************************)

\* Every variable has the type its declaration in the source says.
TypeOK ==
  /\ started \subseteq Request
  /\ net \subseteq Message
  /\ votes \in [Epoch \X Request -> SUBSET Correct]
  /\ confirmTag \subseteq Epoch
  /\ checking \subseteq [rep : Message, cflag : BOOLEAN]
  /\ msgLocal \in [Correct -> Request \cup {None}]
  /\ reqNum \in [Correct -> Nat]
  /\ awaitingEpochs \in [Correct -> SUBSET Epoch]
  /\ awaitingEpochsMap \in [Correct -> SUBSET Epoch]
  /\ confirmedEpoch \in [Correct -> Nat]
  /\ groupCrossList \in [Correct -> [Epoch -> Request \cup {None}]]
  /\ ended \in [Correct -> BOOLEAN]
  /\ proposed \in Seq([height : Nat, val : Request])

\* Node b has handled the CROSS of epoch e for the request v.
Holds(b, e, v) ==
  v \in started /\ e < NumReq[v] /\ Msg("CROSS", b, e, v) \notin net

\* Enough nodes of group B hold the request v for epoch e.
Witnessed(e, v) ==
  Cardinality({b \in Correct : Holds(b, e, v)}) >= SigGroupBQuorum(Cardinality(B))

\* A node stores an epoch only when a quorum of group B holds it for one
\* request, in whatever order the answers, the two halves of HandleGroupRep
\* and the confirmations come.
StoredWitnessed ==
  \A b \in Correct, e \in Epoch :
    groupCrossList[b][e] # None => \E v \in Request : Witnessed(e, v)

\* Node 4 starts HotStuff only when a quorum of group B holds every instance
\* of the request, and proposes each height once, from 1 upwards.
ProposedWitnessed ==
  proposed # <<>> =>
    \E w \in Request :
      /\ Len(proposed) = NumReq[w]
      /\ \A i \in DOMAIN proposed :
           /\ proposed[i].height = i
           /\ \E v \in Request : Witnessed(i - 1, v)

\* A node that has accepted the confirmation of every epoch stores them all and
\* ends its monitor, in whatever order and however often they were confirmed.
Accepted(b) == \A e \in Epoch : e \in awaitingEpochs[b] \/ groupCrossList[b][e] # None

AcceptedEnds == \A b \in Correct : Accepted(b) ~> ended[b]
=============================================================================
