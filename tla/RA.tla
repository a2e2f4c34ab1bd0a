--------------------------------- MODULE RA ---------------------------------
(***************************************************************************)
(* Mode CrossRA: group A relays client requests to group B with CROSS      *)
(* messages, and group B runs one reliable broadcast per instance          *)
(* (SEND, ECHO, READY) on the request it has enough CROSS votes for.       *)
(* Sources: broadcast/ra/rbc.go, broadcast/ra/handler.go, quorum/*.go,     *)
(* utils/set.go (EpochMsgQueue).                                           *)
(*                                                                         *)
(* A node of group B runs two goroutines that change state: the one that   *)
(* takes messages out of messageBuffer and runs their handlers one after   *)
(* the other, and the one that pops crossMsgQueue and calls StartRBC.  A   *)
(* handler is one action.  StartRBC is two, because it broadcasts SEND     *)
(* before it marks the instance STATUS_CROSS, and a handler may run        *)
(* between the two.                                                        *)
(*                                                                         *)
(* Messages travel as one gRPC call each, made by a goroutine of its own   *)
(* and never retried: they arrive in any order, and one that is lost is    *)
(* one that is never handled.  A READY that its sender repeats while the   *)
(* first copy is still in flight is merged with it.                        *)
(*                                                                         *)
(* The handlers look neither at the group of a sender nor at whether the   *)
(* hash of an ECHO or a READY fits its instance: a faulty node of either   *)
(* group may send any kind of message, and the hash is a field of its own. *)
(***************************************************************************)
EXTENDS QuorumSizes, Sequences, FiniteSets

CONSTANTS
  A,         \* the nodes of group A (shard 0)
  Relay,     \* those of A that run this code and stay up
  B,         \* the nodes of group B (shard 1)
  Correct,   \* those of B that run this code and stay up
  Forged,    \* what the faulty nodes of both groups may send, to whom and as
             \* often as they like; all other nodes are silent
  Value,     \* request payloads; hashes are injective, so a hash is its value
  Request,   \* those of Value that clients submit
  NumReq,    \* the number of instances a request asks for (field R)
  None       \* "no instance"

Instance == UNION {0 .. (NumReq[v] - 1) : v \in Value}

\* What an ECHO or a READY is counted under: GenInstanceHash of an instance and
\* a payload.  One that fits nothing is that of a payload nobody submits.
Hash == Instance \X Value

\* A MAC names its sender; nothing else in a message is checked.  The Round of a
\* CROSS is that of some request.
Message ==
  [type : {"CROSS"}, from : A \cup B, inst : Instance, val : Value,
   round : {NumReq[v] : v \in Value}]
    \cup [type : {"SEND"}, from : A \cup B, inst : Instance, val : Value]
    \cup [type : {"ECHO", "READY"}, from : A \cup B, inst : Instance, hash : Hash]

\* What SendCross, StartRBC, HandleSend and SendReady send.
CrossMsg(a, i, v) ==
  [type |-> "CROSS", from |-> a, inst |-> i, val |-> v, round |-> NumReq[v]]
SendMsg(b, i, v)  == [type |-> "SEND", from |-> b, inst |-> i, val |-> v]
EchoMsg(b, i, v)  == [type |-> "ECHO", from |-> b, inst |-> i, hash |-> <<i, v>>]
ReadyMsg(b, i, h) == [type |-> "READY", from |-> b, inst |-> i, hash |-> h]

Faulty == {m.from : m \in Forged}

\* The constants are two finite groups without a common node, and each request
\* asks for at least one instance.
ASSUME Groups ==
  /\ A \cap B = {}
  /\ IsFiniteSet(A) /\ Relay \subseteq A
  /\ IsFiniteSet(B) /\ Correct \subseteq B
  /\ Forged \subseteq Message /\ Faulty \cap (Relay \cup Correct) = {}
  /\ Request \subseteq Value /\ NumReq \in [Value -> Nat \ {0}]
  /\ None \notin Nat

\* The faults that the two thresholds of group B leave room for.  At most
\* t = (|A| - 1) / 3 nodes of both groups together are faulty, since a CROSS is
\* counted whichever group it comes from, and A is no smaller than the 4 that
\* StartQuorum takes it to be.  Of the f = (|B| - 1) / 3 faults that quorums of
\* ECHOs bear, a node of A uses up two: it votes in B and takes no place there.
ASSUME FaultBounds ==
  /\ Cardinality(A) >= 4 /\ Cardinality(Faulty) < CrossSmallQuorum(Cardinality(A))
  /\ Cardinality(B) >= 1
  /\ Cardinality(Faulty \cap B) + 2 * Cardinality(Faulty \cap A) <= FSize(Cardinality(B))

\* The thresholds of a group B node: InitRBC calls StartQuorum with the
\* number of all replicas, and quorum.go reads the size of A from the
\* configuration for the CROSS votes.
GroupB      == GroupBByStartQuorum(Cardinality(A) + Cardinality(B))
QuorumVariant == QuorumSize(GroupB) - 1
CrossQuorumVariant == CrossSmallQuorum(Cardinality(A)) - 1
CrossQuorumVariant2 == CrossSmallQuorum(Cardinality(A)) + 1
Quorum      == QuorumSize(GroupB)
SmallQuorum == SQuorumSize(GroupB)
CrossQuorum == CrossSmallQuorum(Cardinality(A))

\* RBCStatus.  STATUS_READY is left in the step that sets it, as HandleReady
\* calls Deliver at once.
IDLE    == 0
CROSS   == 1
SEND    == 2
ECHO    == 3
DELIVER == 5
RBCStatus == {IDLE, CROSS, SEND, ECHO, DELIVER}

VARIABLES
  crossSent,         \* the requests each A node has relayed
  msgs,              \* every message a node that runs this code has broadcast
  net,               \* the messages still on their way to each B node
  buffer,            \* quorum.buffer: CROSS votes by instance and request
  bufferc,           \* quorum.bufferc: ECHO senders by instance and hash
  bufferd,           \* quorum.bufferd: READY senders by instance and hash
  crossMsgQueue,     \* EpochMsgQueue.m
  order,             \* EpochMsgQueue.order: instances ever queued
  starting,          \* the instance StartRBC has broadcast but not yet marked
  GlobalTotalEpoch,  \* Round of the last CROSS handled
  tEpoch,            \* GlobalTotalEpoch as StartRBC last read it
  epochStatus,       \* status of each instance
  delivered,         \* deliveredEpochMap
  xDelivered         \* all instances delivered

queueVars == <<buffer, crossMsgQueue, order, GlobalTotalEpoch>>
startVars == <<starting, tEpoch>>
rbcVars   == <<bufferc, bufferd, epochStatus, delivered, xDelivered>>
vars == <<crossSent, msgs, net, queueVars, startVars, rbcVars>>

Init ==
  /\ crossSent = [a \in Relay |-> {}]
  /\ msgs = {}
  /\ net = [b \in Correct |-> {}]
  /\ buffer = [b \in Correct |-> [k \in Instance \X Value |-> {}]]
  /\ bufferc = [b \in Correct |-> [h \in Hash |-> {}]]
  /\ bufferd = [b \in Correct |-> [h \in Hash |-> {}]]
  /\ crossMsgQueue = [b \in Correct |-> <<>>]
  /\ order = [b \in Correct |-> {}]
  /\ starting = [b \in Correct |-> None]
  /\ GlobalTotalEpoch = [b \in Correct |-> 0]
  /\ tEpoch = [b \in Correct |-> 0]
  /\ epochStatus = [b \in Correct |-> [i \in Instance |-> IDLE]]
  /\ delivered = [b \in Correct |-> {}]
  /\ xDelivered = [b \in Correct |-> FALSE]

(***************************************************************************)
(* The guards of the handlers.  The variants named ...Variant are mistakes *)
(* the code could have made; runs are repeated with them to show that the  *)
(* properties notice.                                                      *)
(***************************************************************************)

\* EpochMsgQueue.AddItem skips an instance it was ever given.  The variant
\* skips only one that is waiting in the queue.
QueuedVariant(b, i) == \E j \in DOMAIN crossMsgQueue[b] : crossMsgQueue[b][j][1] = i
Queued(b, i) == i \in order[b]

\* The tag of a vote covers instance and payload.  The variant's covers the
\* instance alone.
VotesVariant(b, k) == UNION {buffer[b][<<k[1], v>>] : v \in Value}
Votes(b, k) == buffer[b][k]

\* StartRBC's total.
Total(b) == GlobalTotalEpoch[b]

\* HandleSend echoes in status CROSS only.  The variant does so before, too.
MayEchoVariant(b, i) == epochStatus[b][i] < SEND
MayEcho(b, i) == epochStatus[b][i] = CROSS

\* A quorum of ECHOs for the hash h: CheckQuorum(hash, CM).
EchoQuorum(b, h) == Cardinality(bufferc[b][h]) >= Quorum

\* What HandleReady delivers on: the status of the instance of a READY, and the
\* ECHOs for its hash.  The variant wants one ECHO too many.
CanDeliverVariant(b, i, h) ==
  Cardinality(bufferc[b][h]) > Quorum /\ epochStatus[b][i] = ECHO
CanDeliver(b, i, h) == EchoQuorum(b, h) /\ epochStatus[b][i] = ECHO

(***************************************************************************)
(* The network                                                             *)
(***************************************************************************)

\* All requests ask for the same number of instances.
OneTotal == \A v, w \in Value : NumReq[v] = NumReq[w]

\* A message whose handler, now and from now on, returns early or only adds
\* to a buffer that nobody reads any more: it is not kept in net.  (The CROSS
\* of an instance already queued also sets GlobalTotalEpoch, to what it is.)
Ignored(b, m) ==
  LET status == epochStatus[b][m.inst]
  IN  CASE m.type = "CROSS" -> Queued(b, m.inst) /\ OneTotal
        [] m.type = "SEND"  -> status >= SEND
        [] m.type = "ECHO"  -> /\ status >= ECHO
                               /\ \/ EchoQuorum(b, m.hash)
                                  \/ \A i \in Instance : epochStatus[b][i] > ECHO
        [] m.type = "READY" -> status > ECHO

\* b receives the messages got, every node of B is sent the messages new.
\* MACBroadcast reaches the sender too.
Transmit(b, got, new) ==
  /\ msgs' = msgs \cup new
  /\ net' = [c \in Correct |->
               {m \in (net[c] \ (IF c = b THEN got ELSE {})) \cup new : ~Ignored(c, m)'}]

\* A message that b can be given next: one in flight, or any a faulty node makes up.
Receivable(b, m) == m \in net[b] \/ (m \in Forged /\ ~Ignored(b, m))

(***************************************************************************)
(* Group A                                                                 *)
(***************************************************************************)

\* RequestMonitor hands a request of the queue to StartCrossBA, whose
\* SendCross broadcasts it once for each instance.
SendCross(a, v) ==
  /\ v \notin crossSent[a]
  /\ crossSent' = [crossSent EXCEPT ![a] = @ \cup {v}]
  /\ UNCHANGED <<queueVars, startVars, rbcVars>>
  /\ Transmit(None, {}, {CrossMsg(a, i, v) : i \in 0 .. (NumReq[v] - 1)})

(***************************************************************************)
(* Group B: collecting CROSS votes                                         *)
(***************************************************************************)

\* A vote counts for the pair of instance and payload; with t + 1 votes the
\* pair is queued, unless the instance ever was.
HandleCross(b, m) ==
  LET k == <<m.inst, m.val>>
      votes == Votes(b, k) \cup {m.from}
      enqueue == Cardinality(votes) >= CrossQuorum /\ ~Queued(b, m.inst)
  IN
  /\ m.type = "CROSS"
  /\ Receivable(b, m)
  /\ buffer' = [buffer EXCEPT ![b][k] = votes]
  /\ GlobalTotalEpoch' = [GlobalTotalEpoch EXCEPT ![b] = m.round]
  /\ \/ /\ enqueue
        /\ crossMsgQueue' = [crossMsgQueue EXCEPT ![b] = Append(@, k)]
        /\ order' = [order EXCEPT ![b] = @ \cup {m.inst}]
     \/ /\ ~enqueue
        /\ UNCHANGED <<crossMsgQueue, order>>
  /\ UNCHANGED <<crossSent, startVars, rbcVars>>
  /\ Transmit(b, {m}, {})

\* ReadyStartRBC pops the queue and StartRBC reads the total and broadcasts SEND ...
StartRBC(b) ==
  LET k == Head(crossMsgQueue[b])
  IN
  /\ starting[b] = None
  /\ crossMsgQueue[b] # <<>>
  /\ crossMsgQueue' = [crossMsgQueue EXCEPT ![b] = Tail(@)]
  /\ tEpoch' = [tEpoch EXCEPT ![b] = Total(b)]
  /\ starting' = [starting EXCEPT ![b] = k[1]]
  /\ UNCHANGED <<crossSent, buffer, order, GlobalTotalEpoch, rbcVars>>
  /\ Transmit(b, {}, {SendMsg(b, k[1], k[2])})

\* ... and only then marks the instance as started.
MarkCross(b) ==
  /\ starting[b] # None
  /\ epochStatus' = [epochStatus EXCEPT ![b][starting[b]] = CROSS]
  /\ starting' = [starting EXCEPT ![b] = None]
  /\ UNCHANGED <<crossSent, msgs, net, queueVars, tEpoch,
                 bufferc, bufferd, delivered, xDelivered>>

(***************************************************************************)
(* Group B: the reliable broadcast of one instance                         *)
(***************************************************************************)

\* The first SEND handled while the status is CROSS is echoed, whoever sent
\* it; one handled before the instance was marked has no effect.
HandleSend(b, m) ==
  /\ m.type = "SEND"
  /\ Receivable(b, m)
  /\ epochStatus[b][m.inst] < SEND
  /\ \/ /\ MayEcho(b, m.inst)
        /\ epochStatus' = [epochStatus EXCEPT ![b][m.inst] = SEND]
        /\ UNCHANGED <<crossSent, queueVars, startVars, bufferc, bufferd,
                       delivered, xDelivered>>
        /\ Transmit(b, {m}, {EchoMsg(b, m.inst, m.val)})
     \/ /\ ~MayEcho(b, m.inst)
        /\ UNCHANGED <<crossSent, queueVars, startVars, rbcVars>>
        /\ Transmit(b, {m}, {})

\* An ECHO is counted under its hash in any status; the quorum moves the
\* instance of this ECHO to status ECHO only from SEND, and then READY goes out
\* with the hash of this ECHO.
HandleEcho(b, m) ==
  LET echoes == bufferc[b][m.hash] \cup {m.from}
      advance == Cardinality(echoes) >= Quorum /\ epochStatus[b][m.inst] = SEND
  IN
  /\ m.type = "ECHO"
  /\ Receivable(b, m)
  /\ bufferc' = [bufferc EXCEPT ![b][m.hash] = echoes]
  /\ UNCHANGED <<crossSent, queueVars, startVars, bufferd, delivered, xDelivered>>
  /\ \/ /\ advance
        /\ epochStatus' = [epochStatus EXCEPT ![b][m.inst] = ECHO]
        /\ Transmit(b, {m}, {ReadyMsg(b, m.inst, m.hash)})
     \/ /\ ~advance
        /\ UNCHANGED epochStatus
        /\ Transmit(b, {m}, {})

\* The variant stops at STATUS_READY.
DeliverVariant(b, i) ==
  /\ epochStatus' = [epochStatus EXCEPT ![b][i] = 4]
  /\ UNCHANGED <<delivered, xDelivered>>

\* The instance joins deliveredEpochMap, and the whole run is done when as
\* many instances are delivered as tEpoch says.
Deliver(b, i) ==
  /\ epochStatus' = [epochStatus EXCEPT ![b][i] = DELIVER]
  /\ delivered' = [delivered EXCEPT ![b] = @ \cup {i}]
  /\ xDelivered' = [xDelivered EXCEPT
                      ![b] = @ \/ Cardinality(delivered[b] \cup {i}) = tEpoch[b]]

\* f + 1 READYs for a hash make a node in SEND broadcast READY and stay in SEND;
\* any READY makes a node in ECHO deliver the instance of the READY if the ECHOs
\* for its hash are a quorum.
HandleReady(b, m) ==
  LET readies == bufferd[b][m.hash] \cup {m.from}
      status == epochStatus[b][m.inst]
      amplify == Cardinality(readies) >= SmallQuorum /\ status = SEND
      deliver == CanDeliver(b, m.inst, m.hash)
  IN
  /\ m.type = "READY"
  /\ Receivable(b, m)
  /\ status <= ECHO
  /\ bufferd' = [bufferd EXCEPT ![b][m.hash] = readies]
  /\ UNCHANGED <<crossSent, queueVars, startVars, bufferc>>
  /\ \/ /\ amplify
        /\ UNCHANGED <<epochStatus, delivered, xDelivered>>
        /\ Transmit(b, {m}, {ReadyMsg(b, m.inst, m.hash)})
     \/ /\ deliver
        /\ Deliver(b, m.inst)
        /\ Transmit(b, {m}, {})
     \/ /\ ~amplify /\ ~deliver
        /\ UNCHANGED <<epochStatus, delivered, xDelivered>>
        /\ Transmit(b, {m}, {})

(***************************************************************************)
(* The specification                                                       *)
(***************************************************************************)

\* BatchProcessMessages dispatches one message to its handler.
Handle(b, m) ==
  \/ HandleCross(b, m)
  \/ HandleSend(b, m)
  \/ HandleEcho(b, m)
  \/ HandleReady(b, m)

Next ==
  \/ \E a \in Relay, v \in Request : SendCross(a, v)
  \/ \E b \in Correct : StartRBC(b) \/ MarkCross(b)
  \/ \E b \in Correct : \E m \in net[b] \cup Forged : Handle(b, m)

Spec == Init /\ [][Next]_vars

\* The relays process their requests, ReadyStartRBC and BatchProcessMessages
\* loop forever, and nothing sent between nodes that run this code is lost.  A
\* batch is handled in order, so no message waits for ever behind others.
FairSpec ==
  /\ Spec
  /\ \A a \in Relay, v \in Request : WF_vars(SendCross(a, v))
  /\ \A b \in Correct : WF_vars(StartRBC(b)) /\ WF_vars(MarkCross(b))
  /\ \A b \in Correct, m \in Message : WF_vars(m \in net[b] /\ Handle(b, m))

(***************************************************************************)
(* Properties                                                              *)
(***************************************************************************)

\* Every variable has the type its declaration in the source says.
TypeOK ==
  /\ crossSent \in [Relay -> SUBSET Request]
  /\ msgs \subseteq Message
  /\ net \in [Correct -> SUBSET Message]
  /\ buffer \in [Correct -> [Instance \X Value -> SUBSET (A \cup B)]]
  /\ bufferc \in [Correct -> [Hash -> SUBSET (A \cup B)]]
  /\ bufferd \in [Correct -> [Hash -> SUBSET (A \cup B)]]
  /\ crossMsgQueue \in [Correct -> Seq(Instance \X Value)]
  /\ order \in [Correct -> SUBSET Instance]
  /\ starting \in [Correct -> Instance \cup {None}]
  /\ GlobalTotalEpoch \in [Correct -> Nat]
  /\ tEpoch \in [Correct -> Nat]
  /\ epochStatus \in [Correct -> [Instance -> RBCStatus]]
  /\ delivered \in [Correct -> SUBSET Instance]
  /\ xDelivered \in [Correct -> BOOLEAN]

\* A faulty node may name the hash of another instance in an ECHO or a READY for
\* instance i.  The handlers move and deliver i then for that hash.
Misnamed(i) == \E m \in Forged : m.type \in {"ECHO", "READY"} /\ m.inst = i /\ m.hash[1] # i

\* Two nodes never deliver an instance on different requests: no two nodes have
\* quorums of ECHOs for two requests of one instance, whatever faulty nodes of
\* either group send, and what a node has delivered has a quorum, unless a
\* faulty node names the hash of another instance for it.
Agreement ==
  /\ \A b, c \in Correct, i \in Instance, v, w \in Value :
       EchoQuorum(b, <<i, v>>) /\ EchoQuorum(c, <<i, w>>) => v = w
  /\ \A b \in Correct : \A i \in delivered[b] :
       Misnamed(i) \/ \E v \in Value : EchoQuorum(b, <<i, v>>)

\* A node never echoes two requests for one instance, whatever SENDs come
\* from the other nodes and however often the instance is queued.
EchoOnce ==
  \A b \in Correct, i \in Instance, v, w \in Value :
    EchoMsg(b, i, v) \in msgs /\ EchoMsg(b, i, w) \in msgs => v = w

\* A node of A that runs this code has relayed request v, which asks for instance i.
Relayed(i, v) == i < NumReq[v] /\ \E a \in Relay : v \in crossSent[a]

\* No node of B starts a broadcast of a request that no node of A running
\* this code has relayed, nor of an instance the request does not ask for.
SendIntegrity ==
  \A m \in msgs : m.type = "SEND" =>
    Relayed(m.inst, m.val)

\* A SEND is echoed whoever made it up, with any request for any instance.
SpuriousSends == {<<m.inst, m.val>> : m \in {n \in Forged : n.type = "SEND"}}

\* But for those, a request gets a quorum of ECHOs for an instance only if a node
\* of A that runs this code has relayed it, whatever CROSS, ECHO and READY faulty
\* nodes send.
DeliverIntegrity ==
  \A b \in Correct, i \in Instance, v \in Value :
    EchoQuorum(b, <<i, v>>) => Relayed(i, v) \/ <<i, v>> \in SpuriousSends

\* The status of an instance never goes back: StartRBC's late mark does not
\* restart a broadcast that is under way.
StatusMonotone ==
  [][\A b \in Correct, i \in Instance : epochStatus'[b][i] >= epochStatus[b][i]]_vars

\* The instances whose deliveries are all on a hash of their own, and the request
\* that such an instance is delivered with: that of the ECHOs.
OwnHash == {i \in Instance : ~Misnamed(i)}

Decision(i) ==
  IF \E b \in Correct : i \in delivered[b]
    THEN CHOOSE v \in Value :
           \E b \in Correct : i \in delivered[b] /\ EchoQuorum(b, <<i, v>>)
    ELSE None

XR == INSTANCE XRBC WITH
        Node <- Correct,
        Instance <- OwnHash,
        Spurious <- SpuriousSends,
        relayed <- UNION {crossSent[a] : a \in Relay},
        decision <- [i \in OwnHash |-> Decision(i)],
        delivered <- [b \in Correct |-> delivered[b] \cap OwnHash]

\* Mode CrossRA is a cross-consensus reliable broadcast of the instances for which
\* no faulty node names the hash of another.
ImplementsXRBC == XR!Spec

\* Every instance of a request that enough relays broadcast is started.
Started ==
  \A b \in Correct : <>(\A i \in Instance : epochStatus[b][i] >= CROSS)

\* A node that echoed a request delivers the instance once a quorum of nodes
\* echoed the same request.
EchoQuorumDelivers ==
  \A b \in Correct, i \in Instance, v \in Value :
    ( /\ EchoMsg(b, i, v) \in msgs
      /\ Cardinality({c \in Correct : EchoMsg(c, i, v) \in msgs}) >= Quorum )
    ~> i \in delivered[b]

\* Every node that runs this code gets to tell MonitorRBCStatus that all is delivered.
Termination == \A b \in Correct : <>xDelivered[b]
=============================================================================
