------------------------------ MODULE CrossABC ------------------------------
(***************************************************************************)
(* Mode CrossABC with Add = 0: every node of group A sends a request to    *)
(* group B, once for each instance (CROSS); node 4 puts an instance that   *)
(* t + 1 of them sent for one payload into a queue, and a goroutine of it  *)
(* takes the queue from the front and proposes each entry to HotStuff.     *)
(* The other nodes of B fill a queue that they never read, so only node 4  *)
(* is modelled here.                                                       *)
(* Sources: consensus/cross.go, utils/set.go (EpochMsgQueue).              *)
(*                                                                         *)
(* Every CROSS is handled by a goroutine of its own, without a lock.  All  *)
(* of them keep the payload in the package variable sourceMsg, so the      *)
(* handler is three actions: it sets sourceMsg, counts the vote for what   *)
(* sourceMsg is then, and queues what it is last.                          *)
(***************************************************************************)
EXTENDS HotStuff, Sequences

CONSTANTS
  Relay,     \* the nodes of A that run this code and stay up
  Faulty,    \* nodes of either group that may send any CROSS in Forged, each once
  Forged,    \* CROSS that faulty nodes make up
  Value,     \* request payloads
  Request,   \* those of Value that clients submit
  NumReq,    \* the number of instances a request asks for (field Round)
  None       \* sourceMsg before the first CROSS

ASSUME Relays ==
  /\ AddVersion = 0
  /\ IsFiniteSet(Faulty) /\ (Relay \cup Correct) \cap Faulty = {}
  /\ Cardinality(Faulty) < CrossSmallQuorum(NumA)
  /\ Request \subseteq Value /\ NumReq \in [Value -> Nat \ {0}] /\ None \notin Value
  /\ Height = UNION {0 .. (NumReq[v] - 1) : v \in Value}

CrossQuorum == CrossSmallQuorum(NumA)

\* XHandleCross counts any sender, whatever its group.
Cross == [from : Relay \cup Faulty, inst : Height, val : Value]

ASSUME Forgeries == Forged \subseteq {m \in Cross : m.from \in Faulty}

VARIABLES
  crossSent,           \* the requests each A node has relayed
  crossNet,            \* the CROSS on their way to node 4
  sourceMsg,           \* the payload that the handlers work on
  crossVotes,          \* quorum.buffer: senders by instance and payload
  counting,            \* the CROSS whose handler has set sourceMsg
  queueing,            \* those it has counted, with the payload it counted for
  addtotalEpoch,
  crossABCMsgQueue,
  order                \* every instance that was ever queued

crossVars == <<crossSent, crossNet, sourceMsg, crossVotes, counting, queueing,
               addtotalEpoch, order>>
abcVars == <<vars, crossVars, crossABCMsgQueue>>

\* InitCROSS
CrossInit ==
  /\ crossSent = [a \in Relay |-> {}]
  /\ crossNet = Forged
  /\ sourceMsg = None
  /\ crossVotes = [k \in Height \X Value |-> {}]
  /\ counting = {} /\ queueing = {}
  /\ addtotalEpoch = 0
  /\ crossABCMsgQueue = <<>> /\ order = {}

\* XSendCross
XSendCross(a, v) ==
  /\ v \notin crossSent[a]
  /\ crossSent' = [crossSent EXCEPT ![a] = @ \cup {v}]
  /\ crossNet' = crossNet \cup
       {[from |-> a, inst |-> i, val |-> v] : i \in 0 .. (NumReq[v] - 1)}
  /\ UNCHANGED <<vars, sourceMsg, crossVotes, counting, queueing, addtotalEpoch,
                 crossABCMsgQueue, order>>

\* XHandleCross sets sourceMsg ...
XHandleCross(m) ==
  /\ m \in crossNet
  /\ m \notin counting
  /\ crossNet' = crossNet \ {m}
  /\ sourceMsg' = m.val
  /\ addtotalEpoch' = IF addtotalEpoch = 0 THEN NumReq[m.val] ELSE addtotalEpoch
  /\ counting' = counting \cup {m}
  /\ UNCHANGED <<vars, crossSent, crossVotes, queueing, crossABCMsgQueue, order>>

\* ... counts it for what sourceMsg is now ...
CountCross(m) ==
  /\ m \in counting
  /\ counting' = counting \ {m}
  /\ crossVotes' = [crossVotes EXCEPT ![<<m.inst, sourceMsg>>] = @ \cup {m.from}]
  /\ queueing' = queueing \cup {[from |-> m.from, inst |-> m.inst, tag |-> sourceMsg]}
  /\ UNCHANGED <<vars, crossSent, crossNet, sourceMsg, addtotalEpoch,
                 crossABCMsgQueue, order>>

\* AddItem skips an instance that was ever queued.  The variant skips one that
\* is in the queue.
QueuedVariant(i) == \E j \in DOMAIN crossABCMsgQueue : crossABCMsgQueue[j].epoch = i
Queued(i) == i \in order

\* ... and queues what it is now, if the queue is not full, the votes for what it
\* was then are enough, and the instance is new.
\* The variant takes the queue for full one entry early.
MayQueueVariant(c) ==
  /\ Len(crossABCMsgQueue) < addtotalEpoch - 1
  /\ Cardinality(crossVotes[<<c.inst, c.tag>>]) >= CrossQuorum
  /\ ~Queued(c.inst)

MayQueue(c) ==
  /\ Len(crossABCMsgQueue) # addtotalEpoch
  /\ Cardinality(crossVotes[<<c.inst, c.tag>>]) >= CrossQuorum
  /\ ~Queued(c.inst)

\* The code looks at the length, at the votes and at the order one after the
\* other, and here they are one step, the last.  Votes are never taken back, so
\* enough of them stay enough; and a queue that was not full and is now holds all
\* instances below addtotalEpoch, so only for an instance that the request that
\* set addtotalEpoch has not could the two differ: the code may still queue it.
AddMessageToCrossABCMsgQueue(c) ==
  /\ c \in queueing
  /\ queueing' = queueing \ {c}
  /\ \/ /\ MayQueue(c)
        /\ crossABCMsgQueue' = Append(crossABCMsgQueue, [epoch |-> c.inst, msg |-> sourceMsg])
        /\ order' = order \cup {c.inst}
     \/ /\ ~MayQueue(c)
        /\ UNCHANGED <<crossABCMsgQueue, order>>
  /\ UNCHANGED <<vars, crossSent, crossNet, sourceMsg, crossVotes, counting, addtotalEpoch>>

\* ReadyStartHotStuff takes the front of the queue and proposes it.
ReadyStartHotStuff ==
  /\ crossABCMsgQueue # <<>>
  /\ crossABCMsgQueue' = Tail(crossABCMsgQueue)
  /\ StartHotStuff(Head(crossABCMsgQueue).epoch)
  /\ UNCHANGED crossVars

(***************************************************************************)
(* The specification                                                       *)
(***************************************************************************)

ABCInit == Init /\ CrossInit

ABCNext ==
  \/ \E a \in Relay, v \in Request : XSendCross(a, v)
  \/ \E m \in crossNet : XHandleCross(m)
  \/ \E m \in counting : CountCross(m)
  \/ \E c \in queueing : AddMessageToCrossABCMsgQueue(c)
  \/ ReadyStartHotStuff
  \/ HotStuffNext /\ UNCHANGED <<crossVars, crossABCMsgQueue>>

ABCSpec == ABCInit /\ [][ABCNext]_abcVars

(***************************************************************************)
(* Properties                                                              *)
(***************************************************************************)

\* The variables of this module have the types their declarations say.
ABCTypeOK ==
  /\ crossSent \in [Relay -> SUBSET Request]
  /\ crossNet \subseteq Cross /\ counting \subseteq Cross
  /\ sourceMsg \in Value \cup {None}
  /\ crossVotes \in [Height \X Value -> SUBSET (Relay \cup Faulty)]
  /\ queueing \subseteq [from : Relay \cup Faulty, inst : Height, tag : Value]
  /\ addtotalEpoch \in Nat
  /\ crossABCMsgQueue \in Seq([epoch : Height, msg : Value])
  /\ order \subseteq Height

\* Node 4 proposes a height once, as HotStuff requires: what is in the queue was
\* not proposed, and is there once, however late the last CROSS of it comes.
QueueFresh ==
  \A i, j \in DOMAIN crossABCMsgQueue :
    /\ crossABCMsgQueue[i].epoch \notin proposed
    /\ i # j => crossABCMsgQueue[i].epoch # crossABCMsgQueue[j].epoch

\* Node 4 queues and proposes an instance only if a node of A that runs this
\* code relayed a request that has it, whatever the faulty ones send and
\* whichever handlers share sourceMsg.
InstanceRelayed ==
  \A i \in order \cup proposed : \E a \in Relay : \E v \in crossSent[a] : i < NumReq[v]

\* Every request is relayed, nothing is on its way, and no handler is at work.
Quiet ==
  /\ \A a \in Relay : crossSent[a] = Request
  /\ crossNet = {} /\ counting = {} /\ queueing = {} /\ crossABCMsgQueue = <<>>
  /\ Idle

\* With group A at work and of one mind, every node that only follows has in the
\* end delivered all the instances but the first, whose height no delivery loop
\* looks for: no CROSS is dropped for want of room, none is queued twice and so
\* blocks the rest, and no height is left behind a gap.
AllDelivered ==
  Quiet => \A b \in Correct \ {Proposer}, v \in Request :
             deliveredHeight[b] >= NumReq[v] - 1
=============================================================================
