------------------------------ MODULE Replica ------------------------------
(***************************************************************************)
(* One replica from its start to what it sends.  StartReceiver runs the    *)
(* Init functions of the mode (QuorumStart) and then listens.  Clients     *)
(* write a request to every node of group A and wait for all the answers;  *)
(* the answer comes before a goroutine puts the request into the queue.    *)
(* RequestMonitor empties the queue, starts the first request it took out  *)
(* and forgets the rest.  What it starts, and what the handlers of group B *)
(* answer, goes through the sender (Transport).                            *)
(* Sources: communication/receiver/receiver.go, consensus/events.go,       *)
(* consensus/queue.go, consensus/def.go, client/client.go, main/client.go, *)
(* communication/clientsender/clientsender.go.                             *)
(*                                                                         *)
(* The replica is self; the other nodes of ANode only take what clients    *)
(* send, and those of BNode what self sends.  A client sends its first     *)
(* request and exits, so what its sender keeps for a next one (the         *)
(* connections, the nodes taken for dead, the timer) is left out, and so   *)
(* is the queue in the database, which is never read.                      *)
(***************************************************************************)
EXTENDS QuorumStart, Transport, SequencesExt

CONSTANTS
  Client,        \* the clients; a client stands for its request
  NumReq,        \* the number of instances a request asks for (field R)
  First,         \* node 0, the one that sends in mode CrossSigGroup
  Reply,         \* what the handlers of group B send
  MaxBatchSize,  \* maxBatchSize of etc/conf.json
  Served,        \* bound: the configurations followed after the start
  MaxSent        \* bound: the messages sent by each node

ASSUME Fronts ==
  /\ IsFiniteSet(Client) /\ NumReq \in [Client -> Nat \ {0}]
  /\ Client \cap ANode = {} /\ First \in ANode /\ Served \subseteq Deployment
  /\ MaxBatchSize \in Nat \ {0} /\ MaxSent \in [Node -> Nat]
  /\ Message = Reply \cup UNION {{<<c, i>> : i \in 0 .. (NumReq[c] - 1)} : c \in Client}

VARIABLES
  request,   \* the SendRequest goroutines of each client
  wg,        \* the WaitGroup of each client
  returned,  \* the clients whose BroadcastRequest has returned
  handling,  \* requests that are answered and not yet in the queue
  queue,
  started,   \* requests given to StartProcessing, in their order
  dropped    \* requests taken out of the queue and not started

startVars  == <<conf, calls, n, f, quorum, squorum>>
clientVars == <<request, wg, returned>>
queueVars  == <<handling, queue, started, dropped>>
replicaVars == <<startVars, clientVars, queueVars, tVars>>

ReplicaInit ==
  /\ Init
  /\ TransportInit
  /\ request = [c \in Client |-> [s \in ANode |-> "none"]]
  /\ wg = [c \in Client |-> 0]
  /\ returned = {}
  /\ handling = {} /\ queue = <<>> /\ started = <<>> /\ dropped = {}

\* The replica has started and goes on: it listens and RequestMonitor runs.
Running == Started /\ conf \in Served /\ ~panicked

\* The bound on what is sent.
Bounded(goroutines) == Cardinality(sent) + Cardinality(goroutines) <= MaxSent[self]

(***************************************************************************)
(* Clients                                                                 *)
(***************************************************************************)

AtWork == {"dial", "send"}

BroadcastRequest(c) ==
  /\ conf \in Served /\ self \in ANode
  /\ \A s \in ANode : request[c][s] = "none"
  /\ request' = [request EXCEPT ![c] = [s \in ANode |-> "dial"]]
  /\ wg' = [wg EXCEPT ![c] = Cardinality(ANode)]
  /\ UNCHANGED <<startVars, returned, queueVars, tVars>>

\* DialContext waits for the connection until the client's time is up.
DialContext(c, s) ==
  /\ request[c][s] = "dial"
  /\ IF s = self THEN Running ELSE s \in up
  /\ request' = [request EXCEPT ![c][s] = "send"]
  /\ UNCHANGED <<startVars, wg, returned, queueVars, tVars>>

\* Every way out of SendRequest calls wg.Done.  The variant's failed dial does
\* not.
FailedDialVariant(c) == wg
FailedDial(c) == [wg EXCEPT ![c] = @ - 1]

DialFails(c, s) ==
  /\ request[c][s] = "dial"
  /\ IF s = self THEN panicked ELSE s \notin up
  /\ request' = [request EXCEPT ![c][s] = "failed"]
  /\ wg' = FailedDial(c)
  /\ UNCHANGED <<startVars, returned, queueVars, tVars>>

\* HandleRequest of the receiver answers at once, and a goroutine goes on.
SendRequest(c, s) ==
  /\ request[c][s] = "send"
  /\ wg' = [wg EXCEPT ![c] = @ - 1]
  /\ \/ /\ IF s = self THEN Running ELSE s \in up
        /\ request' = [request EXCEPT ![c][s] = "answered"]
        /\ handling' = IF s = self THEN handling \cup {c} ELSE handling
     \/ /\ IF s = self THEN panicked ELSE s \notin up
        /\ request' = [request EXCEPT ![c][s] = "failed"]
        /\ UNCHANGED handling
  /\ UNCHANGED <<startVars, returned, queue, started, dropped, tVars>>

\* wg.Wait returns.
Return(c) ==
  /\ c \notin returned /\ request[c][First] # "none" /\ wg[c] = 0
  /\ returned' = returned \cup {c}
  /\ UNCHANGED <<startVars, request, wg, queueVars, tVars>>

(***************************************************************************)
(* The queue                                                               *)
(***************************************************************************)

\* HandleRequest of package consensus.
HandleRequest(c) ==
  /\ Running /\ c \in handling
  /\ handling' = handling \ {c}
  /\ queue' = Append(queue, c)
  /\ UNCHANGED <<startVars, clientVars, started, dropped, tVars>>

\* GrabWtihMaxLenAndClear: what it returns and what it leaves.  The variant
\* leaves the first entry.
Grabbed == SubSeq(queue, 1, IF Len(queue) > MaxBatchSize THEN MaxBatchSize ELSE Len(queue))
LeftVariant == SubSeq(queue, Len(Grabbed), Len(queue))
Left == SubSeq(queue, Len(Grabbed) + 1, Len(queue))

\* What StartProcessing makes the sender start for the first request: one
\* message for each instance, in modes with shares one for each node as well.
\* The variant forgets that instances count from zero.
InstancesVariant(c) == {<<c, i>> : i \in 1 .. (NumReq[c] - 1)}
Instances(c) == {<<c, i>> : i \in 0 .. (NumReq[c] - 1)}

StartProcessing(c) ==
  CASE conf.mode \in {"CrossRA", "CrossABC"} /\ conf.add = 1 ->
         UNION {SendToNode(m, p, "RBC_ALL") : m \in Instances(c), p \in BNode}
    [] conf.mode = "CrossSigGroup" ->
         IF self = First THEN TOBBroadcast(Instances(c)) ELSE {}
    [] OTHER -> MACBroadcast(conf.mode, Instances(c))

RequestMonitor ==
  /\ Running /\ queue # <<>>
  /\ Bounded(StartProcessing(Head(queue)))
  /\ queue' = Left
  /\ started' = Append(started, Head(queue))
  /\ dropped' = dropped \cup Range(Tail(Grabbed))
  /\ Start(StartProcessing(Head(queue)))
  /\ UNCHANGED <<startVars, clientVars, handling, self, connVars, err, panicked,
                 envVars, received, historyVars>>

(***************************************************************************)
(* Group B                                                                 *)
(***************************************************************************)

\* What the handlers of a mode send for a message: ECHO and READY (rbc.go), a
\* block or a vote for it (CrossABC.go), REP or CONFIRM (CrossSigGroup.go), a
\* vote (delta.go), a share (add.go).
Answers(m) ==
  CASE conf.mode = "CrossRA" /\ conf.add = 0 -> {MACBroadcast(conf.mode, {m})}
    [] conf.mode = "CrossRA" /\ conf.add = 1 ->
         {UNION {SendToNode(m, p, "RBC_ALL") : p \in BNode}}
    [] conf.mode = "CrossABC" ->
         {RBCByteBroadcast(conf.mode, m)} \cup {SendToNode(m, p, "HotStuff_Msg") : p \in BNode}
    [] conf.mode = "CrossSigGroup" ->
         {ToAGroupResNode(m, First), TOBBroadcast({m}) \cup TOABroadcast(m)}
    [] conf.mode = "DeltaBA" -> {MACBroadcast(conf.mode, {m})}

Answer(m) ==
  /\ Running /\ self \in BNode
  /\ \A p \in Node : <<m, p>> \notin sent
  /\ \E goroutines \in Answers(m) : Bounded(goroutines) /\ Start(goroutines)
  /\ UNCHANGED <<startVars, clientVars, queueVars, self, connVars, err, panicked,
                 envVars, received, historyVars>>

\* HandleQCByteMsg is given a message of p, in the modes with HotStuff.
HandleQCByteMsg(p) ==
  /\ Running /\ conf.mode \in {"CrossABC", "CrossSigGroup"}
  /\ self \in BNode
  /\ SetLive(p)
  /\ UNCHANGED <<startVars, clientVars, queueVars>>

(***************************************************************************)
(* The specification                                                       *)
(***************************************************************************)

ClientNext ==
  \E c \in Client :
    \/ BroadcastRequest(c)
    \/ \E s \in ANode : DialContext(c, s) \/ DialFails(c, s) \/ SendRequest(c, s)
    \/ Return(c)

ReplicaNext ==
  \/ Next /\ UNCHANGED <<clientVars, queueVars, tVars>>
  \/ ClientNext
  \/ \E c \in Client : HandleRequest(c)
  \/ RequestMonitor
  \/ \E m \in Reply : Answer(m)
  \/ \E p \in BNode \ {self} : HandleQCByteMsg(p)
  \/ Running /\ SendNext /\ UNCHANGED <<startVars, clientVars, queueVars>>

ReplicaSpec == ReplicaInit /\ [][ReplicaNext]_replicaVars

(***************************************************************************)
(* Properties                                                              *)
(***************************************************************************)

\* The variables of this module have the types their declarations say.
ReplicaTypeOK ==
  /\ request \in [Client -> [ANode -> {"none", "dial", "send", "answered", "failed"}]]
  /\ wg \in [Client -> 0 .. Cardinality(ANode)]
  /\ returned \subseteq Client
  /\ handling \subseteq Client /\ dropped \subseteq Client
  /\ queue \in Seq(Client) /\ started \in Seq(Client)

\* A request that the replica has answered is in one place and only once: on its
\* way to the queue, in it, started, or dropped.  So none is started twice, and
\* none is lost but those that RequestMonitor drops.
OnePlace ==
  LET places == queue \o started \o SetToSeq(handling) \o SetToSeq(dropped)
  IN  /\ IsInjective(places)
      /\ Range(places) = {c \in Client : self \in ANode /\ request[c][self] = "answered"}

\* A client waits as long as one of its goroutines is at work, and no longer:
\* it does not hang when a node is down, nor exit before the answers.
ClientsReturn ==
  \A c \in Client : wg[c] = Cardinality({s \in ANode : request[c][s] \in AtWork})

\* When clients have written to a replica and nothing failed, a request is started
\* in the end, and every instance of those started reaches all nodes of group B
\* (in mode CrossSigGroup those of the first node do).
FirstServed ==
  ( /\ Running /\ faults = 0
    /\ self \in ANode /\ \E c \in returned : request[c][self] = "answered"
    /\ handling = {} /\ queue = <<>> /\ byteSend = {} )
  => /\ started # <<>>
     /\ conf.mode # "CrossSigGroup" \/ self = First =>
          \A c \in Range(started), p \in BNode :
            \A i \in 0 .. (NumReq[c] - 1) : <<<<c, i>>, p>> \in received
=============================================================================
