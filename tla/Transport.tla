----------------------------- MODULE Transport -----------------------------
(***************************************************************************)
(* How one replica sends: the package sender, with the list of nodes taken *)
(* for dead that package communication keeps.                              *)
(* Sources: communication/sender/sender.go, communication/connection.go,   *)
(* communication/connMap.go.                                               *)
(*                                                                         *)
(* Each message to each node is sent by a goroutine of its own (ByteSend,  *)
(* ByteGSigSend), once: it looks for a connection, makes one if there is   *)
(* none, calls, and if the call fails counts the failure and drops the     *)
(* connection.  The maps have locks, but every access takes and releases   *)
(* them, and the error of a call goes into a variable of the package, so a *)
(* goroutine is one action for each access.  NewClient connects later and  *)
(* never fails.  Insert and InsertID are taken as one access, and so are   *)
(* Get and GetID: a node whose id is missing is a node without connection. *)
(***************************************************************************)
EXTENDS Integers, FiniteSets

CONSTANTS
  ANode, BNode,  \* the nodes of the two groups
  Message,       \* what a replica sends
  MaxLimit,      \* maxLimit of connection.go, which is 3
  MaxFaults      \* bound: crashes of other nodes, and calls that time out

Node == ANode \cup BNode

ASSUME Nodes ==
  /\ IsFiniteSet(Node) /\ ANode \cap BNode = {} /\ BNode # {}
  /\ MaxLimit \in Nat /\ MaxFaults \in Nat

\* Package message: HotStuff_Msg and the types that fail in the same way.
MessageType == {"RBC_ALL", "HotStuff_Msg"}

Connection == {"none", "nil", "client"}

VARIABLES
  self,           \* idstring: the replica
  connections,    \* the connection to each node; nil is one that was dropped
  connectionMap,  \* the failures counted for each node, NoEntry before the first
  connection,     \* the nodes taken for dead
  err,            \* whether the call that ended last failed
  byteSend,       \* the goroutines at work
  panicked,       \* whether one of them has called a method of nil
  up,             \* the nodes that are up, the replica itself excepted
  faults,
  sent,           \* what goroutines were started for: message and receiver
  received,       \* what the receivers got of it
  counted,        \* how often NotLive was called for each node
  failed          \* the nodes that a call of this replica failed to reach in time

NoEntry == -1

connVars == <<connections, connectionMap, connection>>
envVars  == <<up, faults>>
historyVars == <<counted, failed>>
tVars == <<self, connVars, err, byteSend, panicked, envVars, sent, received, historyVars>>

\* Where a goroutine is in ByteSend.
Place == {"lookup", "build", "get", "send", "sendNil", "check", "notLive", "count", "drop"}

Goroutine ==
  [to : Node, type : MessageType, msg : Message, at : Place, v : Nat \cup {NoEntry}]

\* StartSender
StartSender ==
  /\ connections = [p \in Node |-> "none"]
  /\ connectionMap = [p \in Node |-> NoEntry]
  /\ connection = {}
  /\ err = FALSE
  /\ byteSend = {}
  /\ panicked = FALSE

TransportInit ==
  /\ self \in Node
  /\ StartSender
  /\ up = Node /\ faults = 0
  /\ sent = {} /\ received = {}
  /\ counted = [p \in Node |-> 0] /\ failed = {}

(***************************************************************************)
(* Broadcasts                                                              *)
(***************************************************************************)

IsNotLive(p) == p \in connection

\* A goroutine for every node of the list that is not taken for dead.
Spawn(nodes, type, m) ==
  {[to |-> p, type |-> type, msg |-> m, at |-> "lookup", v |-> 0]
     : p \in {q \in nodes : ~IsNotLive(q)}}

Start(goroutines) ==
  /\ ~panicked
  /\ byteSend' = byteSend \cup goroutines
  /\ sent' = sent \cup {<<g.msg, g.to>> : g \in goroutines}

\* The list of MACBroadcast and RBCByteBroadcast depends on the mode.
FetchNodesFromConfig(mode) == IF mode = "DeltaBA" THEN Node ELSE BNode

\* What each function of the package starts for the messages ms.
MACBroadcast(mode, ms) ==
  UNION {Spawn(FetchNodesFromConfig(mode), "RBC_ALL", m) : m \in ms}
TOABroadcast(m) == Spawn(ANode, "RBC_ALL", m)
TOBBroadcast(ms) == UNION {Spawn(BNode, "RBC_ALL", m) : m \in ms}
ToAGroupResNode(m, p) == Spawn({p}, "RBC_ALL", m)
SendToNode(m, p, type) == Spawn({p}, type, m)
RBCByteBroadcast(mode, m) ==
  Spawn(FetchNodesFromConfig(mode) \ {self}, "HotStuff_Msg", m)

(***************************************************************************)
(* ByteSend                                                                *)
(***************************************************************************)

Moves(g, h) ==
  /\ g \in byteSend /\ ~panicked
  /\ byteSend' = (byteSend \ {g}) \cup {h}

Ends(g) ==
  /\ g \in byteSend /\ ~panicked
  /\ byteSend' = byteSend \ {g}

\* g at a place, with what it has read there.
Having(g, place, read) ==
  [to |-> g.to, type |-> g.type, msg |-> g.msg, at |-> place, v |-> read]
At(g, place) == Having(g, place, 0)

\* The connection is there and not nil.
Usable(p) == connections[p] = "client"

Lookup(g) ==
  /\ g.at = "lookup"
  /\ Moves(g, At(g, IF Usable(g.to) THEN "send" ELSE "build"))
  /\ UNCHANGED <<self, connVars, err, panicked, envVars, sent, received, historyVars>>

\* The variant makes a connection and does not keep it.
InsertVariant(p) == connections
Insert(p) == [connections EXCEPT ![p] = "client"]

BuildConnection(g) ==
  /\ g.at = "build"
  /\ Moves(g, At(g, "get"))
  /\ connections' = Insert(g.to)
  /\ UNCHANGED <<self, connectionMap, connection, err, panicked, envVars, sent,
                 received, historyVars>>

\* The connection is looked up again, and not looked at.
GetAgain(g) ==
  /\ g.at = "get"
  /\ Moves(g, At(g, IF Usable(g.to) THEN "send" ELSE "sendNil"))
  /\ UNCHANGED <<self, connVars, err, panicked, envVars, sent, received, historyVars>>

\* The call gets through, is lost, or gets through and its answer does not
\* come in time.  It is not lost between nodes that are up, unless it times out.
SendByteMsg(g) ==
  /\ g.at = "send"
  /\ Moves(g, At(g, "check"))
  /\ \/ /\ g.to \in up
        /\ err' = FALSE
        /\ received' = received \cup {<<g.msg, g.to>>}
        /\ UNCHANGED <<faults, failed>>
     \/ /\ g.to \in up /\ faults < MaxFaults
        /\ faults' = faults + 1
        /\ err' = TRUE
        /\ received' \in {received, received \cup {<<g.msg, g.to>>}}
        /\ failed' = failed \cup {g.to}
     \/ /\ g.to \notin up
        /\ err' = TRUE
        /\ failed' = failed \cup {g.to}
        /\ UNCHANGED <<faults, received>>
  /\ UNCHANGED <<self, connVars, panicked, up, sent, counted>>

\* A call of a method of nil ends the replica.
SendNil(g) ==
  /\ g \in byteSend /\ ~panicked
  /\ g.at = "sendNil"
  /\ panicked' = TRUE
  /\ byteSend' = {}
  /\ UNCHANGED <<self, connVars, err, envVars, sent, received, historyVars>>

\* What err is by now decides; a HotStuff message that failed is only logged.
CheckErr(g) ==
  /\ g.at = "check"
  /\ \/ /\ err /\ g.type # "HotStuff_Msg"
        /\ Moves(g, At(g, "notLive"))
     \/ /\ ~err \/ g.type = "HotStuff_Msg"
        /\ Ends(g)
  /\ UNCHANGED <<self, connVars, err, panicked, envVars, sent, received, historyVars>>

\* NotLive reads the count ...
ReadCount(g) ==
  /\ g.at = "notLive"
  /\ Moves(g, Having(g, "count", connectionMap[g.to]))
  /\ counted' = [counted EXCEPT ![g.to] = @ + 1]
  /\ UNCHANGED <<self, connVars, err, panicked, envVars, sent, received,
                 failed>>

\* ... of which one more than there is now may be missing by the time it is
\* written, and takes the node for dead when what it read exceeds the limit.  A
\* missing entry reads as zero.  The variant is off by one.
ExceedsVariant(v) == (IF v = NoEntry THEN 0 ELSE v) >= MaxLimit
Exceeds(v) == (IF v = NoEntry THEN 0 ELSE v) > MaxLimit

WriteCount(g) ==
  /\ g.at = "count"
  /\ Moves(g, At(g, "drop"))
  /\ connectionMap' = [connectionMap EXCEPT ![g.to] = g.v + 1]
  /\ connection' = IF Exceeds(g.v) THEN connection \cup {g.to} ELSE connection
  /\ UNCHANGED <<self, connections, err, panicked, envVars, sent, received, historyVars>>

DropConnection(g) ==
  /\ g.at = "drop"
  /\ Ends(g)
  /\ connections' = [connections EXCEPT ![g.to] = "nil"]
  /\ UNCHANGED <<self, connectionMap, connection, err, panicked, envVars, sent,
                 received, historyVars>>

ByteSend(g) ==
  \/ Lookup(g)
  \/ BuildConnection(g)
  \/ GetAgain(g)
  \/ SendByteMsg(g)
  \/ SendNil(g)
  \/ CheckErr(g)
  \/ ReadCount(g)
  \/ WriteCount(g)
  \/ DropConnection(g)

(***************************************************************************)
(* The other nodes                                                         *)
(***************************************************************************)

\* A node is put back on the list when a HotStuff message comes from it, and
\* only then: the handler of Join does nothing.
SetLive(p) ==
  /\ p \in up /\ ~panicked
  /\ connectionMap' = [connectionMap EXCEPT ![p] = 0]
  /\ connection' = connection \ {p}
  /\ UNCHANGED <<self, connections, err, byteSend, panicked, envVars, sent,
                 received, historyVars>>

Crash(p) ==
  /\ p \in up \ {self} /\ faults < MaxFaults
  /\ up' = up \ {p}
  /\ faults' = faults + 1
  /\ UNCHANGED <<self, connVars, err, byteSend, panicked, sent, received, historyVars>>

Restart(p) ==
  /\ p \in Node \ up
  /\ up' = up \cup {p}
  /\ UNCHANGED <<self, connVars, err, byteSend, panicked, faults, sent, received, historyVars>>

(***************************************************************************)
(* The sender alone, for messages of group A                               *)
(***************************************************************************)

Broadcast(m) ==
  /\ \A p \in Node : <<m, p>> \notin sent
  /\ Start(MACBroadcast("CrossRA", {m}))
  /\ UNCHANGED <<self, connVars, err, panicked, envVars, received, historyVars>>

SendNext ==
  \/ \E g \in byteSend : ByteSend(g)
  \/ \E p \in Node : Crash(p) \/ Restart(p)

TransportSpec ==
  TransportInit /\ self \in ANode /\ [][SendNext \/ \E m \in Message : Broadcast(m)]_tVars

(***************************************************************************)
(* Properties                                                              *)
(***************************************************************************)

\* The variables of this module have the types their declarations say.
TransportTypeOK ==
  /\ self \in Node
  /\ connections \in [Node -> Connection]
  /\ connectionMap \in [Node -> Nat \cup {NoEntry}]
  /\ connection \subseteq Node
  /\ err \in BOOLEAN /\ panicked \in BOOLEAN
  /\ byteSend \subseteq Goroutine
  /\ up \subseteq Node /\ faults \in 0 .. MaxFaults
  /\ sent \subseteq Message \X Node /\ received \subseteq sent
  /\ counted \in [Node -> Nat] /\ failed \subseteq Node

\* A node is taken for dead only after it was counted maxLimit + 2 times, however
\* the goroutines that count for it interleave: an update lost between reading
\* and writing the count makes it later, never earlier.  (A node that was never
\* put back needs one count more.)
BlacklistEarned ==
  \A p \in connection : counted[p] >= MaxLimit + 2

\* Without a crash or a timeout the goroutines get everything through to everyone
\* (what the protocols expect of the network), and none meets a nil connection.
Reliable ==
  faults = 0 =>
    /\ ~panicked /\ connection = {}
    /\ byteSend = {} => received = sent

\* "A node is put in 'blacklist' if it cannot be connected": a node is taken for
\* dead only if a call to it failed.
BlacklistFailed == connection \subseteq failed
=============================================================================
