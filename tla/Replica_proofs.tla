--------------------------- MODULE Replica_proofs ---------------------------
(***************************************************************************)
(* A replica from its start on, for groups of any size, any number of      *)
(* clients, crashes and timeouts: its sender, its thresholds, its clients, *)
(* its queue and what reaches group B.                                     *)
(***************************************************************************)
EXTENDS Replica, QuorumSizes_proofs, SequenceTheorems

(***************************************************************************)
(* The sender, whatever goroutines the rest of the replica makes it start: *)
(* lemmas and theorems of Transport                                        *)
(***************************************************************************)

\* Any function of the package that sends.
Send(gs) ==
  /\ \A g \in gs : g.at = "lookup"
  /\ Start(gs)
  /\ UNCHANGED <<self, connVars, err, panicked, envVars, received, historyVars>>

Steps ==
  \/ SendNext
  \/ \E gs \in SUBSET Goroutine : Send(gs)
  \/ \E p \in Node : SetLive(p)

(***************************************************************************)
(* Types                                                                   *)
(***************************************************************************)

\* A call that is not over is one of a message that was sent.
Pending == {"lookup", "build", "get", "send"}

Accounted == \A g \in byteSend : <<g.msg, g.to>> \in sent

LEMMA SpawnType ==
  ASSUME NEW nodes \in SUBSET Node, NEW type \in MessageType, NEW m \in Message
  PROVE  /\ Spawn(nodes, type, m) \subseteq Goroutine
         /\ \A g \in Spawn(nodes, type, m) : g.at = "lookup" /\ g.type = type /\ g.msg = m
<1>1. \A p \in nodes :
        [to |-> p, type |-> type, msg |-> m, at |-> "lookup", v |-> 0] \in Goroutine
  BY DEF Goroutine, Place
<1> QED
  BY <1>1 DEF Spawn

LEMMA BroadcastType ==
  ASSUME NEW m \in Message, Broadcast(m)
  PROVE  \E gs \in SUBSET Goroutine : Send(gs)
<1> DEFINE gs == Spawn(BNode, "RBC_ALL", m)
<1>1. MACBroadcast("CrossRA", {m}) = gs
  BY DEF MACBroadcast, FetchNodesFromConfig
<1>2. gs \subseteq Goroutine /\ \A g \in gs : g.at = "lookup"
  BY SpawnType DEF Node, MessageType
<1>3. Send(gs)
  <2> HIDE DEF gs
  <2> QED
    BY <1>1, <1>2 DEF Broadcast, Send
<1> QED
  BY <1>2, <1>3

\* The sender alone takes no other steps, and puts no node back.
LEMMA SenderSteps == TransportSpec => TransportInit /\ [][Steps]_tVars
<1>1. (SendNext \/ \E m \in Message : Broadcast(m)) => Steps
  BY BroadcastType DEF Steps
<1> QED
  BY <1>1, PTL DEF TransportSpec

TypeInv == TransportTypeOK /\ Accounted

LEMMA TypeInit == TransportInit => TypeInv
<1> SUFFICES ASSUME TransportInit PROVE TypeInv
  OBVIOUS
<1>1. connections \in [Node -> Connection] /\ connectionMap \in [Node -> Nat \cup {NoEntry}]
  BY DEF TransportInit, StartSender, Connection
<1>2. self \in Node /\ connection = {} /\ err = FALSE /\ byteSend = {} /\ panicked = FALSE
  BY DEF TransportInit, StartSender
<1>3. up = Node /\ faults = 0 /\ sent = {} /\ received = {} /\ failed = {}
  BY DEF TransportInit
<1>4. counted \in [Node -> Nat]
  BY DEF TransportInit
<1>5. faults \in 0 .. MaxFaults
  BY <1>3, Nodes
<1> QED
  BY <1>1, <1>2, <1>3, <1>4, <1>5 DEF TypeInv, TransportTypeOK, Accounted

LEMMA HavingType ==
  ASSUME NEW g \in Goroutine, NEW place \in Place, NEW read \in Nat \cup {NoEntry}
  PROVE  /\ Having(g, place, read) \in Goroutine
         /\ Having(g, place, read).to = g.to /\ Having(g, place, read).msg = g.msg
         /\ Having(g, place, read).type = g.type
         /\ Having(g, place, read).at = place /\ Having(g, place, read).v = read
BY DEF Having, Goroutine

LEMMA AtType ==
  ASSUME NEW g \in Goroutine, NEW place \in Place
  PROVE  /\ At(g, place) \in Goroutine
         /\ At(g, place).to = g.to /\ At(g, place).msg = g.msg /\ At(g, place).type = g.type
         /\ At(g, place).at = place /\ At(g, place).v = 0
BY HavingType, 0 \in Nat \cup {NoEntry} DEF At

\* What is sent only grows, so what moves to a place stays accounted for.
LEMMA MoveKeeps ==
  ASSUME TypeInv, NEW g \in byteSend, NEW h \in Goroutine, h.to = g.to, h.msg = g.msg,
         Moves(g, h), UNCHANGED sent
  PROVE  byteSend' \subseteq Goroutine /\ Accounted'
BY DEF TypeInv, TransportTypeOK, Accounted, Moves

LEMMA EndKeeps ==
  ASSUME TypeInv, NEW g \in byteSend, Ends(g), UNCHANGED sent
  PROVE  byteSend' \subseteq Goroutine /\ Accounted'
BY DEF TypeInv, TransportTypeOK, Accounted, Ends

LEMMA ByteSendType ==
  ASSUME TypeInv, NEW g \in byteSend, ByteSend(g)
  PROVE  TypeInv'
<1>g. g \in Goroutine /\ g.to \in Node /\ g.msg \in Message /\ g.v \in Nat \cup {NoEntry}
  BY DEF TypeInv, TransportTypeOK, Goroutine
<1>at. \A place \in Place : At(g, place) \in Goroutine /\ At(g, place).to = g.to
                             /\ At(g, place).msg = g.msg
  BY <1>g, AtType
<1> USE DEF TypeInv, Place
<1>1. CASE Lookup(g)
  <2> DEFINE h == At(g, IF Usable(g.to) THEN "send" ELSE "build")
  <2>1. h \in Goroutine /\ h.to = g.to /\ h.msg = g.msg
    BY <1>at
  <2>2. byteSend' \subseteq Goroutine /\ Accounted'
    BY <1>1, <2>1, MoveKeeps DEF Lookup
  <2> QED
    BY <1>1, <2>2 DEF Lookup, TransportTypeOK, connVars, envVars, historyVars
<1>2. CASE BuildConnection(g)
  <2>1. byteSend' \subseteq Goroutine /\ Accounted'
    BY <1>2, <1>at, MoveKeeps DEF BuildConnection
  <2> QED
    BY <1>2, <1>g, <2>1
    DEF BuildConnection, Insert, Connection, TransportTypeOK, envVars, historyVars
<1>3. CASE GetAgain(g)
  <2> DEFINE h == At(g, IF Usable(g.to) THEN "send" ELSE "sendNil")
  <2>1. h \in Goroutine /\ h.to = g.to /\ h.msg = g.msg
    BY <1>at
  <2>2. byteSend' \subseteq Goroutine /\ Accounted'
    BY <1>3, <2>1, MoveKeeps DEF GetAgain
  <2> QED
    BY <1>3, <2>2 DEF GetAgain, TransportTypeOK, connVars, envVars, historyVars
<1>4. CASE SendByteMsg(g)
  <2>1. byteSend' \subseteq Goroutine /\ Accounted'
    BY <1>4, <1>at, MoveKeeps DEF SendByteMsg
  <2>2. received' \subseteq sent' /\ failed' \subseteq Node /\ err' \in BOOLEAN
    BY <1>4, <1>g DEF SendByteMsg, Accounted, TransportTypeOK
  <2>3. faults' \in 0 .. MaxFaults
    BY <1>4, Nodes DEF SendByteMsg, TransportTypeOK
  <2> QED
    BY <1>4, <2>1, <2>2, <2>3 DEF SendByteMsg, TransportTypeOK, connVars
<1>5. CASE SendNil(g)
  BY <1>5 DEF SendNil, Accounted, TransportTypeOK, connVars, envVars, historyVars
<1>6. CASE CheckErr(g)
  <2>1. byteSend' \subseteq Goroutine /\ Accounted'
    BY <1>6, <1>at, MoveKeeps, EndKeeps DEF CheckErr
  <2> QED
    BY <1>6, <2>1 DEF CheckErr, TransportTypeOK, connVars, envVars, historyVars
<1>7. CASE ReadCount(g)
  <2> DEFINE h == Having(g, "count", connectionMap[g.to])
  <2>1. connectionMap[g.to] \in Nat \cup {NoEntry}
    BY <1>g DEF TransportTypeOK
  <2>h. h \in Goroutine /\ h.to = g.to /\ h.msg = g.msg
    <3>1. "count" \in Place
      OBVIOUS
    <3> QED
      BY <1>g, <2>1, <3>1 DEF Having, Goroutine
  <2>2. byteSend' \subseteq Goroutine /\ Accounted'
    BY <1>7, <2>h, MoveKeeps DEF ReadCount
  <2>3. counted' \in [Node -> Nat]
    BY <1>7, <1>g DEF ReadCount, TransportTypeOK
  <2> QED
    BY <1>7, <2>2, <2>3 DEF ReadCount, TransportTypeOK, connVars, envVars
<1>8. CASE WriteCount(g)
  <2>1. byteSend' \subseteq Goroutine /\ Accounted'
    BY <1>8, <1>at, MoveKeeps DEF WriteCount
  <2>2. g.v + 1 \in Nat \cup {NoEntry}
    BY <1>g DEF NoEntry
  <2> QED
    BY <1>8, <1>g, <2>1, <2>2 DEF WriteCount, TransportTypeOK, envVars, historyVars
<1>9. CASE DropConnection(g)
  <2>1. byteSend' \subseteq Goroutine /\ Accounted'
    BY <1>9, EndKeeps DEF DropConnection
  <2> QED
    BY <1>9, <1>g, <2>1 DEF DropConnection, Connection, TransportTypeOK, envVars, historyVars
<1> QED
  BY <1>1, <1>2, <1>3, <1>4, <1>5, <1>6, <1>7, <1>8, <1>9 DEF ByteSend

LEMMA StartType ==
  ASSUME TypeInv, NEW gs \in SUBSET Goroutine, Start(gs)
  PROVE  /\ byteSend' \subseteq Goroutine /\ Accounted'
         /\ sent' \subseteq Message \X Node /\ sent \subseteq sent'
BY DEF TypeInv, TransportTypeOK, Accounted, Start, Goroutine

LEMMA SetLiveType ==
  ASSUME TypeInv, NEW p \in Node, SetLive(p)
  PROVE  TypeInv'
BY DEF TypeInv, TransportTypeOK, Accounted, SetLive, envVars, historyVars

LEMMA EnvironmentType ==
  ASSUME TypeInv, NEW p \in Node, Crash(p) \/ Restart(p)
  PROVE  TypeInv'
<1>1. up' \subseteq Node /\ faults' \in 0 .. MaxFaults
  BY Nodes DEF TypeInv, TransportTypeOK, Crash, Restart
<1> QED
  BY <1>1 DEF TypeInv, TransportTypeOK, Accounted, Crash, Restart, connVars, historyVars

LEMMA TypeStep == TypeInv /\ [Steps]_tVars => TypeInv'
<1> SUFFICES ASSUME TypeInv, [Steps]_tVars PROVE TypeInv'
  OBVIOUS
<1>1. CASE \E g \in byteSend : ByteSend(g)
  BY <1>1, ByteSendType
<1>2. CASE \E p \in Node : Crash(p) \/ Restart(p)
  BY <1>2, EnvironmentType
<1>3. ASSUME NEW gs \in SUBSET Goroutine, Send(gs) PROVE TypeInv'
  BY <1>3, StartType DEF Send, TypeInv, TransportTypeOK, connVars, envVars, historyVars
<1>s. CASE \E p \in Node : SetLive(p)
  BY <1>s, SetLiveType
<1>4. CASE UNCHANGED tVars
  BY <1>4 DEF tVars, TypeInv, TransportTypeOK, Accounted, connVars, envVars, historyVars
<1> QED
  BY <1>1, <1>2, <1>3, <1>4, <1>s DEF Steps, SendNext

\* Every variable of the sender has its type in every state of TransportSpec, for
\* groups of any size, and a goroutine at work is one of a message that was sent.
THEOREM SenderTypes == TransportSpec => [](TransportTypeOK /\ Accounted)
<1> QED
  BY SenderSteps, TypeInit, TypeStep, PTL DEF TypeInv

(***************************************************************************)
(* Nodes taken for dead                                                    *)
(***************************************************************************)

\* The count that is kept, and one that a goroutine has read and not yet
\* written, never exceed the number of failures counted.
CountsBound ==
  /\ \A p \in Node : connectionMap[p] <= counted[p]
  /\ \A g \in byteSend : g.at = "count" => g.v + 1 <= counted[g.to]

EarnedInv == TypeInv /\ CountsBound /\ BlacklistEarned

\* A step that leaves the counts alone and starts no goroutine in the middle of
\* counting.
LEMMA CountsKept ==
  ASSUME EarnedInv, TypeInv', UNCHANGED <<connectionMap, connection, counted>>,
         \A g \in byteSend' \ byteSend : g.at # "count"
  PROVE  EarnedInv'
BY DEF EarnedInv, CountsBound, BlacklistEarned

LEMMA EarnedByteSend ==
  ASSUME EarnedInv, NEW g \in byteSend, ByteSend(g)
  PROVE  EarnedInv'
<1>t. TypeInv /\ TypeInv'
  BY ByteSendType DEF EarnedInv
<1>g. g \in Goroutine /\ g.to \in Node /\ g.v \in Nat \cup {NoEntry}
  BY <1>t DEF TypeInv, TransportTypeOK, Goroutine
<1>c. counted \in [Node -> Nat] /\ connectionMap \in [Node -> Nat \cup {NoEntry}]
  BY <1>t DEF TypeInv, TransportTypeOK
<1>at. \A place \in Place : At(g, place).at = place
  BY <1>g, AtType
<1>1. CASE \/ Lookup(g) \/ BuildConnection(g) \/ GetAgain(g) \/ SendByteMsg(g)
           \/ SendNil(g) \/ CheckErr(g) \/ DropConnection(g)
  <2>1. UNCHANGED <<connectionMap, connection, counted>>
    BY <1>1 DEF Lookup, BuildConnection, GetAgain, SendByteMsg, SendNil, CheckErr,
                DropConnection, connVars, historyVars
  <2>2. \A h \in byteSend' \ byteSend : h.at # "count"
    BY <1>1, <1>at DEF Lookup, BuildConnection, GetAgain, SendByteMsg, SendNil,
                       CheckErr, DropConnection, Moves, Ends, Place
  <2> QED
    BY <1>t, <2>1, <2>2, CountsKept
<1>2. CASE ReadCount(g)
  <2> DEFINE h == Having(g, "count", connectionMap[g.to])
  <2>1. h.to = g.to /\ h.v = connectionMap[g.to]
    <3>1. "count" \in Place /\ connectionMap[g.to] \in Nat \cup {NoEntry}
      BY <1>g, <1>c DEF Place
    <3> QED
      BY <1>g, <3>1 DEF Having, Goroutine
  <2>2. connectionMap[g.to] + 1 <= counted'[g.to]
    BY <1>2, <1>g, <1>c DEF ReadCount, EarnedInv, CountsBound, NoEntry
  <2>3. \A p \in Node : counted'[p] \in Nat /\ counted[p] \in Nat /\ counted[p] <= counted'[p]
    BY <1>2, <1>g, <1>c DEF ReadCount
  <2>4. UNCHANGED <<connectionMap, connection>>
    BY <1>2 DEF ReadCount, connVars
  <2>5. \A p \in Node : connectionMap'[p] <= counted'[p]
    BY <1>c, <2>3, <2>4 DEF EarnedInv, CountsBound, NoEntry
  <2>6. \A k \in byteSend' : k.at = "count" => k.v + 1 <= counted'[k.to]
    <3>1. \A k \in byteSend : k.to \in Node /\ k.v \in Nat \cup {NoEntry}
      BY <1>t DEF TypeInv, TransportTypeOK, Goroutine
    <3>2. \A k \in byteSend : k.at = "count" => k.v + 1 <= counted'[k.to]
      BY <2>3, <3>1 DEF EarnedInv, CountsBound, NoEntry
    <3> QED
      BY <1>2, <2>1, <2>2, <3>2 DEF ReadCount, Moves
  <2>7. BlacklistEarned'
    BY <1>t, <2>3, <2>4, Nodes DEF EarnedInv, BlacklistEarned, TypeInv, TransportTypeOK
  <2> QED
    BY <1>t, <2>5, <2>6, <2>7 DEF EarnedInv, CountsBound
<1>3. CASE WriteCount(g)
  <2>1. g.v + 1 <= counted[g.to] /\ UNCHANGED counted
    BY <1>3 DEF WriteCount, EarnedInv, CountsBound, historyVars
  <2>2. \A p \in Node : connectionMap'[p] <= counted'[p]
    BY <1>3, <1>g, <1>c, <2>1 DEF WriteCount, EarnedInv, CountsBound
  <2>3. \A k \in byteSend' : k.at = "count" => k.v + 1 <= counted'[k.to]
    BY <1>3, <1>at, <2>1 DEF WriteCount, Moves, Place, EarnedInv, CountsBound
  <2>4. Exceeds(g.v) => counted[g.to] >= MaxLimit + 2
    BY <1>g, <1>c, <2>1, Nodes DEF Exceeds, NoEntry
  <2>5. BlacklistEarned'
    BY <1>3, <2>1, <2>4 DEF WriteCount, EarnedInv, BlacklistEarned
  <2> QED
    BY <1>t, <2>2, <2>3, <2>5 DEF EarnedInv, CountsBound
<1> QED
  BY <1>1, <1>2, <1>3 DEF ByteSend

LEMMA EarnedSetLive ==
  ASSUME EarnedInv, NEW p \in Node, SetLive(p)
  PROVE  EarnedInv'
<1>1. TypeInv /\ TypeInv'
  BY SetLiveType DEF EarnedInv
<1>2. UNCHANGED <<counted, byteSend>>
  BY DEF SetLive, historyVars
<1>3. \A q \in Node : connectionMap'[q] <= counted'[q]
  BY <1>1, <1>2 DEF SetLive, EarnedInv, CountsBound, TypeInv, TransportTypeOK
<1> QED
  BY <1>1, <1>2, <1>3 DEF SetLive, EarnedInv, CountsBound, BlacklistEarned

LEMMA EarnedStep == EarnedInv /\ [Steps]_tVars => EarnedInv'
<1> SUFFICES ASSUME EarnedInv, [Steps]_tVars PROVE EarnedInv'
  OBVIOUS
<1>t. TypeInv /\ TypeInv'
  BY TypeStep DEF EarnedInv
<1>1. CASE \E g \in byteSend : ByteSend(g)
  BY <1>1, EarnedByteSend
<1>2. CASE \E p \in Node : Crash(p) \/ Restart(p)
  BY <1>2, <1>t, CountsKept DEF Crash, Restart, connVars, historyVars
<1>3. ASSUME NEW gs \in SUBSET Goroutine, Send(gs) PROVE EarnedInv'
  <2>1. \A g \in byteSend' \ byteSend : g.at # "count"
    BY <1>3 DEF Send, Start
  <2> QED
    BY <1>3, <1>t, <2>1, CountsKept DEF Send, connVars, historyVars
<1>s. CASE \E p \in Node : SetLive(p)
  BY <1>s, EarnedSetLive
<1>4. CASE UNCHANGED tVars
  BY <1>4, <1>t, CountsKept DEF tVars, connVars, historyVars
<1> QED
  BY <1>1, <1>2, <1>3, <1>4, <1>s DEF Steps, SendNext

LEMMA EarnedInit == TransportInit => EarnedInv
<1> SUFFICES ASSUME TransportInit PROVE EarnedInv
  OBVIOUS
<1>1. TypeInv
  BY TypeInit
<1> QED
  BY <1>1 DEF TransportInit, StartSender, EarnedInv, CountsBound, BlacklistEarned, NoEntry

\* For any number of nodes, messages and failures, no interleaving of the
\* goroutines puts a node on the blacklist before maxLimit + 2 failures were
\* counted for it.
THEOREM BlacklistNeverEarly == TransportSpec => []BlacklistEarned
<1>1. EarnedInv => BlacklistEarned
  BY DEF EarnedInv
<1> QED
  BY <1>1, SenderSteps, EarnedInit, EarnedStep, PTL

(***************************************************************************)
(* Messages when nothing fails                                             *)
(***************************************************************************)

\* What is sent was received or is still to be called.
Underway(x) == \E g \in byteSend : g.at \in Pending /\ x = <<g.msg, g.to>>

NothingFailed ==
  /\ up = Node /\ ~err /\ ~panicked /\ connection = {}
  /\ \A p \in Node : connections[p] # "nil"
  /\ \A g \in byteSend : /\ g.at \in Pending \cup {"check"}
                         /\ g.at = "get" => Usable(g.to)
  /\ \A x \in sent : x \in received \/ Underway(x)

ReliableInv == TypeInv /\ (faults = 0 => NothingFailed)

LEMMA ReliableInit == TransportInit => ReliableInv
<1> SUFFICES ASSUME TransportInit PROVE ReliableInv
  OBVIOUS
<1>1. TypeInv
  BY TypeInit
<1>2. connections = [p \in Node |-> "none"]
  BY DEF TransportInit, StartSender
<1> QED
  BY <1>1, <1>2 DEF TransportInit, StartSender, ReliableInv, NothingFailed

\* A goroutine that goes from one place before the call to another.
LEMMA UnderwayMoves ==
  ASSUME NothingFailed, NEW g \in byteSend, NEW h, h.to = g.to, h.msg = g.msg,
         h.at \in Pending, Moves(g, h), UNCHANGED <<sent, received>>
  PROVE  \A x \in sent' : x \in received' \/ Underway(x)'
<1> SUFFICES ASSUME NEW x \in sent, x \notin received PROVE Underway(x)'
  OBVIOUS
<1>1. PICK k \in byteSend : k.at \in Pending /\ x = <<k.msg, k.to>>
  BY DEF NothingFailed, Underway
<1>2. h \in byteSend' /\ (k # g => k \in byteSend')
  BY DEF Moves
<1>3. CASE k = g
  BY <1>1, <1>2, <1>3 DEF Underway
<1>4. CASE k # g
  BY <1>1, <1>2, <1>4 DEF Underway
<1> QED
  BY <1>3, <1>4

LEMMA ReliableByteSend ==
  ASSUME TypeInv, TypeInv', NothingFailed, NEW g \in byteSend, ByteSend(g), faults' = 0,
         faults = 0
  PROVE  NothingFailed'
<1>g. g \in Goroutine /\ g.to \in Node
  BY DEF TypeInv, TransportTypeOK, Goroutine
<1>n. connections \in [Node -> Connection]
  BY DEF TypeInv, TransportTypeOK
<1>at. \A place \in Place : /\ At(g, place).at = place /\ At(g, place).to = g.to
                            /\ At(g, place).msg = g.msg
  BY <1>g, AtType
<1>p. g.at \in Pending \cup {"check"} /\ (g.at = "get" => Usable(g.to))
  BY DEF NothingFailed
<1>1. CASE Lookup(g)
  <2> DEFINE h == At(g, IF Usable(g.to) THEN "send" ELSE "build")
  <2>1. /\ h.to = g.to /\ h.msg = g.msg /\ h.at \in {"send", "build"}
        /\ Moves(g, h)
    BY <1>1, <1>at DEF Lookup, Place
  <2>2. UNCHANGED <<connections, connection, up, err, panicked, sent, received>>
    BY <1>1 DEF Lookup, connVars, envVars
  <2>3. \A x \in sent' : x \in received' \/ Underway(x)'
    BY <2>1, <2>2, UnderwayMoves DEF Pending
  <2> QED
    BY <2>1, <2>2, <2>3 DEF NothingFailed, Moves, Pending, Usable
<1>2. CASE BuildConnection(g)
  <2> DEFINE h == At(g, "get")
  <2>1. h.to = g.to /\ h.msg = g.msg /\ h.at = "get" /\ Moves(g, h)
    BY <1>2, <1>at DEF BuildConnection, Place
  <2>2. UNCHANGED <<connection, up, err, panicked, sent, received>>
    BY <1>2 DEF BuildConnection, envVars
  <2>3. \A x \in sent' : x \in received' \/ Underway(x)'
    BY <2>1, <2>2, UnderwayMoves DEF Pending
  <2>4. /\ \A p \in Node : connections'[p] = IF p = g.to THEN "client" ELSE connections[p]
        /\ \A k \in byteSend : k.to \in Node
    BY <1>2, <1>g, <1>n DEF BuildConnection, Insert, TypeInv, TransportTypeOK, Goroutine
  <2> QED
    BY <1>g, <2>1, <2>2, <2>3, <2>4 DEF NothingFailed, Moves, Pending, Usable
<1>3. CASE GetAgain(g)
  <2> DEFINE h == At(g, "send")
  <2>1. h.to = g.to /\ h.msg = g.msg /\ h.at = "send" /\ Moves(g, h)
    BY <1>3, <1>at, <1>p DEF GetAgain, Place
  <2>2. UNCHANGED <<connections, connection, up, err, panicked, sent, received>>
    BY <1>3 DEF GetAgain, connVars, envVars
  <2>3. \A x \in sent' : x \in received' \/ Underway(x)'
    BY <2>1, <2>2, UnderwayMoves DEF Pending
  <2> QED
    BY <2>1, <2>2, <2>3 DEF NothingFailed, Moves, Pending, Usable
<1>4. CASE SendByteMsg(g)
  <2> DEFINE h == At(g, "check")
  <2>1. h.at = "check" /\ Moves(g, h)
    BY <1>4, <1>at DEF SendByteMsg, Place
  <2>2. UNCHANGED <<connections, connection, up, panicked, sent>>
    BY <1>4 DEF SendByteMsg, connVars
  <2>3. err' = FALSE /\ received' = received \cup {<<g.msg, g.to>>}
    BY <1>4, <1>g DEF SendByteMsg, NothingFailed
  <2>4. ASSUME NEW x \in sent, x \notin received' PROVE Underway(x)'
    <3>1. PICK k \in byteSend : k.at \in Pending /\ x = <<k.msg, k.to>>
      BY <2>3, <2>4 DEF NothingFailed, Underway
    <3>2. k # g
      BY <2>3, <2>4, <3>1
    <3> QED
      BY <2>1, <3>1, <3>2 DEF Moves, Underway
  <2> QED
    BY <2>1, <2>2, <2>3, <2>4 DEF NothingFailed, Moves, Pending, Usable
<1>5. ~SendNil(g) /\ ~ReadCount(g) /\ ~WriteCount(g) /\ ~DropConnection(g)
  BY <1>p DEF SendNil, ReadCount, WriteCount, DropConnection, Pending
<1>6. CASE CheckErr(g)
  <2>1. Ends(g) /\ g.at \notin Pending
    BY <1>6 DEF CheckErr, NothingFailed, Pending
  <2>2. UNCHANGED <<connections, connection, up, err, panicked, sent, received>>
    BY <1>6 DEF CheckErr, connVars, envVars
  <2>3. ASSUME NEW x \in sent, x \notin received PROVE Underway(x)'
    <3>1. PICK k \in byteSend : k.at \in Pending /\ x = <<k.msg, k.to>>
      BY <2>3 DEF NothingFailed, Underway
    <3> QED
      BY <2>1, <3>1 DEF Ends, Underway
  <2> QED
    BY <2>1, <2>2, <2>3 DEF NothingFailed, Ends, Usable
<1> QED
  BY <1>1, <1>2, <1>3, <1>4, <1>5, <1>6 DEF ByteSend

LEMMA FaultsGrow == TypeInv /\ [Steps]_tVars /\ faults' = 0 => faults = 0
<1> SUFFICES ASSUME TypeInv, [Steps]_tVars, faults' = 0 PROVE faults = 0
  OBVIOUS
<1>0. faults \in Nat
  BY Nodes DEF TypeInv, TransportTypeOK
<1>1. ASSUME NEW g \in byteSend, ByteSend(g) PROVE faults' \in {faults, faults + 1}
  BY <1>1 DEF ByteSend, Lookup, BuildConnection, GetAgain, SendByteMsg, SendNil, CheckErr,
              ReadCount, WriteCount, DropConnection, envVars
<1>2. ASSUME NEW p \in Node, Crash(p) \/ Restart(p) PROVE faults' \in {faults, faults + 1}
  BY <1>2 DEF Crash, Restart
<1>3. faults' \in {faults, faults + 1}
  BY <1>1, <1>2 DEF Steps, SendNext, Send, SetLive, tVars, envVars
<1> QED
  BY <1>0, <1>3

LEMMA ReliableStep == ReliableInv /\ [Steps]_tVars => ReliableInv'
<1> SUFFICES ASSUME ReliableInv, [Steps]_tVars PROVE ReliableInv'
  OBVIOUS
<1>t. TypeInv /\ TypeInv'
  BY TypeStep DEF ReliableInv
<1> SUFFICES ASSUME faults' = 0 PROVE NothingFailed'
  BY <1>t DEF ReliableInv
<1>0. faults = 0 /\ NothingFailed
  BY <1>t, FaultsGrow DEF ReliableInv
<1>1. CASE \E g \in byteSend : ByteSend(g)
  BY <1>0, <1>1, <1>t, ReliableByteSend
<1>2. \A p \in Node : ~Crash(p) /\ ~Restart(p)
  BY <1>0 DEF Crash, Restart, NothingFailed
<1>3. ASSUME NEW gs \in SUBSET Goroutine, Send(gs) PROVE NothingFailed'
  <2>1. Start(gs) /\ \A g \in gs : g.at = "lookup"
    BY <1>3 DEF Send
  <2>2. UNCHANGED <<connections, connection, up, err, panicked, received>>
    BY <1>3 DEF Send, connVars, envVars
  <2>3. ASSUME NEW x \in sent' PROVE x \in received' \/ Underway(x)'
    <3>1. CASE x \in sent
      BY <1>0, <2>1, <2>2, <3>1 DEF NothingFailed, Underway, Start
    <3>2. CASE \E g \in gs : x = <<g.msg, g.to>>
      BY <2>1, <3>2 DEF Underway, Start, Pending
    <3> QED
      BY <2>1, <3>1, <3>2 DEF Start
  <2> QED
    BY <1>0, <2>1, <2>2, <2>3 DEF NothingFailed, Start, Pending, Usable
<1>s. ASSUME NEW p \in Node, SetLive(p) PROVE NothingFailed'
  BY <1>0, <1>s DEF SetLive, NothingFailed, Underway, Usable, envVars
<1>4. CASE UNCHANGED tVars
  BY <1>0, <1>4 DEF NothingFailed, Underway, Usable, tVars, connVars, envVars
<1> QED
  BY <1>1, <1>2, <1>3, <1>4, <1>s DEF Steps, SendNext

LEMMA ReliableFromInv == ReliableInv => Reliable
BY DEF ReliableInv, NothingFailed, Reliable, Underway, TypeInv, TransportTypeOK

\* While no node has crashed and no call has timed out, no goroutine meets a nil
\* connection, no node is taken for dead, and once the goroutines have ended all
\* that was sent was received.
THEOREM NothingLost == TransportSpec => []Reliable
<1> QED
  BY SenderSteps, ReliableFromInv, ReliableInit, ReliableStep, PTL

(***************************************************************************)
(* Thresholds                                                              *)
(***************************************************************************)

\* The configurations that the arithmetic of StartQuorum fits: group A has four
\* nodes, and CrossSigGroup has 3f + 1 nodes in group B, and at least four.
Fits(d) ==
  /\ d.numA = 4
  /\ d.mode = "CrossSigGroup" => d.numB >= 4 /\ \E t \in Nat : d.numB = 3 * t + 1

\* StartHandler calls one Init function or two.
LEMMA Calls ==
  ASSUME NEW a, NEW b
  PROVE  /\ Head(<<a>>) = a /\ Tail(<<a>>) = <<>>
         /\ Head(<<a, b>>) = a /\ Tail(<<a, b>>) = <<b>>
<1>1. /\ <<a>> \in Seq({a, b}) /\ <<a, b>> \in Seq({a, b})
      /\ Len(<<a>>) = 1 /\ Len(<<a, b>>) = 2
  OBVIOUS
<1>2. Tail(<<a>>) \in Seq({a, b}) /\ Len(Tail(<<a>>)) = 0
  BY <1>1
<1>3. Tail(<<a, b>>) \in Seq({a, b}) /\ Len(Tail(<<a, b>>)) = 1 /\ Tail(<<a, b>>)[1] = b
  BY <1>1
<1>4. <<b>> \in Seq({a, b}) /\ Len(<<b>>) = 1 /\ <<b>>[1] = b
  OBVIOUS
<1> QED
  BY <1>1, <1>2, <1>3, <1>4

\* The voters as the last Init function counts them.
CountedVoters == IF FourShort THEN Voters - 4 ELSE Voters

AreSizes == quorum = QuorumSize(CountedVoters) /\ squorum = SQuorumSize(CountedVoters)

\* The calls that are left, and once the thresholds are final, what they are.
Sized ==
  /\ conf \in Deployment
  /\ \/ calls = InitCalls(conf)
     \/ FourShort /\ calls = <<"InitCROSS">>
     \/ conf.mode = "CrossABC" /\ ~FourShort /\ calls = <<"InitADD">> /\ AreSizes
     \/ conf.mode = "CrossSigGroup" /\ calls = <<"InitHotStuff">>
     \/ calls = <<>> /\ AreSizes

LEMMA SizedInit == Init => Sized
BY DEF Init, Sized

\* What StartQuorum is given, when group A has four nodes.
LEMMA SizesSet ==
  ASSUME conf.numA = 4, conf.numB \in Nat \ {0}, conf' = conf,
         \/ ~FourShort /\ conf.mode # "DeltaBA" /\ StartQuorum(NumReplicas)
         \/ FourShort /\ StartQuorum(conf.numB)
         \/ conf.mode = "DeltaBA" /\ StartDeltaQuorum(NumReplicas)
  PROVE  AreSizes'
<1>1. CountedVoters' = CountedVoters
  BY DEF CountedVoters, Voters, FourShort, NumReplicas
<1>2. quorum' = QuorumSize(CountedVoters) /\ squorum' = SQuorumSize(CountedVoters)
  BY DEF CountedVoters, Voters, FourShort, NumReplicas, StartQuorum, StartDeltaQuorum,
         SetSizes, GroupBByStartQuorum
<1> QED
  BY <1>1, <1>2 DEF AreSizes

LEMMA SizedStep ==
  ASSUME \A d \in Deployment : Fits(d), Sized, [Next]_startVars
  PROVE  Sized'
<1>1. /\ conf.numA = 4 /\ conf.numB \in Nat \ {0} /\ conf.add \in {0, 1}
      /\ conf.mode \in Mode
  BY Deployments DEF Sized, Fits, Mode, System
<1>2. CASE UNCHANGED startVars
  BY <1>2 DEF startVars, Sized, AreSizes, CountedVoters, FourShort, Voters, NumReplicas
<1>3. CASE Next
  <2>1. calls # <<>> /\ calls' = Tail(calls) /\ conf' = conf
    BY <1>3
    DEF Next, InitRBC, InitHotStuff, InitGroupSig, InitCROSS, InitADD, InitDelta, Call
  <2>2. /\ Head(calls) \in {"InitRBC", "InitHotStuff", "InitGroupSig"}
             => StartQuorum(NumReplicas)
        /\ Head(calls) = "InitDelta" => StartDeltaQuorum(NumReplicas)
        /\ Head(calls) = "InitCROSS" => StartQuorum(conf.numB)
        /\ Head(calls) = "InitADD" => UNCHANGED <<quorum, squorum>>
    BY <1>3
    DEF Next, InitRBC, InitHotStuff, InitGroupSig, InitCROSS, InitADD, InitDelta, Call
  <2>3. conf' \in Deployment
    BY <2>1 DEF Sized
  <2>4. CASE calls = <<"InitRBC">> /\ conf.mode = "CrossRA"
    <3>1. AreSizes' /\ calls' = <<>>
      BY <1>1, <2>1, <2>2, <2>4, Calls, SizesSet DEF FourShort
    <3> QED
      BY <2>3, <3>1 DEF Sized
  <2>5. CASE calls = <<"InitDelta">> /\ conf.mode = "DeltaBA"
    <3>1. AreSizes' /\ calls' = <<>>
      BY <1>1, <2>1, <2>2, <2>5, Calls, SizesSet
    <3> QED
      BY <2>3, <3>1 DEF Sized
  <2>6. CASE conf.mode = "CrossABC" /\ ~FourShort /\ calls = <<"InitHotStuff", "InitADD">>
    <3>1. AreSizes' /\ calls' = <<"InitADD">>
      BY <1>1, <2>1, <2>2, <2>6, Calls, SizesSet
    <3> QED
      BY <2>1, <2>3, <2>6, <3>1 DEF Sized, FourShort
  <2>7. CASE conf.mode = "CrossABC" /\ ~FourShort /\ calls = <<"InitADD">> /\ AreSizes
    <3>1. calls' = <<>> /\ UNCHANGED <<quorum, squorum>>
      BY <2>1, <2>2, <2>7, Calls
    <3>2. AreSizes'
      BY <2>1, <2>7, <3>1 DEF AreSizes, CountedVoters, FourShort, Voters, NumReplicas
    <3> QED
      BY <2>3, <3>1, <3>2 DEF Sized
  <2>8. CASE FourShort /\ calls = <<"InitHotStuff", "InitCROSS">>
    <3>1. calls' = <<"InitCROSS">>
      BY <2>1, <2>8, Calls
    <3> QED
      BY <2>1, <2>3, <2>8, <3>1 DEF Sized, FourShort
  <2>9. CASE FourShort /\ calls = <<"InitCROSS">>
    <3>1. AreSizes' /\ calls' = <<>>
      BY <1>1, <2>1, <2>2, <2>9, Calls, SizesSet
    <3> QED
      BY <2>3, <3>1 DEF Sized
  <2>10. CASE conf.mode = "CrossSigGroup" /\ calls = <<"InitGroupSig", "InitHotStuff">>
    <3>1. calls' = <<"InitHotStuff">>
      BY <2>1, <2>10, Calls
    <3> QED
      BY <2>1, <2>3, <2>10, <3>1 DEF Sized
  <2>11. CASE conf.mode = "CrossSigGroup" /\ calls = <<"InitHotStuff">>
    <3>1. AreSizes' /\ calls' = <<>>
      BY <1>1, <2>1, <2>2, <2>11, Calls, SizesSet DEF FourShort
    <3> QED
      BY <2>3, <3>1 DEF Sized
  <2>12. CASE calls = InitCalls(conf)
    <3>1. CASE conf.mode = "CrossABC"
      <4>1. IF conf.add = 0 THEN calls = <<"InitHotStuff", "InitCROSS">>
                            ELSE calls = <<"InitHotStuff", "InitADD">>
        BY <2>12, <3>1 DEF InitCalls
      <4> QED
        BY <1>1, <2>6, <2>8, <3>1, <4>1 DEF FourShort
    <3>2. CASE conf.mode = "CrossSigGroup"
      BY <2>10, <2>12, <3>2 DEF InitCalls
    <3>3. CASE conf.mode = "CrossRA"
      BY <2>4, <2>12, <3>3 DEF InitCalls
    <3>4. CASE conf.mode = "DeltaBA"
      BY <2>5, <2>12, <3>4 DEF InitCalls
    <3> QED
      BY <1>1, <3>1, <3>2, <3>3, <3>4 DEF Mode
  <2> QED
    BY <2>1, <2>7, <2>9, <2>11, <2>12 DEF Sized
<1> QED
  BY <1>2, <1>3

\* What the thresholds are once the replica has started.
LEMMA StartedSizes ==
  ASSUME \A d \in Deployment : Fits(d), Sized, Started
  PROVE  /\ conf.numB \in Nat \ {0} /\ Voters \in Nat \ {0} /\ AreSizes
         /\ FSize(Voters) \in Nat /\ 3 * FSize(Voters) < Voters
         /\ FourShort => Voters = conf.numB
         /\ conf.mode = "CrossSigGroup" =>
              \E t \in Nat \ {0} : /\ Voters = 3 * t + 1 /\ FSize(Voters) = t
                                   /\ DecisionQuorum = 2 * t + 1
                                   /\ WitnessQuorum = t + 2
<1>1. /\ conf.numB \in Nat \ {0} /\ conf.numA = 4 /\ conf.mode \in Mode
      /\ conf.mode = "CrossSigGroup" =>
           conf.numB >= 4 /\ \E t \in Nat : conf.numB = 3 * t + 1
  BY Deployments DEF Sized, Fits, Mode, System
<1>2. Voters \in Nat \ {0} /\ (FourShort => Voters = conf.numB)
  BY <1>1 DEF Voters, NumReplicas, FourShort
<1>3. FSize(Voters) \in Nat /\ 3 * FSize(Voters) < Voters /\ Voters <= 3 * FSize(Voters) + 3
  BY <1>2, FSizeBound
<1>4. AreSizes
  BY <1>1 DEF Sized, Started, InitCalls, Mode
<1>5. ASSUME conf.mode = "CrossSigGroup"
      PROVE  \E t \in Nat \ {0} : /\ Voters = 3 * t + 1 /\ FSize(Voters) = t
                                  /\ DecisionQuorum = 2 * t + 1 /\ WitnessQuorum = t + 2
  <2>1. PICK t \in Nat : conf.numB = 3 * t + 1 /\ t >= 1
    BY <1>1, <1>5
  <2>2. Voters = 3 * t + 1 /\ FSize(Voters) = t
    BY <1>3, <1>5, <2>1 DEF Voters
  <2>3. DecisionQuorum = 2 * t + 1
    BY <1>5, <2>1 DEF DecisionQuorum, SigGroupBFullQuorum, GoDiv
  <2>4. WitnessQuorum = t + 2
    BY <1>5, <2>1 DEF WitnessQuorum, SigGroupBQuorum, GoDiv
  <2> QED
    BY <2>1, <2>2, <2>3, <2>4
<1> QED
  BY <1>1, <1>2, <1>3, <1>4, <1>5

LEMMA MeetFromSized ==
  ASSUME \A d \in Deployment : Fits(d), Sized
  PROVE  QuorumsMeet /\ WitnessCorrect
<1> SUFFICES ASSUME Started, ~FourShort
             PROVE  /\ 2 * DecisionQuorum - Voters > FSize(Voters)
                    /\ WitnessQuorum > FSize(Voters)
  BY DEF QuorumsMeet, WitnessCorrect
<1>1. CASE conf.mode = "CrossSigGroup"
  BY <1>1, StartedSizes
<1>2. CASE conf.mode # "CrossSigGroup"
  <2>1. Voters \in Nat \ {0} /\ FSize(Voters) \in Nat
    BY StartedSizes
  <2>2. DecisionQuorum = QuorumSize(Voters) /\ WitnessQuorum = FSize(Voters) + 1
    BY <1>2, StartedSizes DEF DecisionQuorum, WitnessQuorum, AreSizes, CountedVoters, SQuorumSize
  <2>3. 2 * QuorumSize(Voters) - Voters > FSize(Voters)
    BY <2>1, QuorumSizeSound
  <2> QED
    BY <2>1, <2>2, <2>3
<1> QED
  BY <1>1, <1>2

\* Counting group B four short asks for fewer votes, not for more.
LEMMA FourShortReachable ==
  ASSUME NEW b \in Nat \ {0}
  PROVE  /\ QuorumSize(b - 4) <= b - FSize(b)
         /\ SQuorumSize(b - 4) <= b - FSize(b)
<1>1. CASE b < 5
  <2>1. b = 1 \/ b = 2 \/ b = 3 \/ b = 4
    BY <1>1
  <2> QED
    BY <2>1 DEF QuorumSize, SQuorumSize, FSize, GoDiv, GoRem
<1>2. CASE b >= 5
  <2>1. FSize(b) = (b - 1) \div 3 /\ FSize(b - 4) = (b - 5) \div 3
    BY <1>2 DEF FSize, GoDiv
  <2>2. b - 4 \in Nat \ {0}
    BY <1>2
  <2>3. /\ QuorumSize(b - 4) \in Nat
        /\ 2 * QuorumSize(b - 4) <= (b - 4) + FSize(b - 4) + 2
    BY <2>2, QuorumSizeBound
  <2>4. SQuorumSize(b - 4) = FSize(b - 4) + 1
    BY DEF SQuorumSize
  <2> QED
    BY <1>2, <2>1, <2>3, <2>4
<1> QED
  BY <1>1, <1>2

LEMMA ReachableFromSized ==
  ASSUME \A d \in Deployment : Fits(d), Sized
  PROVE  QuorumReachable
<1> SUFFICES ASSUME Started
             PROVE  /\ DecisionQuorum <= Voters - FSize(Voters)
                    /\ WitnessQuorum <= Voters - FSize(Voters)
  BY DEF QuorumReachable
<1>1. CASE conf.mode = "CrossSigGroup"
  BY <1>1, StartedSizes
<1>2. CASE conf.mode # "CrossSigGroup"
  <2>1. /\ DecisionQuorum = QuorumSize(CountedVoters)
        /\ WitnessQuorum = SQuorumSize(CountedVoters)
    BY <1>2, StartedSizes DEF DecisionQuorum, WitnessQuorum, AreSizes
  <2>2. CASE FourShort
    BY <2>1, <2>2, StartedSizes, FourShortReachable DEF CountedVoters
  <2>3. CASE ~FourShort
    <3>1. QuorumSize(Voters) <= Voters - FSize(Voters)
      BY StartedSizes, QuorumSizeSound
    <3> QED
      BY <2>1, <2>3, <3>1, StartedSizes DEF CountedVoters, SQuorumSize
  <2> QED
    BY <2>2, <2>3
<1> QED
  BY <1>1, <1>2

\* The replica goes on where the start has ended, and sets no threshold again.
LEMMA StartSteps == ReplicaSpec => Init /\ [][Next]_startVars
<1>1. [ReplicaNext]_replicaVars => [Next]_startVars
  BY DEF ReplicaNext, ClientNext, BroadcastRequest, DialContext, DialFails, SendRequest,
         Return, HandleRequest, RequestMonitor, Answer, HandleQCByteMsg, replicaVars
<1> QED
  BY <1>1, PTL DEF ReplicaSpec, ReplicaInit

LEMMA AlwaysSized ==
  ASSUME \A d \in Deployment : Fits(d)
  PROVE  ReplicaSpec => []Sized
BY StartSteps, SizedInit, SizedStep, PTL

\* A replica that has started in a configuration that fits needs quorums of which
\* any two meet in a correct node, for any size of group B (StartQuorum,
\* quorum.go), unless InitCROSS has counted group B four short.
THEOREM FittingQuorumsMeet ==
  ASSUME \A d \in Deployment : Fits(d)
  PROVE  ReplicaSpec => []QuorumsMeet
BY AlwaysSized, MeetFromSized, PTL

\* In the same configurations a set of witnesses holds a correct node.
THEOREM FittingWitnessCorrect ==
  ASSUME \A d \in Deployment : Fits(d)
  PROVE  ReplicaSpec => []WitnessCorrect
BY AlwaysSized, MeetFromSized, PTL

\* And the correct voters alone reach every threshold, in every mode.
THEOREM FittingQuorumReachable ==
  ASSUME \A d \in Deployment : Fits(d)
  PROVE  ReplicaSpec => []QuorumReachable
BY AlwaysSized, ReachableFromSized, PTL

(***************************************************************************)
(* What the replica sends                                                  *)
(***************************************************************************)

\* Goroutines that a function of the package may start.
Startable(gs) == gs \subseteq Goroutine /\ \A g \in gs : g.at = "lookup"

LEMMA SpawnStartable ==
  ASSUME NEW nodes \in SUBSET Node, NEW type \in MessageType, NEW m \in Message
  PROVE  Startable(Spawn(nodes, type, m))
BY SpawnType DEF Startable

LEMMA InstancesType ==
  ASSUME NEW c \in Client
  PROVE  Instances(c) \subseteq Message
BY Fronts DEF Instances

LEMMA StartProcessingStartable ==
  ASSUME NEW c \in Client
  PROVE  Startable(StartProcessing(c))
<1> DEFINE ms == Instances(c)
<1>1. ms \subseteq Message
  BY InstancesType
<1>2. /\ BNode \subseteq Node /\ \A p \in BNode : {p} \subseteq Node
      /\ FetchNodesFromConfig(conf.mode) \subseteq Node
      /\ "RBC_ALL" \in MessageType
  BY DEF Node, FetchNodesFromConfig, MessageType
<1> HIDE DEF ms
<1>3. \A m \in ms, p \in BNode : Startable(SendToNode(m, p, "RBC_ALL"))
  BY <1>1, <1>2, SpawnStartable DEF SendToNode
<1>4. Startable(UNION {SendToNode(m, p, "RBC_ALL") : m \in ms, p \in BNode})
  BY <1>3 DEF Startable
<1>5. \A m \in ms : Startable(Spawn(BNode, "RBC_ALL", m))
  BY <1>1, <1>2, SpawnStartable
<1>6. Startable(TOBBroadcast(ms)) /\ Startable({})
  BY <1>5 DEF Startable, TOBBroadcast
<1>7. \A m \in ms : Startable(Spawn(FetchNodesFromConfig(conf.mode), "RBC_ALL", m))
  BY <1>1, <1>2, SpawnStartable
<1>8. Startable(MACBroadcast(conf.mode, ms))
  BY <1>7 DEF Startable, MACBroadcast
<1> DEFINE each == UNION {SendToNode(m, p, "RBC_ALL") : m \in ms, p \in BNode}
<1>9. CASE conf.mode \in {"CrossRA", "CrossABC"} /\ conf.add = 1
  <2>1. StartProcessing(c) = each
    BY <1>9 DEF StartProcessing, ms
  <2> HIDE DEF each
  <2>2. Startable(each)
    BY <1>4 DEF each
  <2> QED
    BY <2>1, <2>2
<1>10. CASE conf.mode = "CrossSigGroup"
  BY <1>6, <1>10 DEF StartProcessing, ms
<1>11. CASE /\ ~(conf.mode \in {"CrossRA", "CrossABC"} /\ conf.add = 1)
            /\ conf.mode # "CrossSigGroup"
  BY <1>8, <1>11 DEF StartProcessing, ms
<1> QED
  BY <1>9, <1>10, <1>11

LEMMA AnswersStartable ==
  ASSUME NEW m \in Reply, NEW gs \in Answers(m), conf \in Deployment
  PROVE  Startable(gs)
<1>1. m \in Message
  BY Fronts
<1>2. /\ \A p \in Node : {p} \subseteq Node
      /\ ANode \subseteq Node /\ BNode \subseteq Node /\ First \in Node
      /\ FetchNodesFromConfig(conf.mode) \subseteq Node
      /\ FetchNodesFromConfig(conf.mode) \ {self} \subseteq Node
      /\ "RBC_ALL" \in MessageType /\ "HotStuff_Msg" \in MessageType
  BY Fronts DEF Node, FetchNodesFromConfig, MessageType
<1>3. \A p \in Node, type \in MessageType : Startable(SendToNode(m, p, type))
  BY <1>1, <1>2, SpawnStartable DEF SendToNode
<1>4. Startable(ToAGroupResNode(m, First)) /\ Startable(TOABroadcast(m))
  BY <1>1, <1>2, SpawnStartable DEF ToAGroupResNode, TOABroadcast
<1>5. Startable(RBCByteBroadcast(conf.mode, m))
  BY <1>1, <1>2, SpawnStartable DEF RBCByteBroadcast
<1>6. Startable(MACBroadcast(conf.mode, {m})) /\ Startable(TOBBroadcast({m}))
  <2>1. /\ Startable(Spawn(FetchNodesFromConfig(conf.mode), "RBC_ALL", m))
        /\ Startable(Spawn(BNode, "RBC_ALL", m))
    BY <1>1, <1>2, SpawnStartable
  <2> QED
    BY <2>1 DEF Startable, MACBroadcast, TOBBroadcast
<1>7. Startable(UNION {SendToNode(m, p, "RBC_ALL") : p \in BNode})
  BY <1>2, <1>3 DEF Startable
<1>8. Startable(TOBBroadcast({m}) \cup TOABroadcast(m))
  BY <1>4, <1>6 DEF Startable
<1>9. /\ conf.mode \in Mode /\ conf.add \in {0, 1}
  BY Deployments DEF System
<1>10. CASE conf.mode = "CrossRA" /\ conf.add = 0
  BY <1>6, <1>10 DEF Answers
<1>11. CASE conf.mode = "CrossRA" /\ conf.add = 1
  <2> DEFINE each == UNION {SendToNode(m, p, "RBC_ALL") : p \in BNode}
  <2>1. Answers(m) = {each}
    BY <1>11 DEF Answers
  <2>2. Startable(each)
    BY <1>7
  <2> HIDE DEF each
  <2> QED
    BY <2>1, <2>2
<1>12. CASE conf.mode = "CrossABC"
  BY <1>2, <1>3, <1>5, <1>12 DEF Answers
<1>13. CASE conf.mode = "CrossSigGroup"
  BY <1>4, <1>8, <1>13 DEF Answers
<1>14. CASE conf.mode = "DeltaBA"
  BY <1>6, <1>14 DEF Answers
<1> QED
  BY <1>9, <1>10, <1>11, <1>12, <1>13, <1>14 DEF Mode

\* The replica has one of the configurations, and keeps it.
ConfKept == conf \in Deployment

LEMMA ConfStep == ConfKept /\ [ReplicaNext]_replicaVars => ConfKept' /\ conf' = conf
<1> SUFFICES ASSUME ConfKept, [ReplicaNext]_replicaVars PROVE conf' = conf
  BY DEF ConfKept
<1>1. Next => conf' = conf
  BY DEF Next, InitRBC, InitHotStuff, InitGroupSig, InitCROSS, InitADD, InitDelta, Call
<1> QED
  BY <1>1 DEF ReplicaNext, ClientNext, BroadcastRequest, DialContext, DialFails, SendRequest,
              Return, HandleRequest, RequestMonitor, Answer, HandleQCByteMsg, replicaVars,
              startVars

QueueType == queue \in Seq(Client) /\ started \in Seq(Client)

\* RequestMonitor starts the goroutines of one request, Answer those of one
\* message.
LEMMA MonitorSends ==
  ASSUME QueueType, RequestMonitor
  PROVE  Send(StartProcessing(Head(queue))) /\ Head(queue) \in Client
         /\ StartProcessing(Head(queue)) \in SUBSET Goroutine
<1>1. Head(queue) \in Client
  BY HeadTailProperties DEF QueueType, RequestMonitor
<1>2. Startable(StartProcessing(Head(queue)))
  BY <1>1, StartProcessingStartable
<1> QED
  BY <1>1, <1>2 DEF Startable, RequestMonitor, Send

LEMMA ReplicaSteps ==
  ASSUME QueueType, ConfKept, [ReplicaNext]_replicaVars
  PROVE  [Steps]_tVars
<1>1. CASE RequestMonitor
  BY <1>1, MonitorSends DEF Steps
<1>2. ASSUME NEW m \in Reply, Answer(m) PROVE [Steps]_tVars
  <2>1. PICK gs \in Answers(m) : Start(gs)
    BY <1>2 DEF Answer
  <2>2. Startable(gs)
    BY AnswersStartable DEF ConfKept
  <2>3. Send(gs)
    BY <1>2, <2>1, <2>2 DEF Answer, Send, Startable
  <2> QED
    BY <2>2, <2>3 DEF Steps, Startable
<1>3. ASSUME NEW p \in BNode \ {self}, HandleQCByteMsg(p) PROVE [Steps]_tVars
  BY <1>3 DEF HandleQCByteMsg, Steps, Node
<1>4. CASE SendNext
  BY <1>4 DEF Steps
<1> QED
  BY <1>1, <1>2, <1>3, <1>4
  DEF ReplicaNext, ClientNext, BroadcastRequest, DialContext, DialFails, SendRequest,
      Return, HandleRequest, replicaVars

\* Which node the replica is never changes.
LEMMA SelfKept ==
  ASSUME QueueType, ConfKept, [ReplicaNext]_replicaVars
  PROVE  self' = self
<1>1. [Steps]_tVars
  BY ReplicaSteps
<1>2. ASSUME NEW g \in byteSend, ByteSend(g) PROVE self' = self
  BY <1>2 DEF ByteSend, Lookup, BuildConnection, GetAgain, SendByteMsg, SendNil, CheckErr,
              ReadCount, WriteCount, DropConnection
<1> QED
  BY <1>1, <1>2 DEF Steps, SendNext, Crash, Restart, Send, SetLive, tVars

(***************************************************************************)
(* Sequences without repetitions                                           *)
(***************************************************************************)

LEMMA SeqRange ==
  ASSUME NEW S, NEW s \in Seq(S)
  PROVE  /\ Len(s) \in Nat /\ DOMAIN s = 1 .. Len(s)
         /\ Range(s) = {s[i] : i \in 1 .. Len(s)} /\ Range(s) \subseteq S
BY LenProperties, ElementOfSeq DEF Range

LEMMA AppendNew ==
  ASSUME NEW S, NEW s \in Seq(S), NEW e \in S, IsInjective(s), e \notin Range(s)
  PROVE  /\ Append(s, e) \in Seq(S) /\ Append(s, e) # <<>>
         /\ IsInjective(Append(s, e)) /\ Range(Append(s, e)) = Range(s) \cup {e}
<1> DEFINE t == Append(s, e)
<1>1. /\ t \in Seq(S) /\ Len(t) = Len(s) + 1 /\ t # <<>>
      /\ \A i \in 1 .. Len(t) : t[i] = IF i <= Len(s) THEN s[i] ELSE e
  OBVIOUS
<1>2. /\ Len(s) \in Nat /\ DOMAIN s = 1 .. Len(s) /\ DOMAIN t = 1 .. Len(t)
      /\ Range(s) = {s[i] : i \in 1 .. Len(s)} /\ Range(t) = {t[i] : i \in 1 .. Len(t)}
  BY <1>1, SeqRange
<1> HIDE DEF t
<1>3. IsInjective(t)
  BY <1>1, <1>2 DEF IsInjective
<1>4. Range(t) = Range(s) \cup {e}
  <2>1. \A i \in 1 .. Len(s) : i \in 1 .. Len(t) /\ t[i] = s[i]
    BY <1>1, <1>2
  <2>2. Len(t) \in 1 .. Len(t) /\ t[Len(t)] = e
    BY <1>1, <1>2
  <2>3. \A i \in 1 .. Len(t) : t[i] = e \/ (i \in 1 .. Len(s) /\ t[i] = s[i])
    BY <1>1, <1>2
  <2> QED
    BY <1>2, <2>1, <2>2, <2>3
<1> QED
  BY <1>1, <1>3, <1>4 DEF t

LEMMA ConcatInjective ==
  ASSUME NEW S, NEW s \in Seq(S), NEW t \in Seq(S), IsInjective(s), IsInjective(t),
         Range(s) \cap Range(t) = {}
  PROVE  /\ s \o t \in Seq(S)
         /\ IsInjective(s \o t) /\ Range(s \o t) = Range(s) \cup Range(t)
<1> DEFINE u == s \o t
<1>1. /\ u \in Seq(S) /\ Len(u) = Len(s) + Len(t)
      /\ \A i \in 1 .. Len(u) : u[i] = IF i <= Len(s) THEN s[i] ELSE t[i - Len(s)]
  BY ConcatProperties
<1>2. /\ Len(s) \in Nat /\ DOMAIN s = 1 .. Len(s) /\ Range(s) = {s[i] : i \in 1 .. Len(s)}
      /\ Len(t) \in Nat /\ DOMAIN t = 1 .. Len(t) /\ Range(t) = {t[i] : i \in 1 .. Len(t)}
      /\ DOMAIN u = 1 .. Len(u) /\ Range(u) = {u[i] : i \in 1 .. Len(u)}
  BY <1>1, SeqRange
<1> HIDE DEF u
<1>3. \A i \in 1 .. Len(u) : \/ i \in 1 .. Len(s) /\ u[i] = s[i] /\ u[i] \in Range(s)
                             \/ /\ i - Len(s) \in 1 .. Len(t) /\ u[i] = t[i - Len(s)]
                                /\ u[i] \in Range(t)
  BY <1>1, <1>2
<1>4. IsInjective(u)
  <2> SUFFICES ASSUME NEW i \in 1 .. Len(u), NEW j \in 1 .. Len(u), u[i] = u[j]
               PROVE  i = j
    BY <1>2 DEF IsInjective
  <2>1. CASE u[i] \in Range(s)
    <3>1. i \in 1 .. Len(s) /\ j \in 1 .. Len(s) /\ s[i] = s[j]
      BY <1>3, <2>1
    <3> QED
      BY <1>2, <3>1 DEF IsInjective
  <2>2. CASE u[i] \notin Range(s)
    <3>1. /\ i - Len(s) \in 1 .. Len(t) /\ j - Len(s) \in 1 .. Len(t)
          /\ t[i - Len(s)] = t[j - Len(s)]
      BY <1>3, <2>2
    <3>2. i - Len(s) = j - Len(s)
      BY <1>2, <3>1 DEF IsInjective
    <3> QED
      BY <1>2, <3>2
  <2> QED
    BY <2>1, <2>2
<1>5. Range(u) = Range(s) \cup Range(t)
  <2>1. \A i \in 1 .. Len(s) : i \in 1 .. Len(u) /\ u[i] = s[i]
    BY <1>1, <1>2
  <2>2. \A i \in 1 .. Len(t) : i + Len(s) \in 1 .. Len(u) /\ u[i + Len(s)] = t[i]
    BY <1>1, <1>2
  <2>3. Range(u) \subseteq Range(s) \cup Range(t)
    BY <1>2, <1>3
  <2>4. Range(s) \subseteq Range(u)
    BY <1>2, <2>1
  <2>5. Range(t) \subseteq Range(u)
    BY <1>2, <2>2
  <2> QED
    BY <2>3, <2>4, <2>5
<1> QED
  BY <1>1, <1>4, <1>5 DEF u

LEMMA SetToSeqInjective ==
  ASSUME NEW S, NEW T \in SUBSET S, IsFiniteSet(T)
  PROVE  /\ SetToSeq(T) \in Seq(S)
         /\ IsInjective(SetToSeq(T)) /\ Range(SetToSeq(T)) = T
<1> DEFINE k == Cardinality(T)
           s == SetToSeq(T)
<1>1. k \in Nat /\ \E b \in [1 .. k -> T] : IsInjective(b)
  BY FS_CardinalityType DEF ExistsBijection, Bijection, Injection
<1>2. s \in [1 .. k -> T] /\ IsInjective(s)
  BY <1>1 DEF SetToSeq
<1>3. IsFiniteSet(1 .. k) /\ Cardinality(1 .. k) = k
  BY <1>1, FS_Interval
<1> HIDE DEF k, s
<1>4. s \in Injection(1 .. k, T)
  BY <1>2 DEF Injection
<1>5. Cardinality(1 .. k) = Cardinality(T)
  BY <1>3 DEF k
<1>6. s \in Surjection(1 .. k, T)
  BY <1>4, <1>5, FS_Injection
<1>7. Range(s) = T
  BY <1>2, <1>6 DEF Surjection, Range
<1>8. s \in Seq(S)
  <2>1. s \in [1 .. k -> S]
    BY <1>2
  <2> QED
    BY <1>1, <2>1, SeqDef
<1> QED
  BY <1>2, <1>7, <1>8 DEF s

\* A sequence cut after its k-th element: the first, the others cut off, the rest.
LEMMA CutInjective ==
  ASSUME NEW S, NEW s \in Seq(S), s # <<>>, IsInjective(s), NEW k \in 1 .. Len(s)
  PROVE  LET cut  == Range(Tail(SubSeq(s, 1, k)))
             rest == SubSeq(s, k + 1, Len(s))
         IN  /\ Head(s) \in S /\ cut \subseteq S /\ rest \in Seq(S) /\ IsInjective(rest)
             /\ Range(s) = {Head(s)} \cup cut \cup Range(rest)
             /\ Head(s) \notin cut \cup Range(rest) /\ cut \cap Range(rest) = {}
<1> DEFINE t == SubSeq(s, 2, k)
           u == SubSeq(s, k + 1, Len(s))
<1>1. /\ Len(s) \in Nat /\ DOMAIN s = 1 .. Len(s) /\ Range(s) = {s[i] : i \in 1 .. Len(s)}
      /\ \A i \in 1 .. Len(s) : s[i] \in S
      /\ 1 \in 1 .. Len(s) /\ Head(s) = s[1]
  BY SeqRange, ElementOfSeq, EmptySeq
<1>2. Tail(SubSeq(s, 1, k)) = t
  BY <1>1, HeadTailOfSubSeq
<1>3. /\ t \in Seq(S) /\ Len(t) = k - 1
      /\ \A i \in 1 .. k - 1 : t[i] = s[i + 1]
  <2>1. \A i \in 2 .. k : s[i] \in S
    BY <1>1
  <2>2. /\ t \in Seq(S) /\ Len(t) = IF 2 <= k THEN k - 2 + 1 ELSE 0
        /\ \A i \in 1 .. k - 2 + 1 : t[i] = s[2 + i - 1]
    BY <2>1, SubSeqProperties
  <2> HIDE DEF t
  <2> QED
    BY <2>2
<1>4. /\ u \in Seq(S) /\ Len(u) = Len(s) - k
      /\ \A i \in 1 .. Len(s) - k : u[i] = s[i + k]
  <2>1. \A i \in k + 1 .. Len(s) : s[i] \in S
    BY <1>1
  <2>2. /\ u \in Seq(S) /\ Len(u) = IF k + 1 <= Len(s) THEN Len(s) - (k + 1) + 1 ELSE 0
        /\ \A i \in 1 .. Len(s) - (k + 1) + 1 : u[i] = s[(k + 1) + i - 1]
    BY <1>1, <2>1, SubSeqProperties
  <2>3. Len(s) - (k + 1) + 1 = Len(s) - k
    BY <1>1
  <2>4. \A i \in 1 .. Len(s) - k : (k + 1) + i - 1 = i + k
    BY <1>1
  <2>5. Len(u) = Len(s) - k
    <3>1. Len(u) = IF k + 1 <= Len(s) THEN Len(s) - (k + 1) + 1 ELSE 0
      BY <2>2
    <3>2. Len(s) \in Nat /\ k \in Nat /\ k <= Len(s)
      BY <1>1
    <3> HIDE DEF u
    <3>3. CASE k + 1 <= Len(s)
      BY <2>3, <3>1, <3>3
    <3>4. CASE ~(k + 1 <= Len(s))
      <4>1. Len(s) - k = 0
        BY <3>2, <3>4
      <4> QED
        BY <3>1, <3>4, <4>1
    <3> QED
      BY <3>3, <3>4
  <2> HIDE DEF u
  <2> QED
    BY <2>2, <2>3, <2>4, <2>5
<1> HIDE DEF t, u
<1>5. /\ DOMAIN u = 1 .. Len(s) - k
      /\ Range(t) = {t[i] : i \in 1 .. k - 1} /\ Range(u) = {u[i] : i \in 1 .. Len(s) - k}
      /\ Range(t) \subseteq S
  BY <1>3, <1>4, SeqRange
<1>6. \A x : x \in Range(t) <=> \E i \in 2 .. k : x = s[i]
  <2>1. ASSUME NEW i \in 2 .. k PROVE s[i] \in Range(t)
    <3>1. i - 1 \in 1 .. k - 1 /\ t[i - 1] = s[i]
      BY <1>3
    <3> QED
      BY <1>5, <3>1
  <2>2. ASSUME NEW i \in 1 .. k - 1 PROVE i + 1 \in 2 .. k /\ t[i] = s[i + 1]
    BY <1>3
  <2> QED
    BY <1>5, <2>1, <2>2
<1>7. \A x : x \in Range(u) <=> \E i \in k + 1 .. Len(s) : x = s[i]
  <2>1. ASSUME NEW i \in k + 1 .. Len(s) PROVE s[i] \in Range(u)
    <3>1. i - k \in 1 .. Len(s) - k /\ u[i - k] = s[i]
      BY <1>1, <1>4
    <3> QED
      BY <1>5, <3>1
  <2>2. ASSUME NEW i \in 1 .. Len(s) - k PROVE i + k \in k + 1 .. Len(s) /\ u[i] = s[i + k]
    BY <1>1, <1>4
  <2> QED
    BY <1>5, <2>1, <2>2
<1>8. \A i, j \in 1 .. Len(s) : s[i] = s[j] => i = j
  BY <1>1 DEF IsInjective
<1>9. IsInjective(u)
  <2> SUFFICES ASSUME NEW i \in 1 .. Len(s) - k, NEW j \in 1 .. Len(s) - k, u[i] = u[j]
               PROVE  i = j
    BY <1>5 DEF IsInjective
  <2>1. i + k \in 1 .. Len(s) /\ j + k \in 1 .. Len(s) /\ s[i + k] = s[j + k]
    BY <1>1, <1>4
  <2>2. i + k = j + k
    BY <1>8, <2>1
  <2> QED
    BY <1>1, <2>2
<1>10. Range(s) = {Head(s)} \cup Range(t) \cup Range(u)
  <2>1. \A i \in 1 .. Len(s) : i = 1 \/ i \in 2 .. k \/ i \in k + 1 .. Len(s)
    BY <1>1
  <2>2. \A i \in 2 .. k : i \in 1 .. Len(s)
    BY <1>1
  <2>3. \A i \in k + 1 .. Len(s) : i \in 1 .. Len(s)
    BY <1>1
  <2> QED
    BY <1>1, <1>6, <1>7, <2>1, <2>2, <2>3
<1>11. Head(s) \notin Range(t) \cup Range(u) /\ Range(t) \cap Range(u) = {}
  <2>1. \A i \in 2 .. k : i \in 1 .. Len(s) /\ i # 1
    BY <1>1
  <2>2. \A i \in k + 1 .. Len(s) : i \in 1 .. Len(s) /\ i # 1
    BY <1>1
  <2>3. \A i \in 2 .. k, j \in k + 1 .. Len(s) : i # j
    BY <1>1
  <2> QED
    BY <1>1, <1>6, <1>7, <1>8, <2>1, <2>2, <2>3
<1> QED
  BY <1>1, <1>2, <1>4, <1>5, <1>9, <1>10, <1>11 DEF t, u

(***************************************************************************)
(* Clients                                                                 *)
(***************************************************************************)

\* The goroutines of a client that are at work.
Waiting(c) == {s \in ANode : request[c][s] \in AtWork}

RequestType ==
  /\ request \in [Client -> [ANode -> {"none", "dial", "send", "answered", "failed"}]]
  /\ wg \in [Client -> Int]

ClientInv == RequestType /\ ClientsReturn

LEMMA WaitingFinite ==
  ASSUME NEW T \in SUBSET ANode
  PROVE  IsFiniteSet(T) /\ Cardinality(T) \in Nat
BY Nodes, FS_Subset, FS_CardinalityType DEF Node

LEMMA ClientInit == ReplicaInit => ClientInv
<1> SUFFICES ASSUME ReplicaInit PROVE ClientInv
  OBVIOUS
<1>1. /\ request = [c \in Client |-> [s \in ANode |-> "none"]]
      /\ wg = [c \in Client |-> 0]
  BY DEF ReplicaInit
<1>2. RequestType
  BY <1>1 DEF RequestType
<1>3. \A c \in Client : Waiting(c) = {}
  BY <1>1 DEF Waiting, AtWork
<1>4. \A c \in Client : wg[c] = Cardinality(Waiting(c))
  BY <1>1, <1>3, FS_EmptySet
<1> QED
  BY <1>2, <1>4 DEF ClientInv, ClientsReturn, Waiting

\* A goroutine that ends is counted out.
LEMMA GoroutineEnds ==
  ASSUME ClientInv, NEW c \in Client, NEW s \in ANode, request[c][s] \in AtWork,
         NEW to \in {"answered", "failed"},
         request' = [request EXCEPT ![c][s] = to], wg' = [wg EXCEPT ![c] = @ - 1]
  PROVE  ClientInv'
<1>1. RequestType'
  BY DEF ClientInv, RequestType
<1>2. \A d \in Client : Waiting(d)' = IF d = c THEN Waiting(c) \ {s} ELSE Waiting(d)
  BY DEF ClientInv, RequestType, Waiting, AtWork
<1>3. s \in Waiting(c) /\ IsFiniteSet(Waiting(c))
  BY WaitingFinite DEF Waiting
<1>4. Cardinality(Waiting(c) \ {s}) = Cardinality(Waiting(c)) - 1
  BY <1>3, FS_RemoveElement
<1>5. \A d \in Client : wg[d] = Cardinality(Waiting(d))
  BY DEF ClientInv, ClientsReturn, Waiting
<1>6. \A d \in Client : wg'[d] = IF d = c THEN wg[c] - 1 ELSE wg[d]
  BY DEF ClientInv, RequestType
<1>7. \A d \in Client : wg'[d] = Cardinality(Waiting(d)')
  <2>1. Cardinality(Waiting(c)') = wg'[c]
    BY <1>2, <1>4, <1>5, <1>6
  <2>2. \A d \in Client : d # c => Cardinality(Waiting(d)') = wg'[d]
    BY <1>2, <1>5, <1>6
  <2> QED
    BY <2>1, <2>2
<1> QED
  BY <1>1, <1>7 DEF ClientInv, ClientsReturn, Waiting

LEMMA ClientStep == ClientInv /\ [ReplicaNext]_replicaVars => ClientInv'
<1> SUFFICES ASSUME ClientInv, [ReplicaNext]_replicaVars PROVE ClientInv'
  OBVIOUS
<1>0. \A c \in Client : wg[c] = Cardinality(Waiting(c))
  BY DEF ClientInv, ClientsReturn, Waiting
<1>1. ASSUME UNCHANGED <<request, wg>> PROVE ClientInv'
  BY <1>1 DEF ClientInv, RequestType, ClientsReturn
<1>2. ASSUME NEW c \in Client, BroadcastRequest(c) PROVE ClientInv'
  <2>1. /\ request' = [request EXCEPT ![c] = [s \in ANode |-> "dial"]]
        /\ wg' = [wg EXCEPT ![c] = Cardinality(ANode)]
    BY <1>2 DEF BroadcastRequest
  <2>2. Cardinality(ANode) \in Int
    BY WaitingFinite
  <2>3. RequestType'
    BY <2>1, <2>2 DEF ClientInv, RequestType
  <2>4. \A d \in Client : Waiting(d)' = IF d = c THEN ANode ELSE Waiting(d)
    BY <2>1 DEF ClientInv, RequestType, Waiting, AtWork
  <2>5. \A d \in Client : wg'[d] = IF d = c THEN Cardinality(ANode) ELSE wg[d]
    BY <2>1 DEF ClientInv, RequestType
  <2>6. \A d \in Client : wg'[d] = Cardinality(Waiting(d)')
    BY <1>0, <2>4, <2>5
  <2> QED
    BY <2>3, <2>6 DEF ClientInv, ClientsReturn, Waiting
<1>3. ASSUME NEW c \in Client, NEW s \in ANode, DialContext(c, s) PROVE ClientInv'
  <2>1. /\ request[c][s] = "dial" /\ request' = [request EXCEPT ![c][s] = "send"]
        /\ wg' = wg
    BY <1>3 DEF DialContext
  <2>2. RequestType'
    BY <2>1 DEF ClientInv, RequestType
  <2>3. \A d \in Client : Waiting(d)' = Waiting(d)
    BY <2>1 DEF ClientInv, RequestType, Waiting, AtWork
  <2>4. \A d \in Client : wg'[d] = Cardinality(Waiting(d)')
    BY <1>0, <2>1, <2>3
  <2> QED
    BY <2>2, <2>4 DEF ClientInv, ClientsReturn, Waiting
<1>4. ASSUME NEW c \in Client, NEW s \in ANode, DialFails(c, s) PROVE ClientInv'
  BY <1>4, GoroutineEnds DEF DialFails, FailedDial, AtWork
<1>5. ASSUME NEW c \in Client, NEW s \in ANode, SendRequest(c, s) PROVE ClientInv'
  BY <1>5, GoroutineEnds DEF SendRequest, AtWork
<1> QED
  BY <1>1, <1>2, <1>3, <1>4, <1>5
  DEF ReplicaNext, ClientNext, Return, HandleRequest, RequestMonitor, Answer,
      HandleQCByteMsg, replicaVars, clientVars

\* A client waits exactly as long as one of its goroutines is at work, whatever the
\* number of nodes it writes to and whichever of them are down (BroadcastRequest,
\* clientsender.go).
THEOREM ClientsNeverHang == ReplicaSpec => []ClientsReturn
<1>1. ClientInv => ClientsReturn
  BY DEF ClientInv
<1> QED
  BY <1>1, ClientInit, ClientStep, PTL DEF ReplicaSpec

(***************************************************************************)
(* The queue                                                               *)
(***************************************************************************)

\* The requests that the replica has answered.
Answered == {c \in Client : self \in ANode /\ request[c][self] = "answered"}

\* OnePlace, with the four places apart.
QueueInv ==
  /\ QueueType
  /\ handling \subseteq Client /\ dropped \subseteq Client
  /\ IsInjective(queue) /\ IsInjective(started)
  /\ Range(queue) \cap Range(started) = {} /\ handling \cap dropped = {}
  /\ (Range(queue) \cup Range(started)) \cap (handling \cup dropped) = {}
  /\ Answered = Range(queue) \cup Range(started) \cup handling \cup dropped
  /\ started = <<>> => dropped = {}

LEMMA QueueInit == ReplicaInit => QueueInv
<1> SUFFICES ASSUME ReplicaInit PROVE QueueInv
  OBVIOUS
<1>1. /\ handling = {} /\ dropped = {} /\ queue = <<>> /\ started = <<>>
      /\ request = [c \in Client |-> [s \in ANode |-> "none"]]
  BY DEF ReplicaInit
<1>2. QueueType
  BY <1>1, EmptySeq DEF QueueType
<1>3. Len(<<>>) = 0 /\ DOMAIN <<>> = {}
  OBVIOUS
<1>4. Range(<<>>) = {} /\ IsInjective(<<>>)
  BY <1>3 DEF Range, IsInjective
<1>5. Answered = {}
  BY <1>1 DEF Answered
<1> QED
  BY <1>1, <1>2, <1>4, <1>5 DEF QueueInv

LEMMA OnePlaceFromInv == QueueInv => OnePlace
<1> SUFFICES ASSUME QueueInv PROVE OnePlace
  OBVIOUS
<1> DEFINE h == SetToSeq(handling)
           d == SetToSeq(dropped)
<1>1. IsFiniteSet(handling) /\ IsFiniteSet(dropped)
  BY Fronts, FS_Subset DEF QueueInv
<1>2. /\ h \in Seq(Client) /\ IsInjective(h) /\ Range(h) = handling
      /\ d \in Seq(Client) /\ IsInjective(d) /\ Range(d) = dropped
  BY <1>1, SetToSeqInjective DEF QueueInv
<1> HIDE DEF h, d
<1> DEFINE s == queue \o started
           t == s \o h
           u == t \o d
<1>3. /\ s \in Seq(Client) /\ IsInjective(s)
      /\ Range(s) = Range(queue) \cup Range(started)
  BY ConcatInjective DEF QueueInv, QueueType
<1> HIDE DEF s
<1>4. Range(s) \cap handling = {}
  BY <1>3 DEF QueueInv
<1>5. t \in Seq(Client) /\ IsInjective(t) /\ Range(t) = Range(s) \cup handling
  BY <1>2, <1>3, <1>4, ConcatInjective
<1> HIDE DEF t
<1>6. Range(t) \cap dropped = {}
  BY <1>3, <1>5 DEF QueueInv
<1>7. IsInjective(u) /\ Range(u) = Range(t) \cup dropped
  BY <1>2, <1>5, <1>6, ConcatInjective
<1>8. Range(u) = Answered
  BY <1>3, <1>5, <1>7 DEF QueueInv
<1>9. u = queue \o started \o SetToSeq(handling) \o SetToSeq(dropped)
  BY DEF h, d, s, t
<1> HIDE DEF u
<1> QED
  BY <1>7, <1>8, <1>9 DEF OnePlace, Answered

\* Taking requests out of the queue.
LEMMA MonitorQueue ==
  ASSUME QueueInv, RequestMonitor, self' = self
  PROVE  QueueInv'
<1> DEFINE k == IF Len(queue) > MaxBatchSize THEN MaxBatchSize ELSE Len(queue)
           cut == Range(Tail(SubSeq(queue, 1, k)))
           rest == SubSeq(queue, k + 1, Len(queue))
<1>1. queue \in Seq(Client) /\ queue # <<>> /\ started \in Seq(Client)
  BY DEF RequestMonitor, QueueInv, QueueType
<1>2. k \in 1 .. Len(queue)
  <2>1. Len(queue) \in Nat \ {0} /\ MaxBatchSize \in Nat \ {0}
    BY <1>1, EmptySeq, Fronts
  <2> QED
    BY <2>1
<1>3. Grabbed = SubSeq(queue, 1, k) /\ Len(Grabbed) = k
  <2>1. Grabbed = SubSeq(queue, 1, k)
    BY DEF Grabbed
  <2>2. \A i \in 1 .. k : queue[i] \in Client
    BY <1>1, <1>2, ElementOfSeq
  <2> HIDE DEF k
  <2>3. Len(SubSeq(queue, 1, k)) = k
    BY <1>2, <2>2, SubSeqProperties
  <2> QED
    BY <2>1, <2>3
<1>4. /\ queue' = rest /\ started' = Append(started, Head(queue))
      /\ dropped' = dropped \cup cut /\ handling' = handling /\ request' = request
  BY <1>3 DEF RequestMonitor, Left, clientVars
<1> HIDE DEF k
<1>5. /\ Head(queue) \in Client /\ cut \subseteq Client
      /\ rest \in Seq(Client) /\ IsInjective(rest)
      /\ Range(queue) = {Head(queue)} \cup cut \cup Range(rest)
      /\ Head(queue) \notin cut \cup Range(rest) /\ cut \cap Range(rest) = {}
  BY <1>1, <1>2, CutInjective DEF QueueInv
<1> HIDE DEF cut, rest
<1>6. Head(queue) \notin Range(started)
  BY <1>5 DEF QueueInv
<1>7. /\ started' \in Seq(Client) /\ started' # <<>> /\ IsInjective(started')
      /\ Range(started') = Range(started) \cup {Head(queue)}
  BY <1>1, <1>4, <1>5, <1>6, AppendNew DEF QueueInv
<1>8. Answered' = Answered
  BY <1>4 DEF Answered
<1>9. Answered' = Range(queue') \cup Range(started') \cup handling' \cup dropped'
  BY <1>4, <1>5, <1>7, <1>8 DEF QueueInv
<1> QED
  BY <1>4, <1>5, <1>7, <1>9 DEF QueueInv, QueueType

LEMMA QueueStep ==
  ASSUME QueueInv, ClientInv, ConfKept, [ReplicaNext]_replicaVars
  PROVE  QueueInv'
<1>0. self' = self
  BY SelfKept DEF QueueInv
<1>1. CASE RequestMonitor
  BY <1>0, <1>1, MonitorQueue
<1>2. ASSUME UNCHANGED queueVars, Answered' = Answered PROVE QueueInv'
  BY <1>2 DEF QueueInv, QueueType, queueVars
<1>3. ASSUME UNCHANGED queueVars, UNCHANGED request PROVE QueueInv'
  BY <1>0, <1>2, <1>3 DEF Answered
<1>4. ASSUME NEW c \in Client, HandleRequest(c) PROVE QueueInv'
  <2>1. /\ c \in handling /\ handling' = handling \ {c} /\ queue' = Append(queue, c)
        /\ started' = started /\ dropped' = dropped /\ request' = request
    BY <1>4 DEF HandleRequest, clientVars
  <2>2. /\ queue' \in Seq(Client) /\ IsInjective(queue')
        /\ Range(queue') = Range(queue) \cup {c}
    BY <2>1, AppendNew DEF QueueInv, QueueType
  <2>3. Answered' = Answered
    BY <1>0, <2>1 DEF Answered
  <2> QED
    BY <2>1, <2>2, <2>3 DEF QueueInv, QueueType
<1>5. ASSUME NEW c \in Client, NEW s \in ANode, DialContext(c, s) PROVE QueueInv'
  <2>1. Answered' = Answered
    BY <1>0, <1>5 DEF DialContext, Answered, ClientInv, RequestType
  <2> QED
    BY <1>2, <1>5, <2>1 DEF DialContext
<1>6. ASSUME NEW c \in Client, NEW s \in ANode, DialFails(c, s) PROVE QueueInv'
  <2>1. Answered' = Answered
    BY <1>0, <1>6 DEF DialFails, Answered, ClientInv, RequestType
  <2> QED
    BY <1>2, <1>6, <2>1 DEF DialFails
<1>7. ASSUME NEW c \in Client, BroadcastRequest(c) PROVE QueueInv'
  <2>1. Answered' = Answered
    BY <1>0, <1>7 DEF BroadcastRequest, Answered, ClientInv, RequestType
  <2> QED
    BY <1>2, <1>7, <2>1 DEF BroadcastRequest
<1>8. ASSUME NEW c \in Client, NEW s \in ANode, SendRequest(c, s) PROVE QueueInv'
  <2>1. request[c][s] = "send" /\ UNCHANGED <<queue, started, dropped>>
    BY <1>8 DEF SendRequest
  <2>2. CASE request' = [request EXCEPT ![c][s] = "failed"] /\ UNCHANGED handling
    <3>1. Answered' = Answered
      BY <1>0, <2>1, <2>2 DEF Answered, ClientInv, RequestType
    <3> QED
      BY <1>2, <2>1, <2>2, <3>1 DEF queueVars
  <2>3. CASE /\ request' = [request EXCEPT ![c][s] = "answered"]
             /\ s # self /\ UNCHANGED handling
    <3>1. Answered' = Answered
      BY <1>0, <2>1, <2>3 DEF Answered, ClientInv, RequestType
    <3> QED
      BY <1>2, <2>1, <2>3, <3>1 DEF queueVars
  <2>4. CASE /\ request' = [request EXCEPT ![c][s] = "answered"]
             /\ s = self /\ handling' = handling \cup {c}
    <3>1. c \notin Answered
      BY <2>1, <2>4 DEF Answered
    <3>2. Answered' = Answered \cup {c}
      BY <1>0, <2>1, <2>4 DEF Answered, ClientInv, RequestType
    <3> QED
      BY <2>1, <2>4, <3>1, <3>2 DEF QueueInv, QueueType
  <2> QED
    BY <1>8, <2>2, <2>3, <2>4 DEF SendRequest
<1> QED
  BY <1>1, <1>3, <1>4, <1>5, <1>6, <1>7, <1>8
  DEF ReplicaNext, ClientNext, Return, Answer, HandleQCByteMsg, replicaVars, clientVars

\* The invariants of a replica that are not those of its sender.
FrontInv == QueueInv /\ ClientInv /\ ConfKept /\ returned \subseteq Client

LEMMA ReturnedStep ==
  returned \subseteq Client /\ [ReplicaNext]_replicaVars => returned' \subseteq Client
BY DEF ReplicaNext, ClientNext, BroadcastRequest, DialContext, DialFails, SendRequest, Return,
       HandleRequest, RequestMonitor, Answer, HandleQCByteMsg, replicaVars, clientVars

LEMMA FrontInvariance == ReplicaSpec => []FrontInv
<1>1. ReplicaInit => FrontInv
  BY QueueInit, ClientInit DEF FrontInv, ReplicaInit, Init, ConfKept
<1>2. FrontInv /\ [ReplicaNext]_replicaVars => FrontInv'
  BY QueueStep, ClientStep, ConfStep, ReturnedStep DEF FrontInv
<1> QED
  BY <1>1, <1>2, PTL DEF ReplicaSpec

\* Every request that a replica has answered is in one place and once: on its way
\* to the queue, in it, started, or dropped by RequestMonitor, for any number of
\* requests and any maxBatchSize (queue.go, events.go).
THEOREM RequestsInOnePlace == ReplicaSpec => []OnePlace
<1>1. FrontInv => OnePlace
  BY OnePlaceFromInv DEF FrontInv
<1> QED
  BY <1>1, FrontInvariance, PTL

(***************************************************************************)
(* What reaches group B                                                    *)
(***************************************************************************)

\* The sender of a replica behaves like a sender alone.
LEMMA SenderInvariance ==
  ReplicaSpec => []EarnedInv /\ []ReliableInv
<1>1. ReplicaInit => TransportInit
  BY DEF ReplicaInit
<1>2. FrontInv /\ [ReplicaNext]_replicaVars => [Steps]_tVars
  BY ReplicaSteps DEF FrontInv, QueueInv
<1> QED
  BY <1>1, <1>2, FrontInvariance, EarnedInit, EarnedStep, ReliableInit, ReliableStep, PTL
  DEF ReplicaSpec

\* No replica takes a node for dead before it was counted maxLimit + 2 times,
\* whatever it sends and whenever HotStuff puts nodes back (NotLive and SetLive,
\* connMap.go).
THEOREM ReplicaBlacklistNeverEarly == ReplicaSpec => []BlacklistEarned
<1>1. EarnedInv => BlacklistEarned
  BY DEF EarnedInv
<1> QED
  BY <1>1, SenderInvariance, PTL

\* While nothing fails, whatever a replica of either group sends in any mode is
\* received, and no goroutine meets a nil connection (ByteSend, sender.go).
THEOREM ReplicaNothingLost == ReplicaSpec => []Reliable
BY SenderInvariance, ReliableFromInv, PTL

Reaches(gs, m, p) == \E g \in gs : g.msg = m /\ g.to = p

LEMMA SpawnReaches ==
  ASSUME connection = {}, NEW nodes, NEW p \in nodes, NEW type, NEW m
  PROVE  Reaches(Spawn(nodes, type, m), m, p)
<1> DEFINE g == [to |-> p, type |-> type, msg |-> m, at |-> "lookup", v |-> 0]
<1>1. g \in Spawn(nodes, type, m)
  <2>1. p \in {q \in nodes : ~IsNotLive(q)}
    BY DEF IsNotLive
  <2> QED
    BY <2>1 DEF Spawn
<1>2. g.msg = m /\ g.to = p
  OBVIOUS
<1> HIDE DEF g
<1> QED
  BY <1>1, <1>2 DEF Reaches

\* With no node taken for dead, StartProcessing sends each instance to each node of
\* group B, in mode CrossSigGroup if the replica is the first node.
LEMMA ProcessingReaches ==
  ASSUME connection = {}, NEW c \in Client, NEW m \in Instances(c), NEW p \in BNode,
         conf.mode # "CrossSigGroup" \/ self = First
  PROVE  Reaches(StartProcessing(c), m, p)
<1> DEFINE ms == Instances(c)
           each == UNION {SendToNode(k, q, "RBC_ALL") : k \in ms, q \in BNode}
<1>1. CASE conf.mode \in {"CrossRA", "CrossABC"} /\ conf.add = 1
  <2>1. StartProcessing(c) = each
    BY <1>1 DEF StartProcessing
  <2>2. Reaches(SendToNode(m, p, "RBC_ALL"), m, p)
    BY SpawnReaches DEF SendToNode
  <2>3. SendToNode(m, p, "RBC_ALL") \subseteq each
    OBVIOUS
  <2> HIDE DEF each
  <2> QED
    BY <2>1, <2>2, <2>3 DEF Reaches
<1>2. CASE conf.mode = "CrossSigGroup"
  <2>1. StartProcessing(c) = TOBBroadcast(ms)
    BY <1>2 DEF StartProcessing
  <2>2. Reaches(Spawn(BNode, "RBC_ALL", m), m, p)
    BY SpawnReaches
  <2>3. Spawn(BNode, "RBC_ALL", m) \subseteq TOBBroadcast(ms)
    BY DEF TOBBroadcast
  <2> QED
    BY <2>1, <2>2, <2>3 DEF Reaches
<1>3. CASE /\ ~(conf.mode \in {"CrossRA", "CrossABC"} /\ conf.add = 1)
           /\ conf.mode # "CrossSigGroup"
  <2> DEFINE nodes == FetchNodesFromConfig(conf.mode)
  <2>1. StartProcessing(c) = MACBroadcast(conf.mode, ms)
    BY <1>3 DEF StartProcessing
  <2>2. p \in nodes
    BY DEF FetchNodesFromConfig, Node
  <2>3. Reaches(Spawn(nodes, "RBC_ALL", m), m, p)
    BY <2>2, SpawnReaches
  <2>4. Spawn(nodes, "RBC_ALL", m) \subseteq MACBroadcast(conf.mode, ms)
    BY DEF MACBroadcast
  <2> QED
    BY <2>1, <2>3, <2>4 DEF Reaches
<1> QED
  BY <1>1, <1>2, <1>3

\* Every instance of the requests started was sent to every node of group B.
SentInv ==
  faults = 0 /\ (conf.mode # "CrossSigGroup" \/ self = First) =>
    \A c \in Range(started), p \in BNode, m \in Message :
      m \in Instances(c) => <<m, p>> \in sent

LEMMA SentGrows == [Steps]_tVars => sent \subseteq sent'
<1> SUFFICES ASSUME [Steps]_tVars PROVE sent \subseteq sent'
  OBVIOUS
<1>1. ASSUME NEW g \in byteSend, ByteSend(g) PROVE sent' = sent
  BY <1>1 DEF ByteSend, Lookup, BuildConnection, GetAgain, SendByteMsg, SendNil, CheckErr,
              ReadCount, WriteCount, DropConnection
<1> QED
  BY <1>1 DEF Steps, SendNext, Crash, Restart, Send, Start, SetLive, tVars

LEMMA SentStep ==
  ASSUME FrontInv, SentInv, ReliableInv, [ReplicaNext]_replicaVars
  PROVE  SentInv'
<1> SUFFICES ASSUME faults' = 0, conf'.mode # "CrossSigGroup" \/ self' = First,
                    NEW c \in Range(started'), NEW p \in BNode, NEW m \in Message,
                    m \in Instances(c)
             PROVE  <<m, p>> \in sent'
  BY DEF SentInv, Instances
<1>1. [Steps]_tVars /\ self' = self /\ conf' = conf
  BY ReplicaSteps, SelfKept, ConfStep DEF FrontInv, QueueInv
<1>2. faults = 0 /\ connection = {} /\ sent \subseteq sent'
  BY <1>1, FaultsGrow, SentGrows DEF ReliableInv, NothingFailed
<1>3. CASE c \in Range(started)
  BY <1>1, <1>2, <1>3 DEF SentInv
<1>4. CASE c \notin Range(started)
  <2>1. RequestMonitor
    <3>1. started' # started
      BY <1>4
    <3> QED
      BY <3>1 DEF ReplicaNext, ClientNext, BroadcastRequest, DialContext, DialFails,
                  SendRequest, Return, HandleRequest, Answer, HandleQCByteMsg, replicaVars,
                  queueVars
  <2>2. /\ started' = Append(started, Head(queue)) /\ Head(queue) \in Client
        /\ Start(StartProcessing(Head(queue)))
    BY <2>1, MonitorSends DEF RequestMonitor, FrontInv, QueueInv
  <2>3. c = Head(queue)
    <3>1. started \in Seq(Client)
      BY DEF FrontInv, QueueInv, QueueType
    <3>2. started' \in Seq(Client) /\ Len(started') = Len(started) + 1
          /\ \A i \in 1 .. Len(started') :
               started'[i] = IF i <= Len(started) THEN started[i] ELSE Head(queue)
      BY <2>2, <3>1
    <3>3. /\ Range(started) = {started[i] : i \in 1 .. Len(started)}
          /\ Range(started') = {started'[i] : i \in 1 .. Len(started')}
          /\ Len(started) \in Nat
      BY <3>1, <3>2, SeqRange
    <3>4. PICK i \in 1 .. Len(started') : c = started'[i]
      BY <3>3
    <3>5. ~(i <= Len(started))
      BY <1>4, <3>2, <3>3, <3>4
    <3> QED
      BY <3>2, <3>4, <3>5
  <2>4. Reaches(StartProcessing(c), m, p)
    BY <1>1, <1>2, <2>2, <2>3, ProcessingReaches
  <2> QED
    BY <2>2, <2>3, <2>4 DEF Start, Reaches
<1> QED
  BY <1>3, <1>4

LEMMA ServedFromInv ==
  ASSUME FrontInv, SentInv, ReliableInv
  PROVE  FirstServed
<1> SUFFICES ASSUME faults = 0, self \in ANode, handling = {}, queue = <<>>, byteSend = {},
                    NEW c \in returned, request[c][self] = "answered"
             PROVE  /\ started # <<>>
                    /\ conf.mode # "CrossSigGroup" \/ self = First =>
                         \A d \in Range(started), p \in BNode :
                           \A i \in 0 .. (NumReq[d] - 1) : <<<<d, i>>, p>> \in received
  BY DEF FirstServed
<1>1. started # <<>>
  <2>1. c \in Answered
    BY DEF Answered, FrontInv
  <2>2. Len(<<>>) = 0 /\ DOMAIN <<>> = {}
    OBVIOUS
  <2>3. Range(<<>>) = {}
    BY <2>2 DEF Range
  <2>4. CASE started = <<>>
    BY <2>1, <2>3, <2>4 DEF FrontInv, QueueInv
  <2> QED
    BY <2>4
<1>2. ASSUME conf.mode # "CrossSigGroup" \/ self = First,
             NEW d \in Range(started), NEW p \in BNode, NEW i \in 0 .. (NumReq[d] - 1)
      PROVE  <<<<d, i>>, p>> \in received
  <2>1. d \in Client
    BY SeqRange DEF FrontInv, QueueInv, QueueType
  <2>2. <<d, i>> \in Instances(d) /\ <<d, i>> \in Message
    BY <2>1, InstancesType DEF Instances
  <2>3. <<<<d, i>>, p>> \in sent
    BY <1>2, <2>2 DEF SentInv
  <2>4. received = sent
    BY ReliableFromInv DEF Reliable
  <2> QED
    BY <2>3, <2>4
<1> QED
  BY <1>1, <1>2

\* When nothing has failed, a replica that has answered a client and is done with its
\* queue and its goroutines has started a request, and every instance of those it
\* started was received by every node of group B, in every mode (in
\* mode CrossSigGroup those of the first node).
THEOREM RequestsServed == ReplicaSpec => []FirstServed
<1>1. ReplicaInit => SentInv
  <2> SUFFICES ASSUME ReplicaInit PROVE SentInv
    OBVIOUS
  <2>1. started = <<>> /\ DOMAIN <<>> = {}
    BY DEF ReplicaInit
  <2>2. Range(started) = {}
    BY <2>1 DEF Range
  <2> QED
    BY <2>2 DEF SentInv
<1>2. FrontInv /\ SentInv /\ ReliableInv /\ [ReplicaNext]_replicaVars => SentInv'
  BY SentStep
<1>3. FrontInv /\ SentInv /\ ReliableInv => FirstServed
  BY ServedFromInv
<1> QED
  BY <1>1, <1>2, <1>3, FrontInvariance, SenderInvariance, PTL DEF ReplicaSpec

\* Every variable of the replica has its type in every reachable state, and the
\* WaitGroup of a client never goes below zero, at which wg.Done would panic.
THEOREM ReplicaTypes == ReplicaSpec => [](ReplicaTypeOK /\ TransportTypeOK)
<1>1. FrontInv => ReplicaTypeOK
  <2> SUFFICES ASSUME FrontInv PROVE ReplicaTypeOK
    OBVIOUS
  <2>1. \A c \in Client : wg[c] \in 0 .. Cardinality(ANode)
    <3> SUFFICES ASSUME NEW c \in Client PROVE wg[c] \in 0 .. Cardinality(ANode)
      OBVIOUS
    <3>1. wg[c] = Cardinality(Waiting(c))
      BY DEF FrontInv, ClientInv, ClientsReturn, Waiting
    <3>2. Waiting(c) \subseteq ANode
      BY DEF Waiting
    <3>3. IsFiniteSet(ANode) /\ Cardinality(ANode) \in Nat /\ Cardinality(Waiting(c)) \in Nat
      BY <3>2, WaitingFinite
    <3>4. Cardinality(Waiting(c)) <= Cardinality(ANode)
      BY <3>2, <3>3, FS_Subset
    <3> QED
      BY <3>1, <3>3, <3>4
  <2>2. wg \in [Client -> 0 .. Cardinality(ANode)]
    BY <2>1 DEF FrontInv, ClientInv, RequestType
  <2> QED
    BY <2>2 DEF ReplicaTypeOK, FrontInv, ClientInv, RequestType, QueueInv, QueueType
<1>2. EarnedInv => TransportTypeOK
  BY DEF EarnedInv, TypeInv
<1> QED
  BY <1>1, <1>2, FrontInvariance, SenderInvariance, PTL
=============================================================================
