------------------------------ MODULE RA_proofs ------------------------------
(***************************************************************************)
(* Safety of RA for groups of any size and any values of the constants     *)
(* that satisfy Groups and FaultBounds.                                    *)
(***************************************************************************)
EXTENDS RA, QuorumSizes_proofs, FiniteSetTheorems

(***************************************************************************)
(* Quorums                                                                 *)
(***************************************************************************)

\* StartQuorum sees as many nodes as group B has, or more if A is larger than 4.
LEMMA GroupSizes ==
  /\ Cardinality(A) \in Nat /\ Cardinality(B) \in Nat \ {0}
  /\ GroupB \in Nat \ {0} /\ Cardinality(B) <= GroupB
<1>1. Cardinality(A) \in Nat /\ Cardinality(B) \in Nat
  BY Groups, FS_CardinalityType
<1> QED
  BY <1>1, FaultBounds DEF GroupB, GroupBByStartQuorum

LEMMA QuorumType == Quorum \in Nat /\ Quorum > 0
BY GroupSizes, QuorumSizeBound, FSizeBound DEF Quorum

\* What is finite, and what there is to know of the sizes.
LEMMA Sizes ==
  /\ IsFiniteSet(A) /\ IsFiniteSet(B) /\ IsFiniteSet(A \cup B) /\ IsFiniteSet(Faulty)
  /\ Faulty \subseteq A \cup B
  /\ \A S \in SUBSET (A \cup B) : IsFiniteSet(S) /\ Cardinality(S) \in Nat
<1>1. Faulty \subseteq A \cup B
  BY Groups DEF Faulty, Message
<1>2. IsFiniteSet(A) /\ IsFiniteSet(B) /\ IsFiniteSet(A \cup B)
  BY Groups, FS_Union
<1>3. ASSUME NEW S \in SUBSET (A \cup B) PROVE IsFiniteSet(S) /\ Cardinality(S) \in Nat
  BY <1>2, FS_Subset, FS_CardinalityType
<1> QED
  BY <1>1, <1>2, <1>3

\* Of a quorum all but the faulty nodes of both groups run this code.
LEMMA QuorumOfCorrect ==
  ASSUME NEW S \in SUBSET (A \cup B), Cardinality(S) >= Quorum, S \subseteq Faulty \cup Correct
  PROVE  Cardinality(S \cap Correct) + Cardinality(Faulty) >= Quorum
<1> DEFINE C == S \cap Correct
           F == S \cap Faulty
<1>1. /\ C \in SUBSET (A \cup B) /\ F \in SUBSET (A \cup B) /\ Faulty \in SUBSET (A \cup B)
      /\ C \cup F = S /\ C \cap F = {} /\ F \subseteq Faulty
  BY Sizes, Groups
<1> HIDE DEF C, F
<1>2. /\ IsFiniteSet(C) /\ IsFiniteSet(F) /\ IsFiniteSet(Faulty)
      /\ Cardinality(C) \in Nat /\ Cardinality(F) \in Nat /\ Cardinality(Faulty) \in Nat
      /\ Cardinality(S) \in Nat
  BY <1>1, Sizes
<1>3. Cardinality(S) = Cardinality(C) + Cardinality(F) - Cardinality({})
  BY <1>1, <1>2, FS_Union
<1>4. Cardinality({}) = 0 /\ Cardinality(F) <= Cardinality(Faulty)
  BY <1>1, <1>2, FS_EmptySet, FS_Subset
<1>5. Cardinality(C) + Cardinality(Faulty) >= Quorum
  BY <1>2, <1>3, <1>4, QuorumType
<1> QED
  BY <1>5 DEF C

\* Two quorums of ECHOs have a node in common that is not faulty.
LEMMA QuorumIntersection ==
  ASSUME NEW S \in SUBSET (A \cup B), NEW T \in SUBSET (A \cup B),
         Cardinality(S) >= Quorum, S \subseteq Faulty \cup Correct,
         Cardinality(T) >= Quorum, T \subseteq Faulty \cup Correct
  PROVE  \E d \in S \cap T : d \notin Faulty
<1> DEFINE C == S \cap Correct
           D == T \cap Correct
           L == Faulty \cap A
           M == Faulty \cap B
           n == Cardinality(B)
<1>1. 2 * Quorum - n > FSize(n) /\ n \in Nat /\ FSize(n) \in Nat /\ Quorum \in Nat
  <2>1. 2 * Quorum - GroupB > FSize(GroupB) /\ Quorum \in Nat
    BY GroupSizes, QuorumSizeSound, QuorumSizeBound DEF Quorum
  <2>2. FSize(Cardinality(B)) <= FSize(GroupB)
    BY GroupSizes, FSizeMonotone
  <2>3. FSize(Cardinality(B)) \in Nat /\ FSize(GroupB) \in Nat
    BY GroupSizes, FSizeBound
  <2> QED
    BY <2>1, <2>2, <2>3, GroupSizes
<1>2. /\ C \in SUBSET (A \cup B) /\ D \in SUBSET (A \cup B) /\ Faulty \in SUBSET (A \cup B)
      /\ L \in SUBSET (A \cup B) /\ M \in SUBSET (A \cup B)
      /\ C \cup D \in SUBSET (A \cup B) /\ (C \cup D) \cup M \in SUBSET (A \cup B)
      /\ C \cap D \in SUBSET (A \cup B)
      /\ L \cup M = Faulty /\ L \cap M = {} /\ (C \cup D) \cap M = {}
      /\ (C \cup D) \cup M \subseteq B
      /\ C \cap D \subseteq (S \cap T) \ Faulty
  BY Sizes, Groups
<1>3. /\ Cardinality(C) + Cardinality(Faulty) >= Quorum
      /\ Cardinality(D) + Cardinality(Faulty) >= Quorum
  BY QuorumOfCorrect
<1>4. Cardinality(M) + 2 * Cardinality(L) <= FSize(n)
  BY FaultBounds
<1> SUFFICES C \cap D # {}
  BY <1>2
<1> HIDE DEF C, D, L, M, n
<1> SUFFICES ASSUME C \cap D = {} PROVE FALSE
  OBVIOUS
<1>5. /\ IsFiniteSet(C) /\ IsFiniteSet(D) /\ IsFiniteSet(L) /\ IsFiniteSet(M)
      /\ IsFiniteSet(C \cup D) /\ IsFiniteSet(B) /\ IsFiniteSet((C \cup D) \cup M)
  BY <1>2, Sizes
<1>6. /\ Cardinality(C) \in Nat /\ Cardinality(D) \in Nat /\ Cardinality(L) \in Nat
      /\ Cardinality(M) \in Nat /\ Cardinality(C \cup D) \in Nat
      /\ Cardinality((C \cup D) \cup M) \in Nat /\ Cardinality(Faulty) \in Nat
  BY <1>2, Sizes
<1>7. /\ Cardinality(C \cap D) = 0 /\ Cardinality(L \cap M) = 0
      /\ Cardinality((C \cup D) \cap M) = 0
  BY <1>2, FS_EmptySet, Zenon
<1>8. Cardinality(C \cup D) = Cardinality(C) + Cardinality(D) - Cardinality(C \cap D)
  BY <1>5, FS_Union
<1>9. Cardinality((C \cup D) \cup M)
        = Cardinality(C \cup D) + Cardinality(M) - Cardinality((C \cup D) \cap M)
  BY <1>5, FS_Union
<1>10. Cardinality(L \cup M) = Cardinality(L) + Cardinality(M) - Cardinality(L \cap M)
  BY <1>5, FS_Union
<1>11. Cardinality((C \cup D) \cup M) <= n
  BY <1>2, <1>5, FS_Subset DEF n
<1>12. Cardinality(C \cup D) = Cardinality(C) + Cardinality(D)
  BY <1>6, <1>7, <1>8
<1>13. Cardinality(C) + Cardinality(D) + Cardinality(M) <= n
  BY <1>1, <1>2, <1>6, <1>7, <1>9, <1>11, <1>12
<1>14. Cardinality(Faulty) = Cardinality(L) + Cardinality(M)
  <2>1. Cardinality(L \cup M) = Cardinality(Faulty)
    BY <1>2, Zenon
  <2> QED
    BY <2>1, <1>6, <1>7, <1>10
<1> QED
  BY <1>1, <1>3, <1>4, <1>6, <1>13, <1>14

(***************************************************************************)
(* Type correctness                                                        *)
(***************************************************************************)

\* Updating one entry of a table keeps the type of the table.
LEMMA TableUpdate ==
  ASSUME NEW S, NEW T, NEW V, NEW f \in [S -> [T -> V]],
         NEW s \in S, NEW t \in T, NEW v \in V
  PROVE  [f EXCEPT ![s][t] = v] \in [S -> [T -> V]]
OBVIOUS

LEMMA InstanceType == Instance \subseteq Nat /\ None \notin Instance
<1>1. \A v \in Value : 0 .. (NumReq[v] - 1) \subseteq Nat
  BY Groups
<1>2. Instance \subseteq Nat
  BY <1>1, Zenon DEF Instance
<1> QED
  BY <1>2, Groups

\* What Transmit needs and gives: sets of messages stay sets of messages.
LEMMA TransmitType ==
  ASSUME TypeOK, NEW b, NEW got, NEW new \in SUBSET Message, Transmit(b, got, new)
  PROVE  msgs' \subseteq Message /\ net' \in [Correct -> SUBSET Message]
BY DEF TypeOK, Transmit

LEMMA MsgType ==
  ASSUME NEW i \in Instance, NEW v \in Value
  PROVE  /\ \A a \in A : CrossMsg(a, i, v) \in Message
         /\ \A b \in B : SendMsg(b, i, v) \in Message
         /\ \A b \in B : EchoMsg(b, i, v) \in Message
         /\ \A b \in B, h \in Hash : ReadyMsg(b, i, h) \in Message
BY DEF CrossMsg, SendMsg, EchoMsg, ReadyMsg, Message, Hash

\* The fields of a message that the handlers of group B use.
LEMMA MessageFields ==
  ASSUME NEW m \in Message
  PROVE  /\ m.inst \in Instance /\ m.from \in A \cup B
         /\ m.type \in {"CROSS", "SEND", "ECHO", "READY"}
         /\ m.type \in {"CROSS", "SEND"} =>
              m.val \in Value /\ <<m.inst, m.val>> \in Instance \X Value
         /\ m.type = "CROSS" => m.round \in Nat
         /\ m.type \in {"ECHO", "READY"} => m.hash \in Hash
         /\ m.type = "ECHO" /\ m.hash[1] = m.inst =>
              m = EchoMsg(m.from, m.hash[1], m.hash[2])
<1>1. CASE m.type = "CROSS"
  BY <1>1, Groups DEF Message
<1>2. CASE m.type = "SEND"
  BY <1>2 DEF Message
<1>3. CASE m.type \in {"ECHO", "READY"}
  <2>1. m \in [type : {"ECHO", "READY"}, from : A \cup B, inst : Instance, hash : Hash]
    BY <1>3 DEF Message
  <2> QED
    BY <2>1 DEF Hash, EchoMsg
<1> QED
  BY <1>1, <1>2, <1>3 DEF Message

\* What a handler is given is a message.
LEMMA Handled ==
  ASSUME TypeOK, NEW b \in Correct, NEW m \in net[b] \cup Forged
  PROVE  m \in Message
BY Groups DEF TypeOK

\* Every variable keeps its type, in every instance of the specification.
THEOREM TypeCorrect == Spec => []TypeOK
<1>1. Init => TypeOK
  BY Groups DEF Init, TypeOK, RBCStatus, IDLE
<1>2. TypeOK /\ [Next]_vars => TypeOK'
  <2> SUFFICES ASSUME TypeOK, [Next]_vars PROVE TypeOK'
    OBVIOUS
  <2> USE Groups
  <2>1. ASSUME NEW a \in Relay, NEW v \in Request, SendCross(a, v) PROVE TypeOK'
    <3>1. {CrossMsg(a, i, v) : i \in 0 .. (NumReq[v] - 1)} \in SUBSET Message
      BY MsgType DEF Instance
    <3>2. msgs' \subseteq Message /\ net' \in [Correct -> SUBSET Message]
      BY <2>1, <3>1, TransmitType DEF SendCross
    <3> QED
      BY <2>1, <3>2 DEF SendCross, TypeOK, queueVars, startVars, rbcVars
  <2>2. ASSUME NEW b \in Correct, StartRBC(b) PROVE TypeOK'
    <3> DEFINE k == Head(crossMsgQueue[b])
    <3>1. k \in Instance \X Value /\ Tail(crossMsgQueue[b]) \in Seq(Instance \X Value)
      BY <2>2 DEF StartRBC, TypeOK
    <3>2. {SendMsg(b, k[1], k[2])} \in SUBSET Message
      BY <3>1, MsgType
    <3>3. msgs' \subseteq Message /\ net' \in [Correct -> SUBSET Message]
      BY <2>2, <3>2, TransmitType DEF StartRBC
    <3> QED
      BY <2>2, <3>1, <3>3 DEF StartRBC, TypeOK, rbcVars, Total
  <2>3. ASSUME NEW b \in Correct, MarkCross(b) PROVE TypeOK'
    BY <2>3 DEF MarkCross, TypeOK, queueVars, RBCStatus, CROSS
  <2>4. ASSUME NEW b \in Correct, NEW m \in Message, HandleCross(b, m) PROVE TypeOK'
    <3> DEFINE k == <<m.inst, m.val>>
    <3>1. k \in Instance \X Value /\ m.inst \in Instance /\ m.from \in A \cup B
          /\ m.round \in Nat
      BY <2>4, MessageFields DEF HandleCross
    <3>2. msgs' \subseteq Message /\ net' \in [Correct -> SUBSET Message]
      BY <2>4, TransmitType DEF HandleCross
    <3>3. buffer' = [buffer EXCEPT ![b][k] = buffer[b][k] \cup {m.from}]
      BY <2>4 DEF HandleCross, Votes
    <3>4. buffer' \in [Correct -> [Instance \X Value -> SUBSET (A \cup B)]]
      <4>1. buffer \in [Correct -> [Instance \X Value -> SUBSET (A \cup B)]]
        BY DEF TypeOK
      <4>2. buffer[b][k] \cup {m.from} \in SUBSET (A \cup B)
        BY <3>1, <4>1
      <4> HIDE DEF k
      <4> QED
        BY <3>1, <3>3, <4>1, <4>2, TableUpdate
    <3>5. \/ UNCHANGED <<crossMsgQueue, order>>
          \/ /\ crossMsgQueue' = [crossMsgQueue EXCEPT ![b] = Append(@, k)]
             /\ order' = [order EXCEPT ![b] = @ \cup {m.inst}]
      BY <2>4 DEF HandleCross
    <3>6. /\ crossMsgQueue' \in [Correct -> Seq(Instance \X Value)]
          /\ order' \in [Correct -> SUBSET Instance]
      <4>1. crossMsgQueue \in [Correct -> Seq(Instance \X Value)]
            /\ order \in [Correct -> SUBSET Instance]
        BY DEF TypeOK
      <4>2. /\ Append(crossMsgQueue[b], k) \in Seq(Instance \X Value)
            /\ order[b] \cup {m.inst} \in SUBSET Instance
        BY <3>1, <4>1
      <4> HIDE DEF k
      <4> QED
        BY <3>5, <4>1, <4>2
    <3> QED
      BY <2>4, <3>1, <3>2, <3>4, <3>6 DEF HandleCross, TypeOK, startVars, rbcVars
  <2>5. ASSUME NEW b \in Correct, NEW m \in Message, HandleSend(b, m) PROVE TypeOK'
    <3>1. m.inst \in Instance /\ m.val \in Value /\ b \in B
      BY <2>5, MessageFields DEF HandleSend
    <3>2. {EchoMsg(b, m.inst, m.val)} \in SUBSET Message
      BY <3>1, MsgType
    <3>3. msgs' \subseteq Message /\ net' \in [Correct -> SUBSET Message]
      BY <2>5, <3>2, TransmitType DEF HandleSend
    <3>4. \/ epochStatus' = epochStatus
          \/ epochStatus' = [epochStatus EXCEPT ![b][m.inst] = SEND]
      BY <2>5 DEF HandleSend, rbcVars
    <3>5. epochStatus' \in [Correct -> [Instance -> RBCStatus]]
      <4>1. epochStatus \in [Correct -> [Instance -> RBCStatus]]
        BY DEF TypeOK
      <4>2. SEND \in RBCStatus
        BY DEF RBCStatus
      <4>3. [epochStatus EXCEPT ![b][m.inst] = SEND] \in [Correct -> [Instance -> RBCStatus]]
        BY <3>1, <4>1, <4>2, TableUpdate, Zenon
      <4> QED
        BY <3>4, <4>1, <4>3, Zenon
    <3> QED
      BY <2>5, <3>3, <3>5 DEF HandleSend, TypeOK, queueVars, startVars, rbcVars
  <2>6. ASSUME NEW b \in Correct, NEW m \in Message, HandleEcho(b, m) PROVE TypeOK'
    <3>1. m.inst \in Instance /\ b \in B /\ m.hash \in Hash /\ m.from \in A \cup B
      BY <2>6, MessageFields DEF HandleEcho
    <3>2. {ReadyMsg(b, m.inst, m.hash)} \in SUBSET Message
      BY <3>1 DEF ReadyMsg, Message
    <3>3. msgs' \subseteq Message /\ net' \in [Correct -> SUBSET Message]
      BY <2>6, <3>2, TransmitType DEF HandleEcho
    <3>4. \/ epochStatus' = epochStatus
          \/ epochStatus' = [epochStatus EXCEPT ![b][m.inst] = ECHO]
      BY <2>6 DEF HandleEcho
    <3>5. epochStatus' \in [Correct -> [Instance -> RBCStatus]]
      <4>1. epochStatus \in [Correct -> [Instance -> RBCStatus]]
        BY DEF TypeOK
      <4>2. ECHO \in RBCStatus
        BY DEF RBCStatus
      <4>3. [epochStatus EXCEPT ![b][m.inst] = ECHO] \in [Correct -> [Instance -> RBCStatus]]
        BY <3>1, <4>1, <4>2, TableUpdate, Zenon
      <4> QED
        BY <3>4, <4>1, <4>3, Zenon
    <3>6. bufferc' = [bufferc EXCEPT ![b][m.hash] = bufferc[b][m.hash] \cup {m.from}]
      BY <2>6 DEF HandleEcho
    <3>7. bufferc' \in [Correct -> [Hash -> SUBSET (A \cup B)]]
      <4>1. bufferc[b][m.hash] \cup {m.from} \in SUBSET (A \cup B)
        BY <3>1 DEF TypeOK
      <4> QED
        BY <3>1, <3>6, <4>1, TableUpdate DEF TypeOK
    <3> QED
      BY <2>6, <3>3, <3>5, <3>7 DEF HandleEcho, TypeOK, queueVars, startVars
  <2>7. ASSUME NEW b \in Correct, NEW m \in Message, HandleReady(b, m) PROVE TypeOK'
    <3>1. m.inst \in Instance /\ b \in B /\ m.hash \in Hash /\ m.from \in A \cup B
      BY <2>7, MessageFields DEF HandleReady
    <3>2. {ReadyMsg(b, m.inst, m.hash)} \in SUBSET Message
      BY <3>1 DEF ReadyMsg, Message
    <3>3. msgs' \subseteq Message /\ net' \in [Correct -> SUBSET Message]
      BY <2>7, <3>2, TransmitType DEF HandleReady
    <3>4. \/ UNCHANGED <<epochStatus, delivered, xDelivered>>
          \/ Deliver(b, m.inst)
      BY <2>7 DEF HandleReady
    <3>5. /\ epochStatus' \in [Correct -> [Instance -> RBCStatus]]
          /\ delivered' \in [Correct -> SUBSET Instance]
      <4>1. epochStatus \in [Correct -> [Instance -> RBCStatus]]
            /\ delivered \in [Correct -> SUBSET Instance]
        BY DEF TypeOK
      <4>2. delivered[b] \cup {m.inst} \in SUBSET Instance
        BY <3>1, <4>1
      <4>3. CASE Deliver(b, m.inst)
        BY <3>1, <4>1, <4>2, <4>3, TableUpdate DEF Deliver, RBCStatus
      <4> QED
        BY <3>4, <4>1, <4>3
    <3>6. xDelivered' \in [Correct -> BOOLEAN]
      <4>1. CASE UNCHANGED <<epochStatus, delivered, xDelivered>>
        BY <4>1 DEF TypeOK
      <4>2. CASE Deliver(b, m.inst)
        <5> DEFINE done == xDelivered[b] \/ Cardinality(delivered[b] \cup {m.inst}) = tEpoch[b]
        <5>1. done \in BOOLEAN
          OBVIOUS
        <5>2. xDelivered' = [xDelivered EXCEPT ![b] = done]
          BY <4>2, Zenon DEF Deliver
        <5> HIDE DEF done
        <5> QED
          BY <5>1, <5>2 DEF TypeOK
      <4> QED
        BY <3>4, <4>1, <4>2
    <3>7. bufferd' = [bufferd EXCEPT ![b][m.hash] = bufferd[b][m.hash] \cup {m.from}]
      BY <2>7 DEF HandleReady
    <3>8. bufferd' \in [Correct -> [Hash -> SUBSET (A \cup B)]]
      <4>1. bufferd[b][m.hash] \cup {m.from} \in SUBSET (A \cup B)
        BY <3>1 DEF TypeOK
      <4> QED
        BY <3>1, <3>7, <4>1, TableUpdate DEF TypeOK
    <3> QED
      BY <2>7, <3>3, <3>5, <3>6, <3>8 DEF HandleReady, TypeOK, queueVars, startVars
  <2>8. CASE UNCHANGED vars
    BY <2>8 DEF TypeOK, vars, queueVars, startVars, rbcVars
  <2> QED
    BY <2>1, <2>2, <2>3, <2>4, <2>5, <2>6, <2>7, <2>8, Handled DEF Next, Handle
<1> QED
  BY <1>1, <1>2, PTL DEF Spec

(***************************************************************************)
(* An instance is started once                                             *)
(***************************************************************************)

\* What one step does to the status of one instance.
StatusMoves(b, i) ==
  \/ epochStatus'[b][i] = epochStatus[b][i]
  \/ starting[b] = i /\ starting'[b] = None /\ epochStatus'[b][i] = CROSS
  \/ epochStatus[b][i] = CROSS /\ epochStatus'[b][i] = SEND
  \/ epochStatus[b][i] = SEND /\ epochStatus'[b][i] = ECHO
  \/ epochStatus[b][i] = ECHO /\ epochStatus'[b][i] = DELIVER

\* What one step does to the queue of a node and to the instance it starts.
QueueMoves(b) ==
  \/ UNCHANGED <<crossMsgQueue[b], order[b], starting[b]>>
  \/ \E k \in Instance \X Value :
       /\ k[1] \notin order[b]
       /\ Cardinality(buffer'[b][k]) >= CrossQuorum
       /\ crossMsgQueue'[b] = Append(crossMsgQueue[b], k)
       /\ order'[b] = order[b] \cup {k[1]}
       /\ UNCHANGED <<starting[b], epochStatus[b]>>
  \/ /\ starting[b] = None /\ crossMsgQueue[b] # <<>>
     /\ starting'[b] = Head(crossMsgQueue[b])[1]
     /\ crossMsgQueue'[b] = Tail(crossMsgQueue[b])
     /\ UNCHANGED <<order[b], epochStatus[b]>>
  \/ /\ starting[b] # None /\ starting'[b] = None
     /\ epochStatus'[b] = [epochStatus[b] EXCEPT ![starting[b]] = CROSS]
     /\ UNCHANGED <<crossMsgQueue[b], order[b]>>

LEMMA StatusStep ==
  ASSUME TypeOK, [Next]_vars, NEW b \in Correct, NEW i \in Instance
  PROVE  StatusMoves(b, i)
<1>0. /\ epochStatus \in [Correct -> [Instance -> RBCStatus]]
      /\ starting \in [Correct -> Instance \cup {None}]
  BY DEF TypeOK
<1>1. ASSUME NEW a \in Relay, NEW v \in Request, SendCross(a, v) PROVE StatusMoves(b, i)
  BY <1>1 DEF SendCross, rbcVars, StatusMoves
<1>2. ASSUME NEW c \in Correct, StartRBC(c) PROVE StatusMoves(b, i)
  BY <1>2 DEF StartRBC, rbcVars, StatusMoves
<1>3. ASSUME NEW c \in Correct, MarkCross(c) PROVE StatusMoves(b, i)
  BY <1>0, <1>3 DEF MarkCross, StatusMoves
<1>4. ASSUME NEW c \in Correct, NEW m \in Message, HandleCross(c, m) PROVE StatusMoves(b, i)
  BY <1>4 DEF HandleCross, rbcVars, StatusMoves
<1>5. ASSUME NEW c \in Correct, NEW m \in Message, HandleSend(c, m) PROVE StatusMoves(b, i)
  <2>1. \/ epochStatus' = epochStatus
        \/ /\ epochStatus[c][m.inst] = CROSS
           /\ epochStatus' = [epochStatus EXCEPT ![c][m.inst] = SEND]
    BY <1>5 DEF HandleSend, MayEcho, rbcVars
  <2> QED
    BY <1>0, <2>1, MessageFields DEF StatusMoves
<1>6. ASSUME NEW c \in Correct, NEW m \in Message, HandleEcho(c, m) PROVE StatusMoves(b, i)
  <2>1. \/ epochStatus' = epochStatus
        \/ /\ epochStatus[c][m.inst] = SEND
           /\ epochStatus' = [epochStatus EXCEPT ![c][m.inst] = ECHO]
    BY <1>6 DEF HandleEcho
  <2> QED
    BY <1>0, <2>1, MessageFields DEF StatusMoves
<1>7. ASSUME NEW c \in Correct, NEW m \in Message, HandleReady(c, m) PROVE StatusMoves(b, i)
  <2>1. \/ epochStatus' = epochStatus
        \/ /\ epochStatus[c][m.inst] = ECHO
           /\ epochStatus' = [epochStatus EXCEPT ![c][m.inst] = DELIVER]
    BY <1>7 DEF HandleReady, Deliver, CanDeliver
  <2> QED
    BY <1>0, <2>1, MessageFields DEF StatusMoves
<1>8. CASE UNCHANGED vars
  BY <1>8 DEF vars, rbcVars, StatusMoves
<1> QED
  BY <1>1, <1>2, <1>3, <1>4, <1>5, <1>6, <1>7, <1>8, Handled DEF Next, Handle

LEMMA QueueStep ==
  ASSUME TypeOK, [Next]_vars, NEW b \in Correct
  PROVE  QueueMoves(b)
<1>0. /\ epochStatus \in [Correct -> [Instance -> RBCStatus]]
      /\ crossMsgQueue \in [Correct -> Seq(Instance \X Value)]
      /\ order \in [Correct -> SUBSET Instance]
      /\ starting \in [Correct -> Instance \cup {None}]
  BY DEF TypeOK
<1>1. ASSUME NEW a \in Relay, NEW v \in Request, SendCross(a, v) PROVE QueueMoves(b)
  BY <1>1 DEF SendCross, queueVars, startVars, QueueMoves
<1>2. ASSUME NEW c \in Correct, StartRBC(c) PROVE QueueMoves(b)
  BY <1>0, <1>2 DEF StartRBC, rbcVars, QueueMoves
<1>3. ASSUME NEW c \in Correct, MarkCross(c) PROVE QueueMoves(b)
  <2>1. /\ starting[c] # None
        /\ epochStatus' = [epochStatus EXCEPT ![c][starting[c]] = CROSS]
        /\ starting' = [starting EXCEPT ![c] = None]
        /\ UNCHANGED <<crossMsgQueue, order>>
    BY <1>3 DEF MarkCross, queueVars
  <2> QED
    BY <1>0, <2>1 DEF QueueMoves
<1>4. ASSUME NEW c \in Correct, NEW m \in Message, HandleCross(c, m) PROVE QueueMoves(b)
  <2> DEFINE k == <<m.inst, m.val>>
  <2>1. k \in Instance \X Value /\ k[1] = m.inst
    BY <1>4, MessageFields DEF HandleCross
  <2>2. /\ UNCHANGED <<starting, epochStatus>>
        /\ \/ UNCHANGED <<crossMsgQueue, order>>
           \/ /\ k[1] \notin order[c]
              /\ Cardinality(buffer[c][k] \cup {m.from}) >= CrossQuorum
              /\ crossMsgQueue' = [crossMsgQueue EXCEPT ![c] = Append(@, k)]
              /\ order' = [order EXCEPT ![c] = @ \cup {k[1]}]
    BY <1>4 DEF HandleCross, Queued, Votes, startVars, rbcVars
  <2>3. buffer' = [buffer EXCEPT ![c][k] = buffer[c][k] \cup {m.from}]
    BY <1>4 DEF HandleCross, Votes
  <2>4. buffer \in [Correct -> [Instance \X Value -> SUBSET (A \cup B)]]
    BY DEF TypeOK
  <2> HIDE DEF k
  <2>5. buffer'[c][k] = buffer[c][k] \cup {m.from}
    BY <2>1, <2>3, <2>4
  <2> QED
    BY <1>0, <2>1, <2>2, <2>5 DEF QueueMoves
<1>5. ASSUME NEW c \in Correct, NEW m \in Message, HandleSend(c, m) PROVE QueueMoves(b)
  BY <1>5 DEF HandleSend, queueVars, startVars, QueueMoves
<1>6. ASSUME NEW c \in Correct, NEW m \in Message, HandleEcho(c, m) PROVE QueueMoves(b)
  BY <1>6 DEF HandleEcho, queueVars, startVars, QueueMoves
<1>7. ASSUME NEW c \in Correct, NEW m \in Message, HandleReady(c, m) PROVE QueueMoves(b)
  BY <1>7 DEF HandleReady, queueVars, startVars, QueueMoves
<1>8. CASE UNCHANGED vars
  BY <1>8 DEF vars, queueVars, startVars, QueueMoves
<1> QED
  BY <1>1, <1>2, <1>3, <1>4, <1>5, <1>6, <1>7, <1>8, Handled DEF Next, Handle

\* An instance is in at most one of four places: never queued, waiting in the
\* queue (once), being started, or started.
StartOnceAt(b) ==
  /\ \A j \in DOMAIN crossMsgQueue[b] :
       /\ crossMsgQueue[b][j][1] \in order[b]
       /\ crossMsgQueue[b][j][1] # starting[b]
       /\ epochStatus[b][crossMsgQueue[b][j][1]] = IDLE
       /\ \A l \in DOMAIN crossMsgQueue[b] :
            crossMsgQueue[b][l][1] = crossMsgQueue[b][j][1] => l = j
  /\ starting[b] # None => /\ starting[b] \in order[b]
                          /\ epochStatus[b][starting[b]] = IDLE
  /\ \A i \in Instance : epochStatus[b][i] # IDLE => i \in order[b]

StartOnce == \A b \in Correct : StartOnceAt(b)

LEMMA StartOnceInvariant == Spec => []StartOnce
<1>1. Init => StartOnce
  BY DEF Init, StartOnce, StartOnceAt
<1>2. TypeOK /\ StartOnce /\ [Next]_vars => StartOnce'
  <2> SUFFICES ASSUME TypeOK, StartOnce, [Next]_vars, NEW b \in Correct
               PROVE  StartOnceAt(b)'
    BY DEF StartOnce
  <2>1. StartOnceAt(b)
    BY DEF StartOnce
  <2>2. /\ epochStatus[b] \in [Instance -> RBCStatus]
        /\ crossMsgQueue[b] \in Seq(Instance \X Value)
        /\ order[b] \subseteq Instance
        /\ starting[b] \in Instance \cup {None}
        /\ None \notin Instance
    BY InstanceType DEF TypeOK
  <2>3. CASE UNCHANGED <<crossMsgQueue[b], order[b], starting[b]>>
    <3>1. \A i \in Instance : epochStatus[b][i] = IDLE <=> epochStatus'[b][i] = IDLE
      BY <2>2, <2>3, StatusStep DEF StatusMoves, IDLE, CROSS, SEND, ECHO, DELIVER
    <3> QED
      BY <2>1, <2>2, <2>3, <3>1 DEF StartOnceAt
  <2>4. ASSUME NEW k \in Instance \X Value,
               k[1] \notin order[b],
               crossMsgQueue'[b] = Append(crossMsgQueue[b], k),
               order'[b] = order[b] \cup {k[1]},
               UNCHANGED <<starting[b], epochStatus[b]>>
        PROVE  StartOnceAt(b)'
    BY <2>1, <2>2, <2>4 DEF StartOnceAt
  <2>5. CASE /\ starting[b] = None /\ crossMsgQueue[b] # <<>>
             /\ starting'[b] = Head(crossMsgQueue[b])[1]
             /\ crossMsgQueue'[b] = Tail(crossMsgQueue[b])
             /\ UNCHANGED <<order[b], epochStatus[b]>>
    BY <2>1, <2>2, <2>5 DEF StartOnceAt
  <2>6. CASE /\ starting[b] # None /\ starting'[b] = None
             /\ epochStatus'[b] = [epochStatus[b] EXCEPT ![starting[b]] = CROSS]
             /\ UNCHANGED <<crossMsgQueue[b], order[b]>>
    BY <2>1, <2>2, <2>6 DEF StartOnceAt, CROSS, IDLE
  <2> QED
    BY <2>3, <2>4, <2>5, <2>6, QueueStep DEF QueueMoves
<1> QED
  BY <1>1, <1>2, TypeCorrect, PTL DEF Spec

\* The status of an instance never goes back (StartRBC's assignment after its
\* broadcast, rbc.go): what StartRBC marks is an idle instance.
THEOREM StatusNeverGoesBack == Spec => StatusMonotone
<1>1. TypeOK /\ StartOnce /\ [Next]_vars
        => [\A b \in Correct, i \in Instance : epochStatus'[b][i] >= epochStatus[b][i]]_vars
  <2> SUFFICES ASSUME TypeOK, StartOnce, [Next]_vars, NEW b \in Correct, NEW i \in Instance
               PROVE  epochStatus'[b][i] >= epochStatus[b][i]
    OBVIOUS
  <2>1. epochStatus[b][i] \in RBCStatus
    BY DEF TypeOK
  <2>2. starting[b] = i => epochStatus[b][i] = IDLE
    BY InstanceType DEF StartOnce, StartOnceAt
  <2> QED
    BY <2>1, <2>2, StatusStep DEF StatusMoves, RBCStatus, IDLE, CROSS, SEND, ECHO, DELIVER
<1> QED
  BY <1>1, TypeCorrect, StartOnceInvariant, PTL DEF Spec, StatusMonotone

(***************************************************************************)
(* What is sent                                                            *)
(***************************************************************************)

\* Messages in flight were sent; only B nodes that run this code send the
\* messages of group B, each with the hash of its own instance, unless a faulty
\* node has named another; and only relays send CROSS, for the requests they
\* relayed and the instances of those.
Authentic ==
  /\ \A b \in Correct : net[b] \subseteq msgs
  /\ \A m \in msgs :
       /\ m.type # "CROSS" => m.from \in Correct
       /\ m.type = "CROSS" =>
            /\ m.from \in Relay /\ m.val \in crossSent[m.from]
            /\ m.inst < NumReq[m.val]
       /\ m.type = "ECHO" => m.hash[1] = m.inst
       /\ m.type = "READY" => Misnamed(m.inst) \/ m.hash[1] = m.inst

\* The sender of an ECHO has left the states in which it may still echo.
EchoMarked ==
  \A b \in Correct, i \in Instance, v \in Value :
    EchoMsg(b, i, v) \in msgs => epochStatus[b][i] >= SEND

\* A message that a handler is given was sent by a node that runs this code, or is
\* made up by a faulty node; its hash is that of its own instance, unless a
\* faulty node has named another.
LEMMA ReceivableKnown ==
  ASSUME Authentic, NEW b \in Correct, NEW m, Receivable(b, m)
  PROVE  /\ m \in msgs \/ m \in Forged
         /\ m \in msgs \/ m.from \in Faulty
         /\ m.type \in {"ECHO", "READY"} => Misnamed(m.inst) \/ m.hash[1] = m.inst
BY DEF Authentic, Receivable, Faulty, Misnamed

\* What one step sends: nothing; CROSS messages; or one message of a B node.
Sends ==
  \/ msgs' = msgs
  \/ \E a \in Relay, v \in Request :
       /\ crossSent' = [crossSent EXCEPT ![a] = @ \cup {v}]
       /\ msgs' = msgs \cup {CrossMsg(a, i, v) : i \in 0 .. (NumReq[v] - 1)}
  \/ \E b \in Correct :
       /\ crossMsgQueue[b] # <<>>
       /\ msgs' = msgs \cup
            {SendMsg(b, Head(crossMsgQueue[b])[1], Head(crossMsgQueue[b])[2])}
  \/ \E b \in Correct, m \in Message :
       /\ m.type = "SEND" /\ Receivable(b, m)
       /\ epochStatus[b][m.inst] = CROSS /\ epochStatus'[b][m.inst] = SEND
       /\ msgs' = msgs \cup {EchoMsg(b, m.inst, m.val)}
  \/ \E b \in Correct, m \in Message :
       /\ m.type \in {"ECHO", "READY"} /\ Receivable(b, m)
       /\ msgs' = msgs \cup {ReadyMsg(b, m.inst, m.hash)}

LEMMA SendStep ==
  ASSUME TypeOK, [Next]_vars
  PROVE  Sends
<1>0. /\ epochStatus \in [Correct -> [Instance -> RBCStatus]]
      /\ crossMsgQueue \in [Correct -> Seq(Instance \X Value)]
  BY DEF TypeOK
<1>1. ASSUME NEW a \in Relay, NEW v \in Request, SendCross(a, v) PROVE Sends
  BY <1>1 DEF SendCross, Transmit, Sends
<1>2. ASSUME NEW b \in Correct, StartRBC(b) PROVE Sends
  BY <1>2 DEF StartRBC, Transmit, Sends
<1>3. ASSUME NEW b \in Correct, MarkCross(b) PROVE Sends
  BY <1>3 DEF MarkCross, Sends
<1>4. ASSUME NEW b \in Correct, NEW m \in Message, HandleCross(b, m) PROVE Sends
  <2>1. msgs' = msgs \cup {}
    BY <1>4 DEF HandleCross, Transmit
  <2> QED
    BY <2>1 DEF Sends
<1>5. ASSUME NEW b \in Correct, NEW m \in Message, HandleSend(b, m) PROVE Sends
  <2>1. CASE MayEcho(b, m.inst)
    <3>1. /\ m.type = "SEND" /\ Receivable(b, m) /\ epochStatus[b][m.inst] = CROSS
          /\ epochStatus' = [epochStatus EXCEPT ![b][m.inst] = SEND]
          /\ msgs' = msgs \cup {EchoMsg(b, m.inst, m.val)}
      BY <1>5, <2>1 DEF HandleSend, Transmit, MayEcho
    <3>2. epochStatus'[b][m.inst] = SEND
      BY <1>0, <3>1, MessageFields
    <3> QED
      BY <3>1, <3>2 DEF Sends
  <2>2. CASE ~MayEcho(b, m.inst)
    <3>1. msgs' = msgs \cup {}
      BY <1>5, <2>2 DEF HandleSend, Transmit
    <3> QED
      BY <3>1 DEF Sends
  <2> QED
    BY <2>1, <2>2
<1>6. ASSUME NEW b \in Correct, NEW m \in Message, HandleEcho(b, m) PROVE Sends
  <2>1. /\ m.type = "ECHO" /\ Receivable(b, m)
        /\ \E new \in {{}, {ReadyMsg(b, m.inst, m.hash)}} : msgs' = msgs \cup new
    BY <1>6 DEF HandleEcho, Transmit
  <2> QED
    BY <2>1 DEF Sends
<1>7. ASSUME NEW b \in Correct, NEW m \in Message, HandleReady(b, m) PROVE Sends
  <2>1. /\ m.type = "READY" /\ Receivable(b, m)
        /\ \E new \in {{}, {ReadyMsg(b, m.inst, m.hash)}} : msgs' = msgs \cup new
    BY <1>7 DEF HandleReady, Transmit
  <2> QED
    BY <2>1 DEF Sends
<1>8. CASE UNCHANGED vars
  BY <1>8 DEF vars, Sends
<1> QED
  BY <1>1, <1>2, <1>3, <1>4, <1>5, <1>6, <1>7, <1>8, Handled DEF Next, Handle

\* What is in flight after a step was in flight or is sent by the step.
LEMMA NetStep ==
  ASSUME TypeOK, [Next]_vars, NEW b \in Correct
  PROVE  net'[b] \subseteq net[b] \cup msgs' /\ msgs \subseteq msgs'
<1> DEFINE Goal == net'[b] \subseteq net[b] \cup msgs' /\ msgs \subseteq msgs'
<1>0. ASSUME NEW c, NEW got, NEW new, Transmit(c, got, new) PROVE Goal
  BY <1>0 DEF Transmit
<1>1. ASSUME NEW a \in Relay, NEW v \in Request, SendCross(a, v) PROVE Goal
  BY <1>0, <1>1 DEF SendCross
<1>2. ASSUME NEW c \in Correct, StartRBC(c) PROVE Goal
  BY <1>0, <1>2 DEF StartRBC
<1>3. ASSUME NEW c \in Correct, MarkCross(c) PROVE Goal
  BY <1>3 DEF MarkCross
<1>4. ASSUME NEW c \in Correct, NEW m \in Message, HandleCross(c, m) PROVE Goal
  BY <1>0, <1>4 DEF HandleCross
<1>5. ASSUME NEW c \in Correct, NEW m \in Message, HandleSend(c, m) PROVE Goal
  BY <1>0, <1>5 DEF HandleSend
<1>6. ASSUME NEW c \in Correct, NEW m \in Message, HandleEcho(c, m) PROVE Goal
  BY <1>0, <1>6 DEF HandleEcho
<1>7. ASSUME NEW c \in Correct, NEW m \in Message, HandleReady(c, m) PROVE Goal
  BY <1>0, <1>7 DEF HandleReady
<1>8. CASE UNCHANGED vars
  BY <1>8 DEF vars
<1> QED
  BY <1>1, <1>2, <1>3, <1>4, <1>5, <1>6, <1>7, <1>8, Handled DEF Next, Handle

\* Relays only add to what they have relayed.
LEMMA CrossSentGrows ==
  ASSUME TypeOK, [Next]_vars, NEW a \in Relay
  PROVE  crossSent[a] \subseteq crossSent'[a]
<1> DEFINE Goal == crossSent[a] \subseteq crossSent'[a]
<1>0. crossSent \in [Relay -> SUBSET Request]
  BY DEF TypeOK
<1>1. ASSUME NEW c \in Relay, NEW v \in Request, SendCross(c, v) PROVE Goal
  BY <1>0, <1>1 DEF SendCross
<1>2. ASSUME NEW c \in Correct, StartRBC(c) PROVE Goal
  BY <1>2 DEF StartRBC
<1>3. ASSUME NEW c \in Correct, MarkCross(c) PROVE Goal
  BY <1>3 DEF MarkCross
<1>4. ASSUME NEW c \in Correct, NEW m \in Message, HandleCross(c, m) PROVE Goal
  BY <1>4 DEF HandleCross
<1>5. ASSUME NEW c \in Correct, NEW m \in Message, HandleSend(c, m) PROVE Goal
  BY <1>5 DEF HandleSend
<1>6. ASSUME NEW c \in Correct, NEW m \in Message, HandleEcho(c, m) PROVE Goal
  BY <1>6 DEF HandleEcho
<1>7. ASSUME NEW c \in Correct, NEW m \in Message, HandleReady(c, m) PROVE Goal
  BY <1>7 DEF HandleReady
<1>8. CASE UNCHANGED vars
  BY <1>8 DEF vars
<1> QED
  BY <1>1, <1>2, <1>3, <1>4, <1>5, <1>6, <1>7, <1>8, Handled DEF Next, Handle

LEMMA AuthenticInvariant == Spec => []Authentic
<1>1. Init => Authentic
  BY DEF Init, Authentic
<1>2. TypeOK /\ Authentic /\ [Next]_vars => Authentic'
  <2> SUFFICES ASSUME TypeOK, Authentic, [Next]_vars PROVE Authentic'
    OBVIOUS
  <2>1. \A b \in Correct : net'[b] \subseteq msgs'
    BY NetStep DEF Authentic
  <2>2. ASSUME NEW m \in msgs'
        PROVE  /\ m.type # "CROSS" => m.from \in Correct
               /\ m.type = "CROSS" =>
                    /\ m.from \in Relay /\ m.val \in crossSent'[m.from]
                    /\ m.inst < NumReq[m.val]
               /\ m.type = "ECHO" => m.hash[1] = m.inst
               /\ m.type = "READY" => Misnamed(m.inst) \/ m.hash[1] = m.inst
    <3>1. CASE m \in msgs
      BY <3>1, CrossSentGrows DEF Authentic
    <3>2. ASSUME NEW a \in Relay, NEW v \in Request,
                 crossSent' = [crossSent EXCEPT ![a] = @ \cup {v}],
                 m \in {CrossMsg(a, i, v) : i \in 0 .. (NumReq[v] - 1)}
          PROVE  /\ m.type = "CROSS" /\ m.from \in Relay /\ m.val \in crossSent'[m.from]
                 /\ m.inst < NumReq[m.val]
      <4>1. v \in Value /\ NumReq[v] \in Nat
        BY Groups
      <4>2. PICK i \in 0 .. (NumReq[v] - 1) : m = CrossMsg(a, i, v)
        BY <3>2
      <4>3. i < NumReq[v]
        BY <4>1
      <4> QED
        BY <3>2, <4>2, <4>3 DEF CrossMsg, TypeOK
    <3>3. CASE \E b \in Correct : \E i, v : m = SendMsg(b, i, v) \/ m = EchoMsg(b, i, v)
      BY <3>3 DEF SendMsg, EchoMsg
    <3>4. ASSUME NEW b \in Correct, NEW n \in Message, n.type \in {"ECHO", "READY"},
                 Receivable(b, n), m = ReadyMsg(b, n.inst, n.hash)
          PROVE  /\ m.type = "READY" /\ m.from \in Correct
                 /\ Misnamed(m.inst) \/ m.hash[1] = m.inst
      BY <3>4, ReceivableKnown DEF ReadyMsg
    <3> QED
      BY <3>1, <3>2, <3>3, <3>4, SendStep DEF Sends
  <2> QED
    BY <2>1, <2>2 DEF Authentic
<1> QED
  BY <1>1, <1>2, TypeCorrect, PTL DEF Spec

\* A node that runs this code echoes at most one request for an instance
\* (HandleSend, rbc.go), whatever the other nodes of both groups send.
THEOREM EchoedOnce == Spec => [](EchoOnce /\ EchoMarked)
<1> DEFINE Inv == EchoOnce /\ EchoMarked
<1>1. Init => Inv
  BY DEF Init, EchoOnce, EchoMarked
<1>2. TypeOK /\ StartOnce /\ Inv /\ [Next]_vars => Inv'
  <2> SUFFICES ASSUME TypeOK, StartOnce, Inv, [Next]_vars PROVE Inv'
    OBVIOUS
  <2>1. ASSUME NEW b \in Correct, NEW i \in Instance, epochStatus[b][i] >= SEND
        PROVE  epochStatus'[b][i] >= SEND
    <3>1. epochStatus[b][i] \in RBCStatus
      BY DEF TypeOK
    <3>2. starting[b] # i
      BY <2>1, InstanceType DEF StartOnce, StartOnceAt, IDLE, SEND
    <3> QED
      BY <2>1, <3>1, <3>2, StatusStep
      DEF StatusMoves, RBCStatus, IDLE, CROSS, SEND, ECHO, DELIVER
  <2>2. CASE /\ \A c \in Correct, i \in Instance, v \in Value :
                  EchoMsg(c, i, v) \in msgs' => EchoMsg(c, i, v) \in msgs
    BY <2>1, <2>2 DEF EchoOnce, EchoMarked
  <2>3. ASSUME NEW b \in Correct, NEW m \in Message,
               m.type = "SEND",
               epochStatus[b][m.inst] = CROSS, epochStatus'[b][m.inst] = SEND,
               msgs' = msgs \cup {EchoMsg(b, m.inst, m.val)}
        PROVE  Inv'
    <3>1. ASSUME NEW c \in Correct, NEW i \in Instance, NEW v \in Value,
                 EchoMsg(c, i, v) \in msgs'
          PROVE  \/ EchoMsg(c, i, v) \in msgs
                 \/ c = b /\ i = m.inst /\ v = m.val
      BY <2>3, <3>1 DEF EchoMsg
    <3>2. ASSUME NEW v \in Value, EchoMsg(b, m.inst, v) \in msgs PROVE FALSE
      <4>1. epochStatus[b][m.inst] >= SEND
        BY <2>3, <3>2, MessageFields DEF EchoMarked
      <4> QED
        BY <2>3, <4>1 DEF CROSS, SEND
    <3>3. EchoOnce'
      BY <2>3, <3>1, <3>2 DEF EchoOnce
    <3>4. EchoMarked'
      BY <2>1, <2>3, <3>1 DEF EchoMarked, SEND
    <3> QED
      BY <3>3, <3>4
  <2> QED
    BY <2>2, <2>3, SendStep DEF Sends, CrossMsg, SendMsg, EchoMsg, ReadyMsg
<1> QED
  BY <1>1, <1>2, TypeCorrect, StartOnceInvariant, PTL DEF Spec

(***************************************************************************)
(* What is counted                                                         *)
(***************************************************************************)

\* The ECHOs a node has counted were sent, or come from a faulty node; and it
\* has a quorum of them for what it has delivered.
EchoesCounted ==
  \A b \in Correct, k \in Instance \X Value : \A c \in bufferc[b][k] :
    c \in Faulty \/ (c \in Correct /\ EchoMsg(c, k[1], k[2]) \in msgs)

DeliveredWithQuorum ==
  \A b \in Correct, i \in Instance : i \in delivered[b] =>
    Misnamed(i) \/ \E v \in Value : EchoQuorum(b, <<i, v>>)

\* What one step does to the ECHO senders of one pair.
EchoCounts(b, k) ==
  \/ bufferc'[b][k] = bufferc[b][k]
  \/ \E m \in Message : /\ m.type = "ECHO" /\ Receivable(b, m)
                        /\ k = m.hash
                        /\ bufferc'[b][k] = bufferc[b][k] \cup {m.from}

LEMMA CountStep ==
  ASSUME TypeOK, [Next]_vars, NEW b \in Correct, NEW k \in Instance \X Value
  PROVE  EchoCounts(b, k)
<1>0. bufferc \in [Correct -> [Hash -> SUBSET (A \cup B)]] /\ k \in Hash
  BY DEF TypeOK, Hash
<1>1. ASSUME NEW a \in Relay, NEW v \in Request, SendCross(a, v) PROVE EchoCounts(b, k)
  BY <1>1 DEF SendCross, rbcVars, EchoCounts
<1>2. ASSUME NEW c \in Correct, StartRBC(c) PROVE EchoCounts(b, k)
  BY <1>2 DEF StartRBC, rbcVars, EchoCounts
<1>3. ASSUME NEW c \in Correct, MarkCross(c) PROVE EchoCounts(b, k)
  BY <1>3 DEF MarkCross, EchoCounts
<1>4. ASSUME NEW c \in Correct, NEW m \in Message, HandleCross(c, m) PROVE EchoCounts(b, k)
  BY <1>4 DEF HandleCross, rbcVars, EchoCounts
<1>5. ASSUME NEW c \in Correct, NEW m \in Message, HandleSend(c, m) PROVE EchoCounts(b, k)
  BY <1>5 DEF HandleSend, rbcVars, EchoCounts
<1>6. ASSUME NEW c \in Correct, NEW m \in Message, HandleEcho(c, m) PROVE EchoCounts(b, k)
  <2> DEFINE l == m.hash
  <2>1. /\ m.type = "ECHO" /\ Receivable(c, m)
        /\ bufferc' = [bufferc EXCEPT ![c][l] = bufferc[c][l] \cup {m.from}]
    BY <1>6 DEF HandleEcho
  <2>2. l \in Hash
    BY <2>1, MessageFields
  <2>3. CASE b = c /\ k = l
    <3>1. bufferc'[b][k] = bufferc[b][k] \cup {m.from}
      <4> HIDE DEF l
      <4> QED
        BY <1>0, <2>1, <2>2, <2>3
    <3> QED
      BY <2>1, <2>3, <3>1 DEF EchoCounts
  <2>4. CASE ~(b = c /\ k = l)
    <3>1. bufferc'[b][k] = bufferc[b][k]
      <4> HIDE DEF l
      <4> QED
        BY <1>0, <2>1, <2>2, <2>4
    <3> QED
      BY <3>1 DEF EchoCounts
  <2> QED
    BY <2>3, <2>4
<1>7. ASSUME NEW c \in Correct, NEW m \in Message, HandleReady(c, m) PROVE EchoCounts(b, k)
  BY <1>7 DEF HandleReady, EchoCounts
<1>8. CASE UNCHANGED vars
  BY <1>8 DEF vars, rbcVars, EchoCounts
<1> QED
  BY <1>1, <1>2, <1>3, <1>4, <1>5, <1>6, <1>7, <1>8, Handled DEF Next, Handle

\* What a step delivers has a quorum of ECHOs.
LEMMA DeliverStep ==
  ASSUME TypeOK, Authentic, [Next]_vars, NEW b \in Correct,
         NEW i \in Instance, i \in delivered'[b], i \notin delivered[b]
  PROVE  Misnamed(i) \/ \E v \in Value : EchoQuorum(b, <<i, v>>)
<1> DEFINE Goal == Misnamed(i) \/ \E v \in Value : EchoQuorum(b, <<i, v>>)
<1>0. delivered \in [Correct -> SUBSET Instance]
  BY DEF TypeOK
<1>1. CASE delivered' = delivered
  BY <1>1
<1>2. ASSUME NEW c \in Correct, NEW m \in Message, HandleReady(c, m) PROVE Goal
  <2>1. /\ m.type = "READY" /\ Receivable(c, m)
        /\ \/ delivered' = delivered
           \/ /\ delivered' = [delivered EXCEPT ![c] = @ \cup {m.inst}]
              /\ EchoQuorum(c, m.hash)
    BY <1>2 DEF HandleReady, Deliver, CanDeliver
  <2>2. c = b /\ m.inst = i /\ EchoQuorum(b, m.hash)
    BY <1>0, <2>1
  <2>3. m.hash \in Instance \X Value
    BY <2>1, MessageFields DEF Hash
  <2>4. m.hash = <<m.hash[1], m.hash[2]>> /\ m.hash[2] \in Value
    BY <2>3
  <2>5. Misnamed(i) \/ m.hash[1] = i
    BY <2>1, <2>2, ReceivableKnown
  <2> QED
    BY <2>2, <2>4, <2>5
<1>3. ASSUME NEW a \in Relay, NEW v \in Request, SendCross(a, v) PROVE Goal
  BY <1>1, <1>3 DEF SendCross, rbcVars
<1>4. ASSUME NEW c \in Correct, StartRBC(c) \/ MarkCross(c) PROVE Goal
  BY <1>1, <1>4 DEF StartRBC, MarkCross, rbcVars
<1>5. ASSUME NEW c \in Correct, NEW m \in Message,
             HandleCross(c, m) \/ HandleSend(c, m) \/ HandleEcho(c, m)
      PROVE  Goal
  BY <1>1, <1>5 DEF HandleCross, HandleSend, HandleEcho, rbcVars
<1>6. CASE UNCHANGED vars
  BY <1>1, <1>6 DEF vars, rbcVars
<1> QED
  BY <1>2, <1>3, <1>4, <1>5, <1>6, Handled DEF Next, Handle

LEMMA EchoesCountedInvariant == Spec => []EchoesCounted
<1>1. Init => EchoesCounted
  BY DEF Init, EchoesCounted, Hash
<1>2. TypeOK /\ Authentic /\ EchoesCounted /\ [Next]_vars => EchoesCounted'
  <2> SUFFICES ASSUME TypeOK, Authentic, EchoesCounted, [Next]_vars,
                      NEW b \in Correct, NEW k \in Instance \X Value, NEW c \in bufferc'[b][k]
               PROVE  c \in Faulty \/ (c \in Correct /\ EchoMsg(c, k[1], k[2]) \in msgs')
    BY DEF EchoesCounted
  <2>1. msgs \subseteq msgs'
    BY NetStep
  <2>2. CASE c \in bufferc[b][k]
    BY <2>1, <2>2 DEF EchoesCounted
  <2>3. ASSUME NEW m \in Message, m.type = "ECHO", Receivable(b, m), k = m.hash, c = m.from
        PROVE  c \in Faulty \/ (c \in Correct /\ EchoMsg(c, k[1], k[2]) \in msgs')
    <3>1. CASE m \in msgs
      <4>1. m.hash[1] = m.inst /\ m.from \in Correct
        BY <2>3, <3>1 DEF Authentic
      <4>2. m = EchoMsg(c, k[1], k[2])
        BY <2>3, <4>1, MessageFields
      <4> QED
        BY <2>1, <2>3, <3>1, <4>1, <4>2
    <3> QED
      BY <2>3, <3>1, ReceivableKnown
  <2> QED
    BY <2>2, <2>3, CountStep DEF EchoCounts
<1> QED
  BY <1>1, <1>2, TypeCorrect, AuthenticInvariant, PTL DEF Spec

LEMMA QuorumStable ==
  ASSUME TypeOK, [Next]_vars, NEW b \in Correct, NEW k \in Instance \X Value, EchoQuorum(b, k)
  PROVE  EchoQuorum(b, k)'
<1>1. bufferc[b][k] \subseteq bufferc'[b][k] /\ bufferc'[b][k] \subseteq A \cup B
  <2>1. bufferc[b][k] \subseteq bufferc'[b][k]
    BY CountStep DEF EchoCounts
  <2>2. bufferc[b][k] \subseteq A \cup B
    BY DEF TypeOK, Hash
  <2>3. bufferc'[b][k] \subseteq A \cup B
    <3>1. \A m \in Message : m.from \in A \cup B
      BY MessageFields
    <3>2. EchoCounts(b, k)
      BY CountStep
    <3> QED
      BY <2>2, <3>1, <3>2 DEF EchoCounts
  <2> QED
    BY <2>1, <2>3
<1>2. IsFiniteSet(bufferc'[b][k]) /\ IsFiniteSet(bufferc[b][k])
  BY <1>1, Sizes
<1>3. Cardinality(bufferc[b][k]) <= Cardinality(bufferc'[b][k])
  BY <1>1, <1>2, FS_Subset
<1>4. Cardinality(bufferc[b][k]) \in Nat /\ Cardinality(bufferc'[b][k]) \in Nat
  BY <1>2, FS_CardinalityType
<1> QED
  BY <1>3, <1>4, QuorumType DEF EchoQuorum

LEMMA DeliveredWithQuorumInvariant == Spec => []DeliveredWithQuorum
<1>1. Init => DeliveredWithQuorum
  BY DEF Init, DeliveredWithQuorum
<1>2. TypeOK /\ Authentic /\ DeliveredWithQuorum /\ [Next]_vars => DeliveredWithQuorum'
  <2> SUFFICES ASSUME TypeOK, Authentic, DeliveredWithQuorum, [Next]_vars,
                      NEW b \in Correct, NEW i \in Instance, i \in delivered'[b]
               PROVE  Misnamed(i) \/ \E v \in Value : EchoQuorum(b, <<i, v>>)'
    BY DEF DeliveredWithQuorum
  <2>1. Misnamed(i) \/ \E v \in Value : EchoQuorum(b, <<i, v>>)
    BY DeliverStep DEF DeliveredWithQuorum
  <2> QED
    BY <2>1, QuorumStable
<1> QED
  BY <1>1, <1>2, TypeCorrect, AuthenticInvariant, PTL DEF Spec

\* Two quorums of ECHOs have a node in common that is not faulty, so it has
\* echoed for both: no two nodes deliver different requests for an instance
\* (HandleEcho, HandleReady and Deliver, rbc.go), whatever the faulty nodes of
\* both groups send.
THEOREM DeliveryAgreement == Spec => []Agreement
<1>1. TypeOK /\ EchoOnce /\ EchoesCounted /\ DeliveredWithQuorum => Agreement
  <2> SUFFICES ASSUME TypeOK, EchoOnce, EchoesCounted,
                      NEW b \in Correct, NEW c \in Correct, NEW i \in Instance,
                      NEW v \in Value, NEW w \in Value,
                      EchoQuorum(b, <<i, v>>), EchoQuorum(c, <<i, w>>)
               PROVE  v = w
    BY DEF Agreement, DeliveredWithQuorum, TypeOK
  <2> DEFINE S == bufferc[b][<<i, v>>]
             T == bufferc[c][<<i, w>>]
  <2>1. S \in SUBSET (A \cup B) /\ T \in SUBSET (A \cup B)
    BY DEF TypeOK, Hash
  <2>2. Cardinality(S) >= Quorum /\ Cardinality(T) >= Quorum
    BY DEF EchoQuorum
  <2>3. S \subseteq Faulty \cup Correct /\ T \subseteq Faulty \cup Correct
    BY DEF EchoesCounted
  <2>4. PICK d \in S \cap T : d \notin Faulty
    <3> HIDE DEF S, T
    <3> QED
      BY <2>1, <2>2, <2>3, QuorumIntersection
  <2>5. EchoMsg(d, i, v) \in msgs /\ EchoMsg(d, i, w) \in msgs /\ d \in Correct
    BY <2>4 DEF EchoesCounted
  <2> QED
    BY <2>5 DEF EchoOnce
<1> QED
  BY <1>1, TypeCorrect, EchoedOnce, EchoesCountedInvariant, DeliveredWithQuorumInvariant, PTL

(***************************************************************************)
(* What is broadcast comes from a relay                                    *)
(***************************************************************************)

\* The CROSS votes a node has counted are those of relays that did relay the
\* request, or come from a faulty node; what it has queued was relayed.
VotesCounted ==
  \A b \in Correct, k \in Instance \X Value : \A a \in buffer[b][k] :
    \/ a \in Faulty
    \/ a \in Relay /\ k[2] \in crossSent[a] /\ k[1] < NumReq[k[2]]

QueueRelayed ==
  \A b \in Correct : \A j \in DOMAIN crossMsgQueue[b] :
    Relayed(crossMsgQueue[b][j][1], crossMsgQueue[b][j][2])

\* What one step does to the CROSS votes of one pair.
VoteMoves(b, k) ==
  \/ buffer'[b][k] = buffer[b][k]
  \/ \E m \in Message : /\ m.type = "CROSS" /\ Receivable(b, m)
                        /\ k = <<m.inst, m.val>>
                        /\ buffer'[b][k] = buffer[b][k] \cup {m.from}

LEMMA VoteStep ==
  ASSUME TypeOK, [Next]_vars, NEW b \in Correct, NEW k \in Instance \X Value
  PROVE  VoteMoves(b, k)
<1>0. buffer \in [Correct -> [Instance \X Value -> SUBSET (A \cup B)]]
  BY DEF TypeOK
<1>1. CASE buffer' = buffer
  BY <1>1 DEF VoteMoves
<1>2. ASSUME NEW c \in Correct, NEW m \in Message, HandleCross(c, m) PROVE VoteMoves(b, k)
  <2> DEFINE l == <<m.inst, m.val>>
  <2>1. /\ m.type = "CROSS" /\ Receivable(c, m)
        /\ buffer' = [buffer EXCEPT ![c][l] = buffer[c][l] \cup {m.from}]
    BY <1>2 DEF HandleCross, Votes
  <2>2. l \in Instance \X Value
    BY <2>1, MessageFields
  <2>3. CASE b = c /\ k = l
    <3>1. buffer'[b][k] = buffer[b][k] \cup {m.from}
      <4> HIDE DEF l
      <4> QED
        BY <1>0, <2>1, <2>2, <2>3
    <3> QED
      BY <2>1, <2>3, <3>1 DEF VoteMoves
  <2>4. CASE ~(b = c /\ k = l)
    <3>1. buffer'[b][k] = buffer[b][k]
      <4> HIDE DEF l
      <4> QED
        BY <1>0, <2>1, <2>2, <2>4
    <3> QED
      BY <3>1 DEF VoteMoves
  <2> QED
    BY <2>3, <2>4
<1>3. ASSUME NEW a \in Relay, NEW v \in Request, SendCross(a, v) PROVE VoteMoves(b, k)
  BY <1>1, <1>3 DEF SendCross, queueVars
<1>4. ASSUME NEW c \in Correct, StartRBC(c) \/ MarkCross(c) PROVE VoteMoves(b, k)
  BY <1>1, <1>4 DEF StartRBC, MarkCross, queueVars
<1>5. ASSUME NEW c \in Correct, NEW m \in Message,
             HandleSend(c, m) \/ HandleEcho(c, m) \/ HandleReady(c, m)
      PROVE  VoteMoves(b, k)
  BY <1>1, <1>5 DEF HandleSend, HandleEcho, HandleReady, queueVars
<1>6. CASE UNCHANGED vars
  BY <1>1, <1>6 DEF vars, queueVars
<1> QED
  BY <1>2, <1>3, <1>4, <1>5, <1>6, Handled DEF Next, Handle

LEMMA VotesCountedInvariant == Spec => []VotesCounted
<1>1. Init => VotesCounted
  BY DEF Init, VotesCounted
<1>2. TypeOK /\ Authentic /\ VotesCounted /\ [Next]_vars => VotesCounted'
  <2> SUFFICES ASSUME TypeOK, Authentic, VotesCounted, [Next]_vars,
                      NEW b \in Correct, NEW k \in Instance \X Value, NEW a \in buffer'[b][k]
               PROVE  \/ a \in Faulty
                      \/ a \in Relay /\ k[2] \in crossSent'[a] /\ k[1] < NumReq[k[2]]
    BY DEF VotesCounted
  <2>1. CASE a \in buffer[b][k]
    BY <2>1, CrossSentGrows DEF VotesCounted
  <2>2. ASSUME NEW m \in Message, m.type = "CROSS", Receivable(b, m), k = <<m.inst, m.val>>,
               a = m.from
        PROVE  \/ a \in Faulty
               \/ a \in Relay /\ k[2] \in crossSent'[a] /\ k[1] < NumReq[k[2]]
    <3>1. CASE m \in msgs
      BY <2>2, <3>1, CrossSentGrows DEF Authentic
    <3> QED
      BY <2>2, <3>1, ReceivableKnown
  <2> QED
    BY <2>1, <2>2, VoteStep DEF VoteMoves
<1> QED
  BY <1>1, <1>2, TypeCorrect, AuthenticInvariant, PTL DEF Spec

\* t + 1 nodes of both groups include one that is not faulty.
LEMMA CrossQuorumCorrect ==
  ASSUME NEW S \in SUBSET (A \cup B), Cardinality(S) >= CrossQuorum
  PROVE  \E a \in S : a \notin Faulty
<1>1. S \subseteq Faulty => Cardinality(S) <= Cardinality(Faulty)
  BY Sizes, FS_Subset
<1>2. Cardinality(Faulty) < CrossQuorum
  BY FaultBounds DEF CrossQuorum
<1>3. /\ Cardinality(S) \in Nat /\ Cardinality(Faulty) \in Nat
      /\ CrossQuorum \in Int
  BY Sizes, GroupSizes DEF CrossQuorum, CrossSmallQuorum, GoDiv
<1> QED
  BY <1>1, <1>2, <1>3

LEMMA QueueRelayedInvariant == Spec => []QueueRelayed
<1>1. Init => QueueRelayed
  BY DEF Init, QueueRelayed
<1>2. TypeOK /\ TypeOK' /\ VotesCounted' /\ QueueRelayed /\ [Next]_vars => QueueRelayed'
  <2> SUFFICES ASSUME TypeOK, TypeOK', VotesCounted', QueueRelayed, [Next]_vars
               PROVE  QueueRelayed'
    OBVIOUS
  <2> DEFINE Good(k) == k[1] < NumReq[k[2]] /\ \E a \in Relay : k[2] \in crossSent'[a]
  <2> SUFFICES ASSUME NEW b \in Correct, NEW j \in DOMAIN crossMsgQueue'[b]
               PROVE  Good(crossMsgQueue'[b][j])
    BY DEF QueueRelayed, Relayed
  <2>1. crossMsgQueue[b] \in Seq(Instance \X Value)
    BY DEF TypeOK
  <2>2. \A l \in DOMAIN crossMsgQueue[b] : Good(crossMsgQueue[b][l])
    BY CrossSentGrows DEF QueueRelayed, Relayed
  <2>3. CASE crossMsgQueue'[b] = crossMsgQueue[b]
    BY <2>2, <2>3
  <2>4. CASE crossMsgQueue[b] # <<>> /\ crossMsgQueue'[b] = Tail(crossMsgQueue[b])
    <3> HIDE DEF Good
    <3> QED
      BY <2>1, <2>2, <2>4
  <2>5. ASSUME NEW k \in Instance \X Value,
               Cardinality(buffer'[b][k]) >= CrossQuorum,
               crossMsgQueue'[b] = Append(crossMsgQueue[b], k)
        PROVE  Good(crossMsgQueue'[b][j])
    <3>1. buffer'[b][k] \subseteq A \cup B
      BY DEF TypeOK
    <3>2. PICK a \in buffer'[b][k] : a \notin Faulty
      BY <2>5, <3>1, CrossQuorumCorrect
    <3>3. Good(k)
      BY <2>5, <3>2 DEF VotesCounted
    <3> HIDE DEF Good
    <3> QED
      BY <2>1, <2>2, <2>5, <3>3
  <2> QED
    BY <2>3, <2>4, <2>5, QueueStep DEF QueueMoves
<1> QED
  BY <1>1, <1>2, TypeCorrect, VotesCountedInvariant, PTL DEF Spec

\* A node of B broadcasts SEND only for a request a relay has relayed, and only
\* for an instance of it (StartRBC, rbc.go), whatever the faulty nodes send.
THEOREM SendsRelayed == Spec => []SendIntegrity
<1>1. Init => SendIntegrity
  BY DEF Init, SendIntegrity
<1>2. TypeOK /\ QueueRelayed /\ SendIntegrity /\ [Next]_vars => SendIntegrity'
  <2> SUFFICES ASSUME TypeOK, QueueRelayed, SendIntegrity, [Next]_vars,
                      NEW m \in msgs', m.type = "SEND"
               PROVE  m.inst < NumReq[m.val] /\ \E a \in Relay : m.val \in crossSent'[a]
    BY DEF SendIntegrity, Relayed
  <2>1. CASE m \in msgs
    BY <2>1, CrossSentGrows DEF SendIntegrity, Relayed
  <2>2. ASSUME NEW b \in Correct, crossMsgQueue[b] # <<>>,
               m = SendMsg(b, Head(crossMsgQueue[b])[1], Head(crossMsgQueue[b])[2])
        PROVE  m.inst < NumReq[m.val] /\ \E a \in Relay : m.val \in crossSent'[a]
    <3>1. /\ 1 \in DOMAIN crossMsgQueue[b]
          /\ Head(crossMsgQueue[b]) = crossMsgQueue[b][1]
      BY <2>2 DEF TypeOK
    <3>2. m.inst = crossMsgQueue[b][1][1] /\ m.val = crossMsgQueue[b][1][2]
      BY <2>2, <3>1 DEF SendMsg
    <3> QED
      BY <3>1, <3>2, CrossSentGrows DEF QueueRelayed, Relayed
  <2> QED
    BY <2>1, <2>2, SendStep DEF Sends, CrossMsg, EchoMsg, ReadyMsg
<1> QED
  BY <1>1, <1>2, TypeCorrect, QueueRelayedInvariant, PTL DEF Spec

\* What is echoed was relayed, or started by a faulty node.
EchoesRelayed ==
  \A m \in msgs : m.type = "ECHO" =>
    Relayed(m.inst, m.hash[2]) \/ <<m.inst, m.hash[2]>> \in SpuriousSends

LEMMA EchoesRelayedInvariant == Spec => []EchoesRelayed
<1>1. Init => EchoesRelayed
  BY DEF Init, EchoesRelayed
<1>2. TypeOK /\ Authentic /\ SendIntegrity /\ EchoesRelayed /\ [Next]_vars => EchoesRelayed'
  <2> DEFINE Good(i, v) == \/ i < NumReq[v] /\ \E a \in Relay : v \in crossSent'[a]
                           \/ <<i, v>> \in SpuriousSends
  <2> SUFFICES ASSUME TypeOK, Authentic, SendIntegrity, EchoesRelayed, [Next]_vars,
                      NEW m \in msgs', m.type = "ECHO"
               PROVE  Good(m.inst, m.hash[2])
    BY DEF EchoesRelayed, Relayed
  <2>1. CASE m \in msgs
    BY <2>1, CrossSentGrows DEF EchoesRelayed, Relayed
  <2>2. ASSUME NEW b \in Correct, NEW s \in Message, s.type = "SEND", Receivable(b, s),
               m = EchoMsg(b, s.inst, s.val)
        PROVE  Good(m.inst, m.hash[2])
    <3>1. m.inst = s.inst /\ m.hash[2] = s.val
      BY <2>2 DEF EchoMsg
    <3>2. CASE s \in msgs
      BY <2>2, <3>1, <3>2, CrossSentGrows DEF SendIntegrity, Relayed
    <3>3. CASE s \in Forged
      BY <2>2, <3>1, <3>3 DEF SpuriousSends
    <3> QED
      BY <2>2, <3>2, <3>3, ReceivableKnown
  <2> HIDE DEF Good
  <2> QED
    BY <2>1, <2>2, SendStep DEF Sends, CrossMsg, SendMsg, ReadyMsg
<1> QED
  BY <1>1, <1>2, TypeCorrect, AuthenticInvariant, SendsRelayed, PTL DEF Spec

\* An instance gets a quorum of ECHOs for a request, and is delivered with it,
\* only if a relay has relayed the request or a faulty node has broadcast SEND
\* for it (HandleSend, HandleEcho, rbc.go).
THEOREM DeliveriesRelayed == Spec => []DeliverIntegrity
<1>1. TypeOK /\ EchoesCounted /\ EchoesRelayed => DeliverIntegrity
  <2> SUFFICES ASSUME TypeOK, EchoesCounted, EchoesRelayed,
                      NEW b \in Correct, NEW i \in Instance, NEW v \in Value,
                      EchoQuorum(b, <<i, v>>)
               PROVE  Relayed(i, v) \/ <<i, v>> \in SpuriousSends
    BY DEF DeliverIntegrity
  <2> DEFINE S == bufferc[b][<<i, v>>]
  <2>1. S \in SUBSET (A \cup B) /\ Cardinality(S) >= Quorum
    BY DEF TypeOK, Hash, EchoQuorum
  <2>2. S \subseteq Faulty \cup Correct
    BY DEF EchoesCounted
  <2>3. PICK c \in S : c \notin Faulty
    <3> HIDE DEF S
    <3> QED
      BY <2>1, <2>2, QuorumIntersection
  <2>4. EchoMsg(c, i, v) \in msgs
    BY <2>3 DEF EchoesCounted
  <2> QED
    BY <2>4 DEF EchoesRelayed, EchoMsg
<1> QED
  BY <1>1, TypeCorrect, EchoesCountedInvariant, EchoesRelayedInvariant, PTL

(***************************************************************************)
(* Refinement                                                              *)
(***************************************************************************)

\* What one step does to the variables that the abstract specification sees.
AbstractMoves ==
  \/ /\ delivered' = delivered
     /\ \/ crossSent' = crossSent
        \/ \E a \in Relay, v \in Request : crossSent' = [crossSent EXCEPT ![a] = @ \cup {v}]
  \/ /\ crossSent' = crossSent
     /\ \E c \in Correct, i \in Instance :
          i \notin delivered[c] /\ delivered' = [delivered EXCEPT ![c] = @ \cup {i}]

LEMMA AbstractStep ==
  ASSUME TypeOK, [Next]_vars
  PROVE  AbstractMoves
<1>1. ASSUME NEW c \in Correct, NEW m \in Message, HandleReady(c, m) PROVE AbstractMoves
  <2>1. /\ crossSent' = crossSent
        /\ delivered' = delivered \/ delivered' = [delivered EXCEPT ![c] = @ \cup {m.inst}]
    BY <1>1 DEF HandleReady, Deliver
  <2>2. CASE m.inst \notin delivered[c]
    BY <2>1, <2>2, MessageFields DEF AbstractMoves
  <2>3. CASE m.inst \in delivered[c]
    <3>1. delivered \in [Correct -> SUBSET Instance]
      BY DEF TypeOK
    <3>2. delivered[c] \cup {m.inst} = delivered[c]
      BY <2>3
    <3>3. delivered' = delivered
      BY <2>1, <3>1, <3>2
    <3> QED
      BY <2>1, <3>3 DEF AbstractMoves
  <2> QED
    BY <2>2, <2>3
<1>2. ASSUME NEW a \in Relay, NEW v \in Request, SendCross(a, v) PROVE AbstractMoves
  BY <1>2 DEF SendCross, rbcVars, AbstractMoves
<1>3. ASSUME NEW c \in Correct, StartRBC(c) \/ MarkCross(c) PROVE AbstractMoves
  BY <1>3 DEF StartRBC, MarkCross, rbcVars, AbstractMoves
<1>4. ASSUME NEW c \in Correct, NEW m \in Message,
             HandleCross(c, m) \/ HandleSend(c, m) \/ HandleEcho(c, m)
      PROVE  AbstractMoves
  BY <1>4 DEF HandleCross, HandleSend, HandleEcho, rbcVars, AbstractMoves
<1>5. CASE UNCHANGED vars
  BY <1>5 DEF vars, rbcVars, AbstractMoves
<1> QED
  BY <1>1, <1>2, <1>3, <1>4, <1>5, Handled DEF Next, Handle

\* A delivered instance that keeps its hashes is decided as the ECHOs say, before
\* a step and after it.
LEMMA DecisionIs ==
  ASSUME Agreement, NEW b \in Correct, NEW i \in OwnHash, NEW v \in Value,
         i \in delivered[b], EchoQuorum(b, <<i, v>>)
  PROVE  Decision(i) = v
<1>1. i \in Instance
  BY DEF OwnHash
<1> QED
  BY <1>1 DEF Agreement, Decision

LEMMA DecisionIsNext ==
  ASSUME Agreement', NEW b \in Correct, NEW i \in OwnHash, NEW v \in Value,
         i \in delivered'[b], EchoQuorum(b, <<i, v>>)'
  PROVE  Decision(i)' = v
<1>1. i \in Instance
  BY DEF OwnHash
<1> QED
  BY <1>1 DEF Agreement, Decision

\* What is decided stays decided.
LEMMA DecisionStable ==
  ASSUME TypeOK, Agreement, Agreement', [Next]_vars,
         NEW b \in Correct, NEW i \in OwnHash, i \in delivered[b], i \in delivered'[b]
  PROVE  Decision(i)' = Decision(i)
<1>1. i \in Instance /\ ~Misnamed(i)
  BY DEF OwnHash
<1>2. PICK v \in Value : EchoQuorum(b, <<i, v>>)
  BY <1>1 DEF Agreement
<1>3. EchoQuorum(b, <<i, v>>)'
  BY <1>1, <1>2, QuorumStable
<1> QED
  BY <1>2, <1>3, DecisionIs, DecisionIsNext

\* Mode CrossRA keeps the promises of XRBC for the instances that no faulty node
\* names the hash of another for: one request for each, decided at its first
\* delivery, and relayed by group A or sent by a faulty node.
THEOREM RefinesXRBC == Spec => ImplementsXRBC
<1> DEFINE relayedBar == UNION {crossSent[a] : a \in Relay}
           decisionBar == [i \in OwnHash |-> Decision(i)]
           deliveredBar == [b \in Correct |-> delivered[b] \cap OwnHash]
<1>1. Init => XR!Init
  <2> SUFFICES ASSUME Init PROVE XR!Init
    OBVIOUS
  <2>1. delivered = [b \in Correct |-> {}] /\ crossSent = [a \in Relay |-> {}]
    BY DEF Init
  <2>2. \A i \in OwnHash : Decision(i) = None
    BY <2>1 DEF Decision
  <2>3. relayedBar = {}
    BY <2>1
  <2>4. deliveredBar = [b \in Correct |-> {}]
    BY <2>1
  <2> QED
    BY <2>2, <2>3, <2>4 DEF XR!Init
<1>2. /\ TypeOK /\ TypeOK' /\ Agreement /\ Agreement' /\ DeliverIntegrity'
      /\ [Next]_vars
      => [XR!Next]_(XR!vars)
  <2> SUFFICES ASSUME TypeOK, TypeOK', Agreement, Agreement', DeliverIntegrity', [Next]_vars
               PROVE  [XR!Next]_(XR!vars)
    OBVIOUS
  <2>0. /\ delivered \in [Correct -> SUBSET Instance]
        /\ crossSent \in [Relay -> SUBSET Request]
    BY DEF TypeOK
  <2>1. ASSUME NEW i \in OwnHash,
               \A b \in Correct : i \in delivered'[b] <=> i \in delivered[b]
        PROVE  Decision(i)' = Decision(i)
    <3>1. CASE \E b \in Correct : i \in delivered[b]
      BY <2>1, <3>1, DecisionStable
    <3>2. CASE ~ \E b \in Correct : i \in delivered[b]
      BY <2>1, <3>2 DEF Decision
    <3> QED
      BY <3>1, <3>2
  <2>2. CASE delivered' = delivered /\ crossSent' = crossSent
    <3>1. decisionBar' = decisionBar
      BY <2>1, <2>2
    <3> QED
      BY <2>2, <3>1 DEF XR!vars
  <2>3. ASSUME NEW a \in Relay, NEW v \in Request, delivered' = delivered,
               crossSent' = [crossSent EXCEPT ![a] = @ \cup {v}]
        PROVE  XR!Next
    <3>1. relayedBar' = relayedBar \cup {v}
      BY <2>0, <2>3
    <3>2. v \in Value
      BY Groups
    <3>3. decisionBar' = decisionBar
      BY <2>1, <2>3
    <3>4. deliveredBar' = deliveredBar
      BY <2>3
    <3> QED
      BY <3>1, <3>2, <3>3, <3>4 DEF XR!Next, XR!AcceptRequest
  <2>4. ASSUME NEW c \in Correct, NEW i \in Instance, i \notin OwnHash, crossSent' = crossSent,
               delivered' = [delivered EXCEPT ![c] = @ \cup {i}]
        PROVE  UNCHANGED XR!vars
    <3>1. \A j \in OwnHash, b \in Correct : j \in delivered'[b] <=> j \in delivered[b]
      BY <2>0, <2>4
    <3>2. decisionBar' = decisionBar
      BY <2>1, <3>1
    <3>3. deliveredBar' = deliveredBar
      BY <3>1
    <3> QED
      BY <2>4, <3>2, <3>3 DEF XR!vars
  <2>5. ASSUME NEW c \in Correct, NEW i \in OwnHash, crossSent' = crossSent,
               i \notin delivered[c], delivered' = [delivered EXCEPT ![c] = @ \cup {i}]
        PROVE  XR!Next
    <3>1. i \in delivered'[c] /\ i \in Instance /\ ~Misnamed(i)
      BY <2>0, <2>5 DEF OwnHash
    <3>2. PICK v \in Value : EchoQuorum(c, <<i, v>>)'
      BY <3>1 DEF Agreement
    <3>3. Decision(i)' = v
      BY <3>1, <3>2, DecisionIsNext
    <3>4. Decision(i) \in {None, v}
      <4>1. CASE \E b \in Correct : i \in delivered[b]
        <5>1. PICK b \in Correct : i \in delivered[b] /\ i \in delivered'[b]
          BY <2>0, <2>5, <4>1
        <5> QED
          BY <3>3, <5>1, DecisionStable
      <4>2. CASE ~ \E b \in Correct : i \in delivered[b]
        BY <4>2 DEF Decision
      <4> QED
        BY <4>1, <4>2
    <3>5. ASSUME NEW j \in OwnHash, j # i PROVE Decision(j)' = Decision(j)
      <4>1. \A b \in Correct : j \in delivered'[b] <=> j \in delivered[b]
        BY <2>0, <2>5, <3>5
      <4> QED
        BY <2>1, <4>1
    <3>6. decisionBar' = [decisionBar EXCEPT ![i] = v]
      BY <3>3, <3>5
    <3>7. v \in relayedBar \/ <<i, v>> \in SpuriousSends
      <4>1. Relayed(i, v)' \/ <<i, v>> \in SpuriousSends
        BY <3>1, <3>2 DEF DeliverIntegrity
      <4> QED
        BY <2>5, <4>1 DEF Relayed
    <3>8. relayedBar' = relayedBar
      BY <2>5
    <3>9. i \notin deliveredBar[c]
      BY <2>5
    <3>10. deliveredBar' = [deliveredBar EXCEPT ![c] = @ \cup {i}]
      BY <2>0, <2>5
    <3> QED
      BY <3>4, <3>6, <3>7, <3>8, <3>9, <3>10 DEF XR!Next, XR!Deliver
  <2> QED
    BY <2>2, <2>3, <2>4, <2>5, AbstractStep DEF AbstractMoves
<1> QED
  BY <1>1, <1>2, TypeCorrect, DeliveryAgreement, DeliveriesRelayed, PTL
  DEF Spec, ImplementsXRBC, XR!Spec
=============================================================================
