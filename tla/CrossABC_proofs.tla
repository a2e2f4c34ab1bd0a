--------------------------- MODULE CrossABC_proofs ---------------------------
(***************************************************************************)
(* Certificates of HotStuff and the queue of node 4 in mode CrossABC, with *)
(* any number of nodes of which any number may be silent, and any heights. *)
(***************************************************************************)
EXTENDS CrossABC, QuorumSizes_proofs, FiniteSetTheorems, SequenceTheorems

(***************************************************************************)
(* HotStuff: the invariant                                                 *)
(***************************************************************************)

\* TypeOK, but for the fields of certificates.
Types ==
  /\ proposed \subseteq Height
  /\ \A m \in net : m.type \in {"QC", "QCREP"} /\ m.node \in Correct /\ m.seq \in Height
  /\ votes \in [Height -> SUBSET Correct]
  /\ awaitingBlocks \in [Correct -> SUBSET Height]
  /\ curBlock = [b \in Correct |-> curBlock[b]]
  /\ lockedBlock = [b \in Correct |-> lockedBlock[b]]
  /\ committedBlocks = [b \in Correct |-> committedBlocks[b]]
  /\ infos = [b \in Correct |-> infos[b]]
  /\ adopting = [b \in Correct |-> adopting[b]]

\* Node 4 counts those that have voted, and asks each node once for a vote on what
\* it proposed.
VotesCast ==
  /\ \A h \in Height : votes[h] \subseteq Voters(h)
  /\ \A m \in net : m.type = "QCREP" => m.node \in Voters(m.seq)
  /\ \A m \in net : m.type = "QC" => m.seq \in proposed
  /\ \A k, m \in net :
       k.type = "QC" /\ m.type = "QC" /\ k.node = m.node /\ k.seq = m.seq => k = m

\* Every block that a node or a message holds as certified.
Blocks ==
  {Genesis} \cup (UNION {Held(b) : b \in Correct}) \cup {m.qc : m \in {k \in net : k.type = "QC"}}

HasQuorum(h) == Voters(h) # {} /\ Cardinality(Voters(h)) >= Quorum

LEMMA QuorumType == Quorum \in Int
<1>1. Cardinality(B) \in Nat /\ NumA \in Nat
  BY Groups, FS_CardinalityType
<1>2. SizeOfB \in Int
  BY <1>1 DEF SizeOfB, GroupBByStartQuorum
<1>3. \A n \in Int : QuorumSize(n) \in Int
  BY DEF QuorumSize, FSize, GoRem, GoDiv
<1> QED
  BY <1>2, <1>3 DEF Quorum

\* A certified block was marked, and has a quorum.
BlocksCertified == \A c \in Blocks : c = Genesis \/ (c.height \in prepared /\ HasQuorum(c.height))

\* No two certificates are of one height.
BlocksUnique == \A c, d \in Blocks : c.height = d.height => c = d

HotStuffInv == Types /\ VotesCast /\ BlocksCertified /\ BlocksUnique

(***************************************************************************)
(* HotStuff: blocks and voters                                             *)
(***************************************************************************)

LEMMA KnownBlocks ==
  /\ Genesis \in Blocks
  /\ checks \subseteq Blocks
  /\ \A b \in Correct :
       /\ curBlock[b] \in Blocks /\ lockedBlock[b] \in Blocks /\ adopting[b] \subseteq Blocks
       /\ \A k \in committedBlocks[b] : k[2] \in Blocks
       /\ \A m \in infos[b] : m.qc \in Blocks
  /\ \A m \in net : m.type = "QC" => m.qc \in Blocks
<1>1. \A b \in Correct : Held(b) \subseteq Blocks
  BY DEF Blocks
<1>2. Genesis \in Blocks /\ \A m \in net : m.type = "QC" => m.qc \in Blocks
  <2> SUFFICES ASSUME NEW m \in net, m.type = "QC" PROVE m.qc \in Blocks
    BY Zenon DEF Blocks
  <2>1. m.qc \in {k.qc : k \in {k \in net : k.type = "QC"}}
    OBVIOUS
  <2> QED
    BY <2>1, Zenon DEF Blocks
<1>3. checks \subseteq Blocks
  BY <1>1, Groups DEF Held
<1>4. \A b \in Correct :
        curBlock[b] \in Blocks /\ lockedBlock[b] \in Blocks /\ adopting[b] \subseteq Blocks
  BY <1>1 DEF Held
<1>5. \A b \in Correct : \A k \in committedBlocks[b] : k[2] \in Blocks
  BY <1>1 DEF Held
<1>6. \A b \in Correct : \A m \in infos[b] : m.qc \in Blocks
  BY <1>1 DEF Held
<1> QED
  BY <1>2, <1>3, <1>4, <1>5, <1>6

\* Where the blocks after a step come from.
LEMMA BlocksStep ==
  ASSUME NEW N,
         checks' \subseteq Blocks \cup N,
         \A b \in Correct :
           /\ curBlock'[b] \in Blocks \cup N /\ lockedBlock'[b] \in Blocks
           /\ adopting'[b] \subseteq Blocks
           /\ \A k \in committedBlocks'[b] : k[2] \in Blocks
           /\ \A m \in infos'[b] : m.qc \in Blocks,
         \A m \in net' : m.type = "QC" => m.qc \in Blocks
  PROVE  Blocks' \subseteq Blocks \cup N
<1> SUFFICES ASSUME NEW c \in Blocks' PROVE c \in Blocks \cup N
  OBVIOUS
<1>1. CASE c = Genesis
  BY <1>1, KnownBlocks
<1>2. CASE \E m \in net' : m.type = "QC" /\ c = m.qc
  BY <1>2
<1>3. ASSUME NEW b \in Correct, c \in Held(b)' PROVE c \in Blocks \cup N
  BY <1>3 DEF Held
<1>4. \/ c = Genesis
      \/ \E b \in Correct : c \in Held(b)'
      \/ \E m \in net' : m.type = "QC" /\ c = m.qc
  <2>1. \/ c \in {Genesis}
        \/ c \in UNION {Held(b)' : b \in Correct}
        \/ c \in {m.qc : m \in {k \in net' : k.type = "QC"}}
    BY Zenon DEF Blocks
  <2>2. c \in UNION {Held(b)' : b \in Correct} => \E b \in Correct : c \in Held(b)'
    OBVIOUS
  <2>3. c \in {m.qc : m \in {k \in net' : k.type = "QC"}} =>
          \E m \in net' : m.type = "QC" /\ c = m.qc
    OBVIOUS
  <2> QED
    BY <2>1, <2>2, <2>3
<1> QED
  BY <1>1, <1>2, <1>3, <1>4

\* A vote is not taken back.
LEMMA VotersKept ==
  ASSUME proposed \subseteq proposed',
         \A m \in net' : m \in net \/ m.type # "QC" \/ m.seq \notin proposed
  PROVE  \A h : Voters(h) \subseteq Voters(h)'
BY DEF Voters

LEMMA QuorumKept ==
  ASSUME \A h : Voters(h) \subseteq Voters(h)'
  PROVE  \A h : HasQuorum(h) => HasQuorum(h)'
<1> SUFFICES ASSUME NEW h, HasQuorum(h) PROVE HasQuorum(h)'
  OBVIOUS
<1>1. /\ Voters(h) \subseteq Voters(h)' /\ Voters(h)' \subseteq Correct
      /\ IsFiniteSet(Correct)
  BY Groups, FS_Subset DEF Voters
<1>2. IsFiniteSet(Voters(h)) /\ IsFiniteSet(Voters(h)')
  BY <1>1, FS_Subset
<1>3. /\ Cardinality(Voters(h)) <= Cardinality(Voters(h)')
      /\ Cardinality(Voters(h)) \in Nat /\ Cardinality(Voters(h)') \in Nat
  BY <1>1, <1>2, FS_Subset, FS_CardinalityType
<1>4. Quorum \in Int
  BY QuorumType
<1> QED
  BY <1>1, <1>3, <1>4 DEF HasQuorum

\* A step that makes no certificate keeps what is said of them.
LEMMA NoNewBlock ==
  ASSUME HotStuffInv, Blocks' \subseteq Blocks, prepared' = prepared,
         \A h : Voters(h) \subseteq Voters(h)'
  PROVE  BlocksCertified' /\ BlocksUnique'
<1>1. \A h : HasQuorum(h) => HasQuorum(h)'
  BY QuorumKept
<1> QED
  BY <1>1 DEF HotStuffInv, BlocksCertified, BlocksUnique, Genesis

\* Delivery keeps no hash that was not kept before.
LEMMA DeliveryType ==
  ASSUME Types, NEW b \in Correct, NEW kept \in SUBSET Height, DeliverInOrder(b, kept)
  PROVE  awaitingBlocks' \in [Correct -> SUBSET Height]
BY DEF DeliverInOrder, Types

(***************************************************************************)
(* HotStuff: every step keeps the invariant                                *)
(***************************************************************************)

LEMMA HotStuffInit == Init => HotStuffInv
<1> SUFFICES ASSUME Init PROVE HotStuffInv
  OBVIOUS
<1>1. Types /\ VotesCast
  BY DEF Init, Types, VotesCast
<1>2. Blocks = {Genesis}
  <2>1. \A b \in Correct : Held(b) = {Genesis}
    BY DEF Init, Held
  <2> QED
    BY <2>1 DEF Init, Blocks
<1> QED
  BY <1>1, <1>2 DEF HotStuffInv, BlocksCertified, BlocksUnique

LEMMA StartInv ==
  ASSUME HotStuffInv, NEW h \in Height, StartHotStuff(h)
  PROVE  HotStuffInv'
<1> DEFINE new == {[type |-> "QC", node |-> b, seq |-> h, qc |-> FetchBlockInfo(h)] : b \in Correct}
<1>1. /\ h \notin proposed /\ proposed' = proposed \cup {h} /\ net' = net \cup new
      /\ awaitingBlocks' = [awaitingBlocks EXCEPT ![Proposer] = @ \cup {h}]
      /\ UNCHANGED <<voteVars, blockVars, taskVars>>
  BY DEF StartHotStuff
<1>2. \A m \in new : /\ m.type = "QC" /\ m.node \in Correct /\ m.seq = h
                     /\ m.qc = FetchBlockInfo(h)
                     /\ \A k \in new : k.node = m.node => k = m
  OBVIOUS
<1> HIDE DEF new
<1>3. FetchBlockInfo(h) \in Blocks
  BY Groups, KnownBlocks DEF FetchBlockInfo
<1>4. \A d : Voters(d) \subseteq Voters(d)'
  BY <1>1, <1>2, VotersKept
<1>5. Types'
  BY <1>1, <1>2 DEF HotStuffInv, Types, voteVars, blockVars, taskVars
<1>6. VotesCast'
  BY <1>1, <1>2, <1>4 DEF HotStuffInv, VotesCast, voteVars
<1>7. Blocks' \subseteq Blocks \cup {}
  <2>1. \A m \in net' : m.type = "QC" => m.qc \in Blocks
    BY <1>1, <1>2, <1>3, KnownBlocks
  <2> QED
    BY <1>1, <2>1, KnownBlocks, BlocksStep DEF blockVars, taskVars
<1>8. BlocksCertified' /\ BlocksUnique'
  BY <1>1, <1>4, <1>7, NoNewBlock DEF voteVars
<1> QED
  BY <1>5, <1>6, <1>8 DEF HotStuffInv

LEMMA NormalMsgInv ==
  ASSUME HotStuffInv, NEW m \in net, HandleNormalMsg(m)
  PROVE  HotStuffInv'
<1> DEFINE rep == [type |-> "QCREP", node |-> m.node, seq |-> m.seq]
<1>1. /\ m.type = "QC" /\ net' = (net \ {m}) \cup {rep}
      /\ infos' = [infos EXCEPT ![m.node] = @ \cup {m}]
      /\ DeliverInOrder(m.node, awaitingBlocks[m.node] \cup {m.seq})
      /\ UNCHANGED <<proposed, voteVars, blockVars, adopting, checks, jumping>>
  BY DEF HandleNormalMsg, StoreAndDeliver
<1>2. m.node \in Correct /\ m.seq \in Height /\ m.seq \in proposed
  BY <1>1 DEF HotStuffInv, Types, VotesCast
<1>3. rep.type = "QCREP" /\ rep.node = m.node /\ rep.seq = m.seq
  OBVIOUS
<1> HIDE DEF rep
<1>4. \A h : Voters(h) \subseteq Voters(h)'
  BY <1>1, <1>3, VotersKept
<1>5. awaitingBlocks' \in [Correct -> SUBSET Height]
  <2>1. awaitingBlocks[m.node] \cup {m.seq} \in SUBSET Height
    BY <1>2 DEF HotStuffInv, Types
  <2> QED
    BY <1>1, <1>2, <2>1, DeliveryType DEF HotStuffInv
<1>6. Types'
  BY <1>1, <1>2, <1>3, <1>5 DEF HotStuffInv, Types, voteVars, blockVars
<1>7. VotesCast'
  <2>1. \A k \in net' : k.type = "QC" => k \in net /\ k # m
    BY <1>1, <1>3
  <2>2. m.node \in Voters(m.seq)'
    BY <1>1, <1>2, <2>1 DEF HotStuffInv, VotesCast, Voters
  <2>3. \A k \in net' : k.type = "QCREP" => k.node \in Voters(k.seq)'
    BY <1>1, <1>3, <1>4, <2>2 DEF HotStuffInv, VotesCast
  <2>4. \A h \in Height : votes'[h] \subseteq Voters(h)'
    BY <1>1, <1>4 DEF HotStuffInv, VotesCast, voteVars
  <2> QED
    BY <1>1, <2>1, <2>3, <2>4 DEF HotStuffInv, VotesCast
<1>8. Blocks' \subseteq Blocks \cup {}
  <2>1. \A k \in net' : k.type = "QC" => k.qc \in Blocks
    BY <1>1, <1>3, KnownBlocks
  <2>2. \A b \in Correct : \A k \in infos'[b] : k.qc \in Blocks
    BY <1>1, KnownBlocks DEF HotStuffInv, Types
  <2> QED
    BY <1>1, <2>1, <2>2, KnownBlocks, BlocksStep DEF blockVars
<1>9. BlocksCertified' /\ BlocksUnique'
  BY <1>1, <1>4, <1>8, NoNewBlock DEF voteVars
<1> QED
  BY <1>6, <1>7, <1>9 DEF HotStuffInv

\* The one step that makes a certificate: of a height that was not marked before.
LEMMA NormalRepInv ==
  ASSUME HotStuffInv, NEW m \in net, HandleNormalRepMsg(m)
  PROVE  HotStuffInv'
<1> DEFINE voters == votes[m.seq] \cup {m.node}
<1>0. PICK h : h = m.seq
  OBVIOUS
<1>1. PICK n : n = Certificate(h)
  OBVIOUS
<1>2. /\ m.type = "QCREP" /\ net' = net \ {m}
      /\ votes' = [votes EXCEPT ![h] = IF Prepared(h) THEN @ ELSE voters]
      /\ DeliverInOrder(Proposer, awaitingBlocks[Proposer] \cup {h})
      /\ UNCHANGED <<proposed, lockedBlock, committedBlocks, infos, adopting, jumping>>
      /\ \/ /\ h \notin prepared /\ Cardinality(voters) >= Quorum
            /\ prepared' = prepared \cup {h}
            /\ \E c \in {curBlock[Proposer], n} : curBlock' = [curBlock EXCEPT ![Proposer] = c]
            /\ checks' = checks \cup {n}
         \/ UNCHANGED <<prepared, curBlock, checks>>
  BY <1>0, <1>1 DEF HandleNormalRepMsg, Add, StoreAndDeliver, Prepared
<1>3. m.node \in Correct /\ h \in Height /\ m.node \in Voters(h)
  BY <1>0, <1>2 DEF HotStuffInv, Types, VotesCast
<1>4. voters \subseteq Voters(h)
  BY <1>0, <1>3 DEF HotStuffInv, VotesCast
<1>5. Cardinality(voters) >= Quorum => HasQuorum(h)
  <2>1. IsFiniteSet(Voters(h)) /\ IsFiniteSet(voters)
    BY <1>4, Groups, FS_Subset DEF Voters
  <2>2. /\ Cardinality(voters) <= Cardinality(Voters(h))
        /\ Cardinality(voters) \in Nat /\ Cardinality(Voters(h)) \in Nat
    BY <1>4, <2>1, FS_Subset, FS_CardinalityType
  <2>3. Quorum \in Int
    BY QuorumType
  <2> QED
    BY <1>3, <2>2, <2>3 DEF HasQuorum
<1> HIDE DEF voters
<1>6. \A d : Voters(d) \subseteq Voters(d)' /\ (HasQuorum(d) => HasQuorum(d)')
  BY <1>2, VotersKept, QuorumKept
<1>7. awaitingBlocks' \in [Correct -> SUBSET Height]
  <2>1. awaitingBlocks[Proposer] \cup {h} \in SUBSET Height
    BY <1>3, Groups DEF HotStuffInv, Types
  <2> QED
    BY <1>2, <2>1, Groups, DeliveryType DEF HotStuffInv
<1>8. votes' \in [Height -> SUBSET Correct] /\ \A d \in Height : votes'[d] \subseteq Voters(d)'
  <2>1. voters \subseteq Correct
    BY <1>4 DEF Voters
  <2>2. PICK w \in {votes[h], voters} : votes' = [votes EXCEPT ![h] = w]
    BY <1>2
  <2>3. w \subseteq Correct /\ w \subseteq Voters(h)
    BY <1>3, <1>4, <2>1, <2>2 DEF HotStuffInv, Types, VotesCast
  <2> QED
    BY <1>3, <1>6, <2>2, <2>3 DEF HotStuffInv, Types, VotesCast
<1>9. curBlock' = [b \in Correct |-> curBlock'[b]] /\ \A b \in Correct : curBlock'[b] \in Blocks \cup {n}
  <2>1. CASE UNCHANGED curBlock
    BY <2>1, KnownBlocks DEF HotStuffInv, Types
  <2>2. ASSUME NEW c \in {curBlock[Proposer], n}, curBlock' = [curBlock EXCEPT ![Proposer] = c]
        PROVE  /\ curBlock' = [b \in Correct |-> curBlock'[b]]
               /\ \A b \in Correct : curBlock'[b] \in Blocks \cup {n}
    <3>1. c \in Blocks \cup {n}
      BY Groups, KnownBlocks
    <3> QED
      BY <2>2, <3>1, KnownBlocks DEF HotStuffInv, Types
  <2> QED
    BY <1>2, <2>1, <2>2
<1>10. Types'
  BY <1>2, <1>7, <1>8, <1>9 DEF HotStuffInv, Types
<1>11. VotesCast'
  BY <1>2, <1>6, <1>8 DEF HotStuffInv, VotesCast
<1>12. \A k \in net' : k.type = "QC" => k.qc \in Blocks
  BY <1>2, KnownBlocks
<1>13. CASE UNCHANGED <<prepared, curBlock, checks>>
  <2>1. Blocks' \subseteq Blocks \cup {}
    BY <1>2, <1>12, <1>13, KnownBlocks, BlocksStep
  <2>2. BlocksCertified' /\ BlocksUnique'
    BY <1>6, <1>13, <2>1, NoNewBlock
  <2> QED
    BY <1>10, <1>11, <2>2 DEF HotStuffInv
<1>14. CASE /\ h \notin prepared /\ Cardinality(voters) >= Quorum
            /\ prepared' = prepared \cup {h} /\ checks' = checks \cup {n}
  <2>1. Blocks' \subseteq Blocks \cup {n}
    BY <1>2, <1>9, <1>12, <1>14, KnownBlocks, BlocksStep
  <2>2. n.height = h
    BY <1>1 DEF Certificate
  <2>3. h = 0 => n = Genesis
    <3>1. awaitingBlocks[Proposer] \subseteq Nat
      BY Groups DEF HotStuffInv, Types
    <3>2. h = 0 => h - 1 \notin awaitingBlocks[Proposer] /\ h - 2 \notin awaitingBlocks[Proposer]
      BY <3>1
    <3>3. h = 0 => /\ (h - 1 \in awaitingBlocks[Proposer]) = FALSE
                   /\ (h - 2 \in awaitingBlocks[Proposer]) = FALSE
      BY <3>2
    <3> QED
      BY <1>1, <3>3 DEF Certificate, Genesis
  <2>4. \A c \in Blocks : c.height = h => c = n
    <3>1. Genesis.height = 0
      BY DEF Genesis
    <3> QED
      BY <1>14, <2>3, <3>1 DEF HotStuffInv, BlocksCertified
  <2>5. BlocksCertified'
    BY <1>5, <1>6, <1>14, <2>1, <2>2 DEF HotStuffInv, BlocksCertified, Genesis
  <2>6. BlocksUnique'
    BY <2>1, <2>2, <2>4 DEF HotStuffInv, BlocksUnique
  <2> QED
    BY <1>10, <1>11, <2>5, <2>6 DEF HotStuffInv
<1> QED
  BY <1>2, <1>13, <1>14

\* The goroutines move certificates from one place to another.
LEMMA QuietInv ==
  ASSUME HotStuffInv, Types', Blocks' \subseteq Blocks, UNCHANGED <<proposed, net, voteVars>>
  PROVE  HotStuffInv'
<1>1. \A h : Voters(h)' = Voters(h)
  BY DEF Voters
<1>2. VotesCast'
  BY <1>1 DEF HotStuffInv, VotesCast, voteVars
<1>3. BlocksCertified' /\ BlocksUnique'
  BY <1>1, NoNewBlock DEF voteVars
<1> QED
  BY <1>2, <1>3 DEF HotStuffInv

LEMMA CheckInv ==
  ASSUME HotStuffInv, NEW c \in checks, ProcessQCInfoCheck(c)
  PROVE  HotStuffInv'
<1>1. /\ checks' = checks \ {c}
      /\ UNCHANGED <<proposed, net, voteVars, curBlock, deliverVars, infos, adopting>>
      /\ \E s \in {committedBlocks[Proposer],
                   Insert(committedBlocks[Proposer], c.height, lockedBlock[Proposer])} :
           committedBlocks' = [committedBlocks EXCEPT ![Proposer] = s]
      /\ \E l \in {lockedBlock[Proposer], curBlock[Proposer]} :
           lockedBlock' = [lockedBlock EXCEPT ![Proposer] = l]
  BY DEF ProcessQCInfoCheck
<1>2. PICK s : /\ committedBlocks' = [committedBlocks EXCEPT ![Proposer] = s]
               /\ \A k \in s : k \in committedBlocks[Proposer] \/ k = <<c.height, lockedBlock[Proposer]>>
  BY <1>1 DEF Insert
<1>3. PICK l \in {lockedBlock[Proposer], curBlock[Proposer]} :
        lockedBlock' = [lockedBlock EXCEPT ![Proposer] = l]
  BY <1>1
<1>4. l \in Blocks /\ \A k \in s : k[2] \in Blocks
  BY <1>2, KnownBlocks, Groups
<1>5. Types'
  BY <1>1, <1>2, <1>3 DEF HotStuffInv, Types, voteVars, deliverVars
<1>6. \A b \in Correct : lockedBlock'[b] \in Blocks /\ \A k \in committedBlocks'[b] : k[2] \in Blocks
  BY <1>2, <1>3, <1>4, KnownBlocks DEF HotStuffInv, Types
<1>7. Blocks' \subseteq Blocks \cup {}
  BY <1>1, <1>6, KnownBlocks, BlocksStep
<1> QED
  BY <1>1, <1>5, <1>7, QuietInv

LEMMA InfoInv ==
  ASSUME HotStuffInv, NEW b \in Correct, NEW m \in infos[b], ProcessQCInfo(b, m)
  PROVE  HotStuffInv'
<1>1. /\ infos' = [infos EXCEPT ![b] = @ \ {m}]
      /\ DeliverInOrder(b, awaitingBlocks[b])
      /\ UNCHANGED <<proposed, net, voteVars, curBlock, checks, jumping>>
      /\ \E s \in {committedBlocks[b],
                   Insert(committedBlocks[b], lockedBlock[b].height, lockedBlock[b])} :
           committedBlocks' = [committedBlocks EXCEPT ![b] = s]
      /\ \E l \in {lockedBlock[b], curBlock[b]} : lockedBlock' = [lockedBlock EXCEPT ![b] = l]
      /\ \E a \in {adopting[b], adopting[b] \cup {m.qc}} : adopting' = [adopting EXCEPT ![b] = a]
  BY DEF ProcessQCInfo
<1>2. PICK s : /\ committedBlocks' = [committedBlocks EXCEPT ![b] = s]
               /\ \A k \in s : k \in committedBlocks[b] \/ k = <<lockedBlock[b].height, lockedBlock[b]>>
  BY <1>1 DEF Insert
<1>3. PICK l \in {lockedBlock[b], curBlock[b]} : lockedBlock' = [lockedBlock EXCEPT ![b] = l]
  BY <1>1
<1>4. PICK a \in {adopting[b], adopting[b] \cup {m.qc}} : adopting' = [adopting EXCEPT ![b] = a]
  BY <1>1
<1>5. l \in Blocks /\ a \subseteq Blocks /\ \A k \in s : k[2] \in Blocks
  BY <1>2, KnownBlocks
<1>6. Types'
  <2>1. awaitingBlocks' \in [Correct -> SUBSET Height]
    BY <1>1, DeliveryType DEF HotStuffInv, Types
  <2> QED
    BY <1>1, <1>2, <1>3, <1>4, <2>1 DEF HotStuffInv, Types, voteVars
<1>7. \A d \in Correct :
        /\ lockedBlock'[d] \in Blocks /\ adopting'[d] \subseteq Blocks
        /\ \A k \in committedBlocks'[d] : k[2] \in Blocks
        /\ \A k \in infos'[d] : k.qc \in Blocks
  <2>1. \A d \in Correct : lockedBlock'[d] \in Blocks /\ adopting'[d] \subseteq Blocks
    BY <1>3, <1>4, <1>5, KnownBlocks DEF HotStuffInv, Types
  <2>2. \A d \in Correct : /\ \A k \in committedBlocks'[d] : k[2] \in Blocks
                           /\ \A k \in infos'[d] : k.qc \in Blocks
    BY <1>1, <1>2, <1>5, KnownBlocks DEF HotStuffInv, Types
  <2> QED
    BY <2>1, <2>2
<1>8. Blocks' \subseteq Blocks \cup {}
  BY <1>1, <1>7, KnownBlocks, BlocksStep
<1> QED
  BY <1>1, <1>6, <1>8, QuietInv

LEMMA AdoptInv ==
  ASSUME HotStuffInv, NEW b \in Correct, NEW c \in adopting[b], AdoptBlock(b, c)
  PROVE  HotStuffInv'
<1>1. /\ adopting' = [adopting EXCEPT ![b] = @ \ {c}]
      /\ curBlock' = [curBlock EXCEPT ![b] = c]
      /\ UNCHANGED <<proposed, net, voteVars, lockedBlock, committedBlocks, deliverVars,
                     infos, checks>>
  BY DEF AdoptBlock
<1>2. Types'
  BY <1>1 DEF HotStuffInv, Types, voteVars, deliverVars
<1>3. c \in Blocks
  BY KnownBlocks
<1>4. \A d \in Correct : curBlock'[d] \in Blocks /\ adopting'[d] \subseteq Blocks
  BY <1>1, <1>3, KnownBlocks DEF HotStuffInv, Types
<1>5. Blocks' \subseteq Blocks \cup {}
  BY <1>1, <1>4, KnownBlocks, BlocksStep
<1> QED
  BY <1>1, <1>2, <1>5, QuietInv

LEMMA JumpInv ==
  ASSUME HotStuffInv, NEW h \in jumping, Jump(h)
  PROVE  HotStuffInv'
<1>1. UNCHANGED <<proposed, net, voteVars, blockVars, awaitingBlocks, infos, adopting, checks>>
  BY DEF Jump
<1>2. Types'
  BY <1>1 DEF HotStuffInv, Types, voteVars, blockVars
<1>3. Blocks' \subseteq Blocks \cup {}
  BY <1>1, KnownBlocks, BlocksStep DEF blockVars
<1> QED
  BY <1>1, <1>2, <1>3, QuietInv

LEMMA HotStuffStep == HotStuffInv /\ [Next]_vars => HotStuffInv'
<1> SUFFICES ASSUME HotStuffInv, [Next]_vars PROVE HotStuffInv'
  OBVIOUS
<1>1. ASSUME NEW h \in Height, StartHotStuff(h) PROVE HotStuffInv'
  BY <1>1, StartInv
<1>2. ASSUME NEW m \in net, HandleQCByteMsg(m) PROVE HotStuffInv'
  BY <1>2, NormalMsgInv, NormalRepInv DEF HandleQCByteMsg
<1>3. ASSUME NEW b \in Correct, Goroutine(b) PROVE HotStuffInv'
  BY <1>3, InfoInv, AdoptInv DEF Goroutine
<1>4. ASSUME NEW c \in checks, ProcessQCInfoCheck(c) PROVE HotStuffInv'
  BY <1>4, CheckInv
<1>5. ASSUME NEW h \in jumping, Jump(h) PROVE HotStuffInv'
  BY <1>5, JumpInv
<1>6. CASE UNCHANGED vars
  <2>1. UNCHANGED <<proposed, net, voteVars, blockVars, awaitingBlocks, infos, adopting, checks>>
    BY <1>6 DEF vars, taskVars, deliverVars
  <2>2. Types'
    BY <2>1 DEF HotStuffInv, Types, voteVars, blockVars
  <2>3. Blocks' \subseteq Blocks \cup {}
    BY <2>1, KnownBlocks, BlocksStep DEF blockVars
  <2> QED
    BY <2>1, <2>2, <2>3, QuietInv
<1> QED
  BY <1>1, <1>2, <1>3, <1>4, <1>5, <1>6 DEF Next, HotStuffNext

(***************************************************************************)
(* HotStuff: delivery at the nodes that only follow                        *)
(***************************************************************************)

\* The proposal of height h is on its way to b.
OnItsWay(b, h) == \E m \in net : m.type = "QC" /\ m.node = b /\ m.seq = h

\* What b delivers and keeps was proposed, the next height is not kept, and what
\* was proposed is delivered, kept, or still to come.
Deliveries(b) ==
  /\ deliveredHeight[b] \in Nat
  /\ 1 .. deliveredHeight[b] \subseteq proposed
  /\ awaitingBlocks[b] \subseteq proposed
  /\ deliveredHeight[b] + 1 \notin awaitingBlocks[b]
  /\ \A h \in proposed : \/ OnItsWay(b, h)
                         \/ h \in awaitingBlocks[b]
                         \/ h <= deliveredHeight[b]

FollowInv ==
  /\ deliveredHeight = [b \in Correct |-> deliveredHeight[b]]
  /\ \A b \in Correct \ {Proposer} : Deliveries(b)

\* The delivery loop stops below the first gap: it delivers the run of heights
\* kept that follows what was delivered, and no other.
LEMMA DeliveryLoop ==
  ASSUME NEW b \in Correct, NEW kept \in SUBSET Height, deliveredHeight[b] \in Nat
  PROVE  LET now == InOrder(b, kept)
             n   == IF now = {} THEN deliveredHeight[b]
                    ELSE CHOOSE h \in now : \A d \in now : d <= h
         IN  /\ n \in Nat /\ deliveredHeight[b] <= n
             /\ now = (deliveredHeight[b] + 1) .. n
             /\ now \subseteq kept
             /\ n + 1 \notin kept
<1> DEFINE now == InOrder(b, kept)
           n   == IF now = {} THEN deliveredHeight[b]
                  ELSE CHOOSE h \in now : \A d \in now : d <= h
<1>0. PICK last \in Nat : last = deliveredHeight[b]
  OBVIOUS
<1>1. kept \subseteq Nat /\ IsFiniteSet(kept)
  BY Groups, FS_Subset
<1>2. \A h : h \in now <=> /\ h \in kept /\ h > last
                           /\ \A d \in (last + 1) .. h : d \in kept
  <2>1. now = {h \in kept : \A d \in (last + 1) .. h : d \in kept /\ d > 0} \ 0 .. last
    BY <1>0 DEF InOrder
  <2> HIDE DEF now
  <2>2. \A h \in kept : h \in Nat /\ (h \notin 0 .. last <=> h > last)
    BY <1>1
  <2>3. \A h \in kept : \A d \in (last + 1) .. h : d > 0
    BY <2>2
  <2> QED
    BY <2>1, <2>2, <2>3
<1> HIDE DEF now
<1>3. now \subseteq kept /\ now \in SUBSET Nat /\ IsFiniteSet(now)
  BY <1>1, <1>2, FS_Subset
<1>4. last + 1 \in kept => last + 1 \in now
  BY <1>2
<1>5. CASE now = {}
  <2>1. n = last
    BY <1>0, <1>5
  <2> HIDE DEF n
  <2>2. now = (last + 1) .. n
    BY <1>5, <2>1
  <2> QED
    BY <1>0, <1>3, <1>4, <1>5, <2>1, <2>2 DEF n, now
<1>6. CASE now # {}
  <2>1. \E h \in now : \A d \in now : d <= h
    BY <1>3, <1>6, GreatestElement
  <2>2. n \in now /\ \A d \in now : d <= n
    BY <1>6, <2>1
  <2> HIDE DEF n
  <2>3. n \in Nat /\ n > last /\ \A d \in (last + 1) .. n : d \in kept
    BY <1>2, <1>3, <2>2
  <2>4. n + 1 \notin kept
    <3> SUFFICES ASSUME n + 1 \in kept PROVE FALSE
      OBVIOUS
    <3>1. \A d \in (last + 1) .. (n + 1) : d = n + 1 \/ d \in (last + 1) .. n
      BY <2>3
    <3>2. n + 1 \in now
      BY <1>2, <2>3, <3>1
    <3> QED
      BY <2>2, <2>3, <3>2
  <2>5. now = (last + 1) .. n
    <3>1. \A h \in now : h \in (last + 1) .. n
      BY <1>2, <1>3, <2>2, <2>3
    <3>2. ASSUME NEW h \in (last + 1) .. n PROVE h \in now
      <4>1. \A d \in (last + 1) .. h : d \in (last + 1) .. n
        BY <2>3
      <4> QED
        BY <1>2, <2>3, <4>1
    <3> QED
      BY <3>1, <3>2
  <2>6. last <= n
    BY <2>3
  <2> QED
    BY <1>0, <1>3, <2>3, <2>4, <2>5, <2>6, Zenon DEF n, now
<1> QED
  BY <1>5, <1>6

\* A follower that delivers with the hashes kept, all proposed, is left as the
\* invariant says, if what it has lost from the network is among them.
LEMMA DeliverStep ==
  ASSUME HotStuffInv, FollowInv, NEW b \in Correct, NEW kept \in SUBSET Height,
         DeliverInOrder(b, kept), proposed' = proposed,
         b # Proposer => /\ kept \subseteq proposed /\ awaitingBlocks[b] \subseteq kept
                         /\ \A h \in proposed : OnItsWay(b, h) => OnItsWay(b, h)' \/ h \in kept,
         \A d \in Correct \ {b} : \A h : OnItsWay(d, h) => OnItsWay(d, h)'
  PROVE  FollowInv'
<1> DEFINE now == InOrder(b, kept)
           n   == IF now = {} THEN deliveredHeight[b]
                  ELSE CHOOSE h \in now : \A d \in now : d <= h
<1>1. /\ awaitingBlocks' = [awaitingBlocks EXCEPT ![b] = kept \ now]
      /\ deliveredHeight' = [deliveredHeight EXCEPT ![b] = n]
  BY DEF DeliverInOrder
<1>2. deliveredHeight[b] \in Nat =>
        /\ n \in Nat /\ deliveredHeight[b] <= n /\ n + 1 \notin kept
        /\ now = (deliveredHeight[b] + 1) .. n /\ now \subseteq kept
  BY DeliveryLoop
<1> HIDE DEF now, n
<1>3. deliveredHeight' = [d \in Correct |-> deliveredHeight'[d]]
  BY <1>1 DEF FollowInv
<1>4. ASSUME NEW d \in Correct \ {Proposer}, d # b PROVE Deliveries(d)'
  <2>1. awaitingBlocks'[d] = awaitingBlocks[d] /\ deliveredHeight'[d] = deliveredHeight[d]
    BY <1>1, <1>4 DEF FollowInv, HotStuffInv, Types
  <2> QED
    BY <1>4, <2>1 DEF FollowInv, Deliveries
<1>5. CASE b # Proposer
  <2>1. /\ awaitingBlocks'[b] = kept \ now /\ deliveredHeight'[b] = n
        /\ Deliveries(b)
    BY <1>1, <1>5 DEF FollowInv, HotStuffInv, Types
  <2>2. /\ n \in Nat /\ deliveredHeight[b] <= n /\ n + 1 \notin kept
        /\ now = (deliveredHeight[b] + 1) .. n /\ now \subseteq kept
        /\ deliveredHeight[b] \in Nat
    BY <1>2, <2>1 DEF Deliveries
  <2>3. 1 .. n \subseteq proposed
    <3>1. \A h \in 1 .. n : h \in 1 .. deliveredHeight[b] \/ h \in now
      BY <2>2
    <3> QED
      BY <1>5, <2>1, <2>2, <3>1 DEF Deliveries
  <2>4. ASSUME NEW h \in proposed
        PROVE  OnItsWay(b, h)' \/ h \in kept \ now \/ h <= n
    <3>1. h \in Nat
      BY Groups DEF HotStuffInv, Types
    <3>2. OnItsWay(b, h)' \/ h \in kept \/ h <= deliveredHeight[b]
      BY <1>5, <2>1 DEF Deliveries
    <3>3. h \in now => h <= n
      BY <2>2
    <3> QED
      BY <2>2, <3>1, <3>2, <3>3
  <2> HIDE DEF OnItsWay
  <2>5. Deliveries(b)'
    BY <1>5, <2>1, <2>2, <2>3, <2>4 DEF Deliveries
  <2> QED
    BY <1>3, <1>4, <2>5 DEF FollowInv
<1> QED
  BY <1>3, <1>4, <1>5 DEF FollowInv

LEMMA FollowInit == Init => FollowInv
BY DEF Init, FollowInv, Deliveries

\* A step that leaves the nodes and their proposals alone.
LEMMA FollowKept ==
  ASSUME FollowInv, UNCHANGED <<proposed, awaitingBlocks, net>>,
         deliveredHeight' = [b \in Correct |-> deliveredHeight'[b]],
         \A b \in Correct \ {Proposer} : deliveredHeight'[b] = deliveredHeight[b]
  PROVE  FollowInv'
BY DEF FollowInv, Deliveries, OnItsWay

LEMMA StartFollow ==
  ASSUME HotStuffInv, FollowInv, NEW h \in Height, StartHotStuff(h)
  PROVE  FollowInv'
<1> DEFINE new == {[type |-> "QC", node |-> b, seq |-> h, qc |-> FetchBlockInfo(h)] : b \in Correct}
<1>1. /\ proposed' = proposed \cup {h} /\ net' = net \cup new
      /\ awaitingBlocks' = [awaitingBlocks EXCEPT ![Proposer] = @ \cup {h}]
      /\ deliveredHeight' = deliveredHeight
  BY DEF StartHotStuff
<1>2. \A b \in Correct : \E m \in new : m.type = "QC" /\ m.node = b /\ m.seq = h
  <2> SUFFICES ASSUME NEW b \in Correct PROVE \E m \in new : m.type = "QC" /\ m.node = b /\ m.seq = h
    OBVIOUS
  <2>1. [type |-> "QC", node |-> b, seq |-> h, qc |-> FetchBlockInfo(h)] \in new
    OBVIOUS
  <2> QED
    BY <2>1
<1> HIDE DEF new
<1>3. \A b \in Correct : OnItsWay(b, h)' /\ \A d : OnItsWay(b, d) => OnItsWay(b, d)'
  BY <1>1, <1>2 DEF OnItsWay
<1>4. ASSUME NEW b \in Correct \ {Proposer} PROVE Deliveries(b)'
  <2>1. awaitingBlocks'[b] = awaitingBlocks[b] /\ Deliveries(b)
    BY <1>1 DEF HotStuffInv, Types, FollowInv
  <2> HIDE DEF OnItsWay
  <2> QED
    BY <1>1, <1>3, <2>1 DEF Deliveries
<1> QED
  BY <1>1, <1>4 DEF FollowInv

LEMMA NormalMsgFollow ==
  ASSUME HotStuffInv, FollowInv, NEW m \in net, HandleNormalMsg(m)
  PROVE  FollowInv'
<1> DEFINE kept == awaitingBlocks[m.node] \cup {m.seq}
<1>1. /\ m.type = "QC" /\ proposed' = proposed
      /\ net' = (net \ {m}) \cup {[type |-> "QCREP", node |-> m.node, seq |-> m.seq]}
      /\ DeliverInOrder(m.node, kept)
  BY DEF HandleNormalMsg, StoreAndDeliver
<1>2. m.node \in Correct /\ m.seq \in Height /\ m.seq \in proposed
  BY <1>1 DEF HotStuffInv, Types, VotesCast
<1>3. kept \in SUBSET Height /\ awaitingBlocks[m.node] \subseteq kept
  BY <1>2 DEF HotStuffInv, Types
<1>4. m.node # Proposer => kept \subseteq proposed
  BY <1>2 DEF FollowInv, Deliveries
<1>5. \A d, h : OnItsWay(d, h) => OnItsWay(d, h)' \/ (d = m.node /\ h \in kept)
  BY <1>1 DEF OnItsWay
<1> HIDE DEF kept, OnItsWay
<1> QED
  BY <1>1, <1>2, <1>3, <1>4, <1>5, DeliverStep

LEMMA NormalRepFollow ==
  ASSUME HotStuffInv, FollowInv, NEW m \in net, HandleNormalRepMsg(m)
  PROVE  FollowInv'
<1> DEFINE kept == awaitingBlocks[Proposer] \cup {m.seq}
<1>1. /\ m.type = "QCREP" /\ proposed' = proposed /\ net' = net \ {m}
      /\ DeliverInOrder(Proposer, kept)
  BY DEF HandleNormalRepMsg, StoreAndDeliver
<1>2. kept \in SUBSET Height
  BY Groups DEF HotStuffInv, Types
<1>3. \A d, h : OnItsWay(d, h) => OnItsWay(d, h)'
  BY <1>1 DEF OnItsWay
<1> HIDE DEF kept, OnItsWay
<1> QED
  BY <1>1, <1>2, <1>3, Groups, DeliverStep

LEMMA FollowStep == HotStuffInv /\ FollowInv /\ [Next]_vars => FollowInv'
<1> SUFFICES ASSUME HotStuffInv, FollowInv, [Next]_vars PROVE FollowInv'
  OBVIOUS
<1>1. ASSUME NEW h \in Height, StartHotStuff(h) PROVE FollowInv'
  BY <1>1, StartFollow
<1>2. ASSUME NEW m \in net, HandleQCByteMsg(m) PROVE FollowInv'
  BY <1>2, NormalMsgFollow, NormalRepFollow DEF HandleQCByteMsg
<1>3. ASSUME NEW b \in Correct, NEW m \in infos[b], ProcessQCInfo(b, m) PROVE FollowInv'
  <2>1. /\ DeliverInOrder(b, awaitingBlocks[b]) /\ UNCHANGED <<proposed, net>>
        /\ awaitingBlocks[b] \in SUBSET Height
    BY <1>3 DEF ProcessQCInfo, HotStuffInv, Types
  <2>2. \A d, h : OnItsWay(d, h)' <=> OnItsWay(d, h)
    BY <2>1 DEF OnItsWay
  <2>3. b # Proposer => awaitingBlocks[b] \subseteq proposed
    BY DEF FollowInv, Deliveries
  <2> HIDE DEF OnItsWay
  <2> QED
    BY <2>1, <2>2, <2>3, DeliverStep
<1>4. ASSUME NEW b \in Correct, NEW c \in adopting[b], AdoptBlock(b, c) PROVE FollowInv'
  BY <1>4, FollowKept DEF AdoptBlock, deliverVars, FollowInv
<1>5. ASSUME NEW c \in checks, ProcessQCInfoCheck(c) PROVE FollowInv'
  BY <1>5, FollowKept DEF ProcessQCInfoCheck, deliverVars, FollowInv
<1>6. ASSUME NEW h \in jumping, Jump(h) PROVE FollowInv'
  BY <1>6, FollowKept DEF Jump, FollowInv
<1>7. CASE UNCHANGED vars
  BY <1>7, FollowKept DEF vars, deliverVars, FollowInv
<1> QED
  BY <1>1, <1>2, <1>3, <1>4, <1>5, <1>6, <1>7 DEF Next, HotStuffNext, Goroutine

(***************************************************************************)
(* HotStuff: the properties                                                *)
(***************************************************************************)

\* The threshold is what the certificates are said to stand for, or more.
LEMMA EnoughVotes == Quorum >= VotesBehind
<1>1. Cardinality(B) \in Nat
  BY Groups, FS_CardinalityType
<1>2. CASE AddVersion = 0
  <2>1. Quorum = VotesBehind
    BY <1>2 DEF Quorum, SizeOfB, VotesBehind, GroupBByStartQuorum
  <2> QED
    BY <2>1, QuorumType
<1>3. CASE AddVersion = 1
  <2> DEFINE num == NumA + Cardinality(B) - 4
             numB == Cardinality(B)
  <2>1. num \in Nat /\ numB \in Nat /\ numB # 0 /\ numB <= num
    <3>1. B # {} /\ IsFiniteSet(B)
      BY Groups
    <3>2. Cardinality(B) # 0
      BY <3>1, FS_EmptySet
    <3> QED
      BY <1>1, <1>3, <3>2, Groups
  <2>2. SizeOfB = num
    BY <1>1, <1>3, Groups DEF SizeOfB, GroupBByStartQuorum
  <2>3. VotesBehind = QuorumSize(numB)
    BY <1>3 DEF VotesBehind
  <2> HIDE DEF num, numB
  <2>4. QuorumSize(numB) <= QuorumSize(num)
    BY <2>1, QuorumSizeMonotone
  <2> QED
    BY <2>2, <2>3, <2>4 DEF Quorum
<1> QED
  BY <1>2, <1>3, Groups

LEMMA CertificatesSound == HotStuffInv => CertifiedByQuorum /\ OneCertificate
<1> SUFFICES ASSUME HotStuffInv PROVE CertifiedByQuorum /\ OneCertificate
  OBVIOUS
<1>1. \A b \in Correct : Held(b) \subseteq Blocks
  BY DEF Blocks
<1>2. CertifiedByQuorum
  <2> SUFFICES ASSUME NEW b \in Correct, NEW c \in Held(b) \ {Genesis}
               PROVE  /\ Voters(c.height) # {}
                      /\ Cardinality(Voters(c.height)) >= VotesBehind
    BY DEF CertifiedByQuorum
  <2>1. HasQuorum(c.height)
    BY <1>1 DEF HotStuffInv, BlocksCertified
  <2>2. Cardinality(Voters(c.height)) \in Nat
    <3>1. Voters(c.height) \subseteq Correct /\ IsFiniteSet(Correct)
      BY Groups, FS_Subset DEF Voters
    <3> QED
      BY <3>1, FS_Subset, FS_CardinalityType
  <2>3. VotesBehind \in Int
    <3>1. \A n \in Int : QuorumSize(n) \in Int
      BY DEF QuorumSize, FSize, GoRem, GoDiv
    <3>2. Cardinality(B) \in Nat
      BY Groups, FS_CardinalityType
    <3> QED
      BY <3>1, <3>2 DEF VotesBehind
  <2> QED
    BY <2>1, <2>2, <2>3, EnoughVotes, QuorumType DEF HasQuorum
<1>3. OneCertificate
  BY <1>1 DEF HotStuffInv, BlocksUnique, OneCertificate
<1> QED
  BY <1>2, <1>3

\* Whatever is held as certified has been voted for by as many as VotesBehind says,
\* and certificates of one height are the same, for groups of any size with any
\* number of silent nodes.  That many is a quorum of group B after InitADD, if group
\* A has four nodes or more, and four nodes short of one after InitCROSS.
THEOREM HotStuffCertificates == Spec => [](CertifiedByQuorum /\ OneCertificate)
<1>1. Init => HotStuffInv
  BY HotStuffInit
<1>2. HotStuffInv /\ [Next]_vars => HotStuffInv'
  BY HotStuffStep
<1>3. HotStuffInv => CertifiedByQuorum /\ OneCertificate
  BY CertificatesSound
<1> QED
  BY <1>1, <1>2, <1>3, PTL DEF Spec

LEMMA FollowersSound == HotStuffInv /\ FollowInv => FollowersInOrder /\ FollowersDeliver
<1> SUFFICES ASSUME HotStuffInv, FollowInv PROVE FollowersInOrder /\ FollowersDeliver
  OBVIOUS
<1>1. FollowersInOrder
  BY DEF FollowInv, Deliveries, FollowersInOrder
<1>2. ASSUME Idle, NEW b \in Correct \ {Proposer}, NEW h \in Height, (1 .. h) \subseteq proposed,
             ~(deliveredHeight[b] >= h)
      PROVE  FALSE
  <2>1. Deliveries(b) /\ deliveredHeight[b] \in Nat /\ h \in Nat /\ net = {}
    BY <1>2, Groups DEF FollowInv, Deliveries, Idle
  <2>2. deliveredHeight[b] + 1 \in proposed
    BY <1>2, <2>1
  <2> QED
    BY <2>1, <2>2 DEF Deliveries, OnItsWay
<1> QED
  BY <1>1, <1>2 DEF FollowersDeliver

LEMMA FollowersInvariant == Spec => [](HotStuffInv /\ FollowInv)
<1>1. Init => HotStuffInv /\ FollowInv
  BY HotStuffInit, FollowInit
<1>2. HotStuffInv /\ FollowInv /\ [Next]_vars => HotStuffInv' /\ FollowInv'
  BY HotStuffStep, FollowStep
<1> QED
  BY <1>1, <1>2, PTL DEF Spec

\* A follower delivers only what was proposed, and no height before all below it,
\* whatever the order of the proposals, the messages and the goroutines.
THEOREM FollowersKeepOrder == Spec => []FollowersInOrder
BY FollowersInvariant, FollowersSound, PTL

\* When nothing is at work, a follower has delivered all heights up to the first
\* that was not proposed: what waited above a gap is delivered when it closes.
THEOREM FollowersCatchUp == Spec => []FollowersDeliver
BY FollowersInvariant, FollowersSound, PTL

(***************************************************************************)
(* HotStuff implements the abstract chain                                  *)
(***************************************************************************)

\* A follower files a block under its own height; node 4 does not
\* (ProcessQCInfoCheck), so that what it has committed may be overwritten.
FiledByHeight == \A b \in Followers : \A k \in committedBlocks[b] : k[1] = k[2].height

\* What the abstract chain sees of the followers.
CommittedBar == [b \in Followers |-> Committed(b)]
DeliveredBar == [b \in Followers |-> deliveredHeight[b]]

\* Filing a block under its height adds the height, and takes none away.
LEMMA FilingAdds ==
  ASSUME NEW blocks, NEW c, \A k \in blocks : k[1] = k[2].height
  PROVE  LET new == Insert(blocks, c.height, c)
         IN  /\ \A k \in new : k[1] = k[2].height
             /\ {k[2].height : k \in new} = {k[2].height : k \in blocks} \cup {c.height}
<1> DEFINE new == Insert(blocks, c.height, c)
           pair == <<c.height, c>>
<1>1. pair[1] = c.height /\ pair[2].height = c.height
  OBVIOUS
<1>2. new = {k \in blocks : k[1] # c.height} \cup {pair}
  BY DEF Insert
<1> HIDE DEF pair, new
<1>3. \A k \in new : k[1] = k[2].height
  BY <1>1, <1>2
<1>4. {k[2].height : k \in new} = {k[2].height : k \in blocks} \cup {c.height}
  <2>1. ASSUME NEW h \in {k[2].height : k \in new}
        PROVE  h \in {k[2].height : k \in blocks} \cup {c.height}
    BY <1>1, <1>2
  <2>2. ASSUME NEW k \in blocks PROVE k[2].height \in {j[2].height : j \in new}
    <3>1. CASE k[1] = c.height
      BY <1>1, <1>2, <3>1
    <3>2. CASE k[1] # c.height
      BY <1>2, <3>2
    <3> QED
      BY <3>1, <3>2
  <2>3. c.height \in {k[2].height : k \in new}
    BY <1>1, <1>2
  <2> QED
    BY <2>1, <2>2, <2>3
<1> QED
  BY <1>3, <1>4 DEF new

\* ProcessQCInfo commits the locked block, which is certified, or nothing.
LEMMA InfoCommits ==
  ASSUME HotStuffInv, FiledByHeight, prepared \subseteq proposed, NEW b \in Correct, NEW m \in infos[b], ProcessQCInfo(b, m)
  PROVE  /\ FiledByHeight'
         /\ \/ CommittedBar' = CommittedBar
            \/ /\ b \in Followers
               /\ \E h \in Height \cap prepared :
                    CommittedBar' = [CommittedBar EXCEPT ![b] = @ \cup {h}]
<1>1. PICK c : c = lockedBlock[b]
  OBVIOUS
<1>2. c = Genesis \/ c.height \in prepared
  BY <1>1, KnownBlocks DEF HotStuffInv, BlocksCertified
<1>3. committedBlocks = [d \in Correct |-> committedBlocks[d]]
  BY DEF HotStuffInv, Types
<1>4. \/ committedBlocks' = committedBlocks
      \/ committedBlocks' = [committedBlocks EXCEPT ![b] = Insert(committedBlocks[b], c.height, c)]
  <2>1. \E s \in {committedBlocks[b], Insert(committedBlocks[b], c.height, c)} :
          committedBlocks' = [committedBlocks EXCEPT ![b] = s]
    BY <1>1 DEF ProcessQCInfo
  <2> QED
    BY <1>3, <2>1
<1>5. CASE committedBlocks' = committedBlocks
  BY <1>5 DEF FiledByHeight, CommittedBar, Committed
<1>6. CASE committedBlocks' = [committedBlocks EXCEPT ![b] = Insert(committedBlocks[b], c.height, c)]
  <2>1. \A d \in Followers : d # b => committedBlocks'[d] = committedBlocks[d]
    BY <1>3, <1>6 DEF Followers
  <2>2. CASE b \notin Followers
    BY <2>1, <2>2 DEF FiledByHeight, CommittedBar, Committed
  <2>3. CASE b \in Followers
    <3>1. committedBlocks'[b] = Insert(committedBlocks[b], c.height, c)
      BY <1>3, <1>6
    <3>2. /\ \A k \in committedBlocks'[b] : k[1] = k[2].height
          /\ {k[2].height : k \in committedBlocks'[b]}
               = {k[2].height : k \in committedBlocks[b]} \cup {c.height}
      <4>1. PICK old : old = committedBlocks[b]
        OBVIOUS
      <4>2. \A k \in old : k[1] = k[2].height
        BY <2>3, <4>1 DEF FiledByHeight
      <4>3. LET new == Insert(old, c.height, c)
            IN  /\ \A k \in new : k[1] = k[2].height
                /\ {k[2].height : k \in new} = {k[2].height : k \in old} \cup {c.height}
        BY <4>2, FilingAdds
      <4> QED
        BY <3>1, <4>1, <4>3
    <3>3. FiledByHeight'
      BY <2>1, <3>2 DEF FiledByHeight
    <3>4. \A d \in Followers : d # b => Committed(d)' = Committed(d)
      BY <2>1 DEF Committed
    <3>5. Committed(b)' = Committed(b) \cup ({c.height} \ {0})
      BY <3>2 DEF Committed
    <3>6. CASE c.height = 0
      <4>1. \A d \in Followers : Committed(d)' = Committed(d)
        BY <3>4, <3>5, <3>6
      <4> QED
        BY <3>3, <4>1 DEF CommittedBar
    <3>7. CASE c.height # 0
      <4>1. c.height \in prepared \cap Height
        BY <1>2, <3>7 DEF Genesis, HotStuffInv, Types
      <4>2. CommittedBar' = [CommittedBar EXCEPT ![b] = @ \cup {c.height}]
        BY <2>3, <3>4, <3>5, <3>7 DEF CommittedBar
      <4> QED
        BY <2>3, <3>3, <4>1, <4>2
    <3> QED
      BY <3>6, <3>7
  <2> QED
    BY <2>2, <2>3
<1> QED
  BY <1>4, <1>5, <1>6

\* The delivery loop of a follower delivers a run of heights that were proposed,
\* or nothing; that of node 4 is not seen.
LEMMA LoopDelivers ==
  ASSUME HotStuffInv, FollowInv, FollowInv', NEW b \in Correct, NEW kept \in SUBSET Height,
         DeliverInOrder(b, kept), proposed' = proposed
  PROVE  \/ DeliveredBar' = DeliveredBar
         \/ /\ b \in Followers
            /\ \E n \in kept : /\ n > deliveredHeight[b] /\ 1 .. n \subseteq proposed
                               /\ DeliveredBar' = [DeliveredBar EXCEPT ![b] = n]
<1> DEFINE now == InOrder(b, kept)
           n   == IF now = {} THEN deliveredHeight[b]
                  ELSE CHOOSE h \in now : \A d \in now : d <= h
<1>1. deliveredHeight' = [deliveredHeight EXCEPT ![b] = n]
  BY DEF DeliverInOrder
<1>2. deliveredHeight[b] \in Nat =>
        /\ n \in Nat /\ deliveredHeight[b] <= n
        /\ now = (deliveredHeight[b] + 1) .. n /\ now \subseteq kept
  BY DeliveryLoop
<1> HIDE DEF now, n
<1>3. /\ \A d \in Followers : d # b => deliveredHeight'[d] = deliveredHeight[d]
      /\ deliveredHeight'[b] = n
  BY <1>1 DEF FollowInv, Followers
<1>4. CASE b \notin Followers
  BY <1>3, <1>4 DEF DeliveredBar
<1>5. CASE b \in Followers
  <2>1. /\ deliveredHeight[b] \in Nat /\ 1 .. n \subseteq proposed
    BY <1>3, <1>5 DEF FollowInv, Deliveries, Followers
  <2>2. CASE n = deliveredHeight[b]
    BY <1>3, <2>2 DEF DeliveredBar
  <2>3. CASE n # deliveredHeight[b]
    <3>1. n > deliveredHeight[b] /\ n \in kept
      BY <1>2, <2>1, <2>3
    <3>2. DeliveredBar' = [DeliveredBar EXCEPT ![b] = n]
      BY <1>3, <1>5 DEF DeliveredBar
    <3> QED
      BY <1>5, <2>1, <3>1, <3>2
  <2> QED
    BY <2>2, <2>3
<1> QED
  BY <1>4, <1>5

\* ProcessQCInfo finds nothing to deliver: the loop of the handler went before it.
LEMMA InfoDelivers ==
  ASSUME HotStuffInv, FollowInv, NEW b \in Correct, NEW m \in infos[b], ProcessQCInfo(b, m)
  PROVE  DeliveredBar' = DeliveredBar
<1> DEFINE kept == awaitingBlocks[b]
           now == InOrder(b, kept)
           n   == IF now = {} THEN deliveredHeight[b]
                  ELSE CHOOSE h \in now : \A d \in now : d <= h
<1>1. deliveredHeight' = [deliveredHeight EXCEPT ![b] = n] /\ kept \in SUBSET Height
  BY DEF ProcessQCInfo, DeliverInOrder, HotStuffInv, Types
<1>2. deliveredHeight[b] \in Nat =>
        /\ n \in Nat /\ deliveredHeight[b] <= n
        /\ now = (deliveredHeight[b] + 1) .. n /\ now \subseteq kept
  BY <1>1, DeliveryLoop
<1> HIDE DEF now, n
<1>3. ASSUME b \in Followers PROVE n = deliveredHeight[b]
  <2>1. deliveredHeight[b] \in Nat /\ deliveredHeight[b] + 1 \notin kept
    BY <1>3 DEF FollowInv, Deliveries, Followers
  <2> QED
    BY <1>2, <2>1
<1>4. \A d \in Followers : deliveredHeight'[d] = deliveredHeight[d]
  BY <1>1, <1>3 DEF FollowInv, Followers
<1> QED
  BY <1>4 DEF DeliveredBar

ChainInv == FiledByHeight /\ prepared \subseteq proposed

\* Where nothing is filed, the commits that are seen stay.
LEMMA NothingFiled ==
  ASSUME \A b \in Followers : committedBlocks'[b] = committedBlocks[b]
  PROVE  /\ FiledByHeight => FiledByHeight'
         /\ CommittedBar' = CommittedBar
BY DEF FiledByHeight, CommittedBar, Committed

\* What one step of HotStuff is to the chain.
ChainMoves ==
  \/ UNCHANGED <<proposed, prepared, CommittedBar, DeliveredBar>>
  \/ \E h \in Height : /\ h \notin proposed /\ proposed' = proposed \cup {h}
                       /\ UNCHANGED <<prepared, CommittedBar, DeliveredBar>>
  \/ \E h \in Height : /\ h \in proposed \ prepared /\ prepared' = prepared \cup {h}
                       /\ UNCHANGED <<proposed, CommittedBar, DeliveredBar>>
  \/ \E b \in Followers, h \in Height :
       /\ h \in prepared /\ CommittedBar' = [CommittedBar EXCEPT ![b] = @ \cup {h}]
       /\ UNCHANGED <<proposed, prepared, DeliveredBar>>
  \/ \E b \in Followers, h \in Height :
       /\ h > deliveredHeight[b] /\ 1 .. h \subseteq proposed
       /\ DeliveredBar' = [DeliveredBar EXCEPT ![b] = h]
       /\ UNCHANGED <<proposed, prepared, CommittedBar>>

LEMMA ChainStep ==
  ASSUME HotStuffInv, FollowInv, FollowInv', ChainInv, [Next]_vars
  PROVE  ChainInv' /\ ChainMoves
<1>1. ASSUME NEW h \in Height, StartHotStuff(h) PROVE ChainInv' /\ ChainMoves
  <2>1. /\ h \notin proposed /\ proposed' = proposed \cup {h} /\ prepared' = prepared
        /\ committedBlocks' = committedBlocks /\ deliveredHeight' = deliveredHeight
    BY <1>1 DEF StartHotStuff, voteVars, blockVars
  <2>2. FiledByHeight' /\ CommittedBar' = CommittedBar
    BY <2>1, NothingFiled DEF ChainInv
  <2> QED
    BY <2>1, <2>2 DEF ChainInv, ChainMoves, DeliveredBar
<1>2. ASSUME NEW m \in net, HandleNormalMsg(m) PROVE ChainInv' /\ ChainMoves
  <2>1. /\ m.type = "QC" /\ UNCHANGED <<proposed, prepared, committedBlocks>>
        /\ DeliverInOrder(m.node, awaitingBlocks[m.node] \cup {m.seq})
    BY <1>2 DEF HandleNormalMsg, StoreAndDeliver, voteVars, blockVars
  <2>2. m.node \in Correct /\ awaitingBlocks[m.node] \cup {m.seq} \in SUBSET Height
    BY <2>1 DEF HotStuffInv, Types
  <2>3. FiledByHeight' /\ CommittedBar' = CommittedBar
    BY <2>1, NothingFiled DEF ChainInv
  <2> HIDE DEF CommittedBar, DeliveredBar
  <2>4. CASE DeliveredBar' = DeliveredBar
    BY <2>1, <2>3, <2>4 DEF ChainInv, ChainMoves
  <2>5. CASE DeliveredBar' # DeliveredBar
    <3>1. PICK n \in awaitingBlocks[m.node] \cup {m.seq} :
            /\ n > deliveredHeight[m.node] /\ 1 .. n \subseteq proposed
            /\ m.node \in Followers
            /\ DeliveredBar' = [DeliveredBar EXCEPT ![m.node] = n]
      BY <2>1, <2>2, <2>5, LoopDelivers
    <3>2. n \in Height
      BY <2>2
    <3> QED
      BY <2>1, <2>3, <3>1, <3>2 DEF ChainInv, ChainMoves
  <2> QED
    BY <2>4, <2>5
<1>3. ASSUME NEW m \in net, HandleNormalRepMsg(m) PROVE ChainInv' /\ ChainMoves
  <2>1. /\ m.type = "QCREP" /\ UNCHANGED <<proposed, committedBlocks>>
        /\ DeliverInOrder(Proposer, awaitingBlocks[Proposer] \cup {m.seq})
        /\ \/ m.seq \notin prepared /\ prepared' = prepared \cup {m.seq}
           \/ prepared' = prepared
    BY <1>3 DEF HandleNormalRepMsg, StoreAndDeliver, Prepared
  <2>2. m.seq \in proposed /\ m.seq \in Height
    BY <2>1 DEF HotStuffInv, Types, VotesCast, Voters
  <2>3. FiledByHeight' /\ CommittedBar' = CommittedBar
    BY <2>1, NothingFiled DEF ChainInv
  <2>4. DeliveredBar' = DeliveredBar
    <3>1. \A b \in Followers : deliveredHeight'[b] = deliveredHeight[b]
      BY <2>1 DEF DeliverInOrder, FollowInv, Followers
    <3> QED
      BY <3>1 DEF DeliveredBar
  <2> HIDE DEF CommittedBar, DeliveredBar
  <2> QED
    BY <2>1, <2>2, <2>3, <2>4 DEF ChainInv, ChainMoves
<1>4. ASSUME NEW b \in Correct, NEW m \in infos[b], ProcessQCInfo(b, m)
      PROVE  ChainInv' /\ ChainMoves
  <2>1. UNCHANGED <<proposed, prepared>>
    BY <1>4 DEF ProcessQCInfo, voteVars
  <2>2. DeliveredBar' = DeliveredBar
    BY <1>4, InfoDelivers
  <2>3. /\ FiledByHeight'
        /\ \/ CommittedBar' = CommittedBar
           \/ /\ b \in Followers
              /\ \E h \in Height \cap prepared :
                   CommittedBar' = [CommittedBar EXCEPT ![b] = @ \cup {h}]
    BY <1>4, InfoCommits DEF ChainInv
  <2> HIDE DEF CommittedBar, DeliveredBar
  <2> QED
    BY <2>1, <2>2, <2>3 DEF ChainInv, ChainMoves
<1>5. ASSUME NEW b \in Correct, NEW c \in adopting[b], AdoptBlock(b, c)
      PROVE  ChainInv' /\ ChainMoves
  <2>1. UNCHANGED <<proposed, prepared, committedBlocks, deliveredHeight>>
    BY <1>5 DEF AdoptBlock, voteVars, deliverVars
  <2> QED
    BY <2>1, NothingFiled DEF ChainInv, ChainMoves, DeliveredBar
<1>6. ASSUME NEW c \in checks, ProcessQCInfoCheck(c) PROVE ChainInv' /\ ChainMoves
  <2>1. /\ UNCHANGED <<proposed, prepared, deliveredHeight>>
        /\ \A b \in Followers : committedBlocks'[b] = committedBlocks[b]
    BY <1>6 DEF ProcessQCInfoCheck, voteVars, deliverVars, HotStuffInv, Types, Followers
  <2> QED
    BY <2>1, NothingFiled DEF ChainInv, ChainMoves, DeliveredBar
<1>7. ASSUME NEW h \in jumping, Jump(h) PROVE ChainInv' /\ ChainMoves
  <2>1. /\ UNCHANGED <<proposed, prepared, committedBlocks>>
        /\ \A b \in Followers : deliveredHeight'[b] = deliveredHeight[b]
    BY <1>7 DEF Jump, voteVars, blockVars, FollowInv, Followers
  <2> QED
    BY <2>1, NothingFiled DEF ChainInv, ChainMoves, DeliveredBar
<1>8. CASE UNCHANGED vars
  <2>1. UNCHANGED <<proposed, prepared, committedBlocks, deliveredHeight>>
    BY <1>8 DEF vars, voteVars, blockVars, deliverVars
  <2> QED
    BY <2>1, NothingFiled DEF ChainInv, ChainMoves, DeliveredBar
<1> QED
  BY <1>1, <1>2, <1>3, <1>4, <1>5, <1>6, <1>7, <1>8
  DEF Next, HotStuffNext, HandleQCByteMsg, Goroutine

\* HotStuff keeps the promises of Chain to the nodes that follow, for groups of
\* any size and heights proposed in any order: whichever goroutines run, what
\* they commit is certified, and neither a commit nor a delivery is taken back.
THEOREM RefinesChain == Spec => ImplementsChain
<1>1. Init => ChainInv /\ CH!Init
  <2> SUFFICES ASSUME Init PROVE ChainInv /\ CH!Init
    OBVIOUS
  <2>1. /\ proposed = {} /\ prepared = {}
        /\ \A b \in Followers : committedBlocks[b] = {} /\ deliveredHeight[b] = 0
    BY DEF Init, Followers
  <2>2. \A b \in Followers : Committed(b) = {}
    BY <2>1 DEF Committed
  <2> QED
    BY <2>1, <2>2 DEF ChainInv, FiledByHeight, CH!Init
<1>2. ChainMoves => [CH!Next]_(CH!vars)
  <2>1. /\ CommittedBar = [b \in Followers |-> Committed(b)]
        /\ DeliveredBar = [b \in Followers |-> deliveredHeight[b]]
        /\ \A b \in Followers : DeliveredBar[b] = deliveredHeight[b]
    BY DEF CommittedBar, DeliveredBar
  <2> QED
    BY <2>1 DEF ChainMoves, CH!Next, CH!vars, CH!Propose, CH!Certify, CH!Commit, CH!Deliver,
                CommittedBar, DeliveredBar
<1>3. HotStuffInv /\ FollowInv /\ FollowInv' /\ ChainInv /\ [Next]_vars => ChainInv' /\ ChainMoves
  BY ChainStep
<1> QED
  BY <1>1, <1>2, <1>3, FollowersInvariant, PTL DEF Spec, ImplementsChain, CH!Spec

(***************************************************************************)
(* The queue of node 4: the invariant                                      *)
(***************************************************************************)

\* The nodes of A that run this code and relayed a request with instance i.
Relayers(i) == {a \in Relay : \E v \in crossSent[a] : i < NumReq[v]}

\* A handler at work has set sourceMsg.
SourceSet == counting # {} \/ queueing # {} => sourceMsg \in Value

\* Only those that relayed an instance, and faulty nodes, send and are counted for it.
VotesRelayed ==
  /\ \A m \in crossNet \cup counting : m.from \in Relayers(m.inst) \cup Faulty
  /\ \A i \in Height, v \in Value : crossVotes[<<i, v>>] \subseteq Relayers(i) \cup Faulty

\* What was ever queued was relayed; what was proposed, or is queued, is of that.
OrderRelayed ==
  /\ \A i \in order : Relayers(i) # {}
  /\ proposed \subseteq order
  /\ \A j \in DOMAIN crossABCMsgQueue : crossABCMsgQueue[j].epoch \in order

QueueInv == ABCTypeOK /\ SourceSet /\ VotesRelayed /\ OrderRelayed /\ QueueFresh

LEMMA ValueType ==
  /\ \A v \in Value : NumReq[v] \in Nat \ {0}
  /\ \A v \in Value : \A i \in 0 .. (NumReq[v] - 1) : i \in Height /\ i < NumReq[v]
BY Relays

\* More than t senders of a CROSS are not all faulty.
LEMMA CrossQuorumMet ==
  ASSUME NEW S, NEW T, S \subseteq T \cup Faulty, Cardinality(S) >= CrossQuorum
  PROVE  T # {}
<1>1. Cardinality(Faulty) < CrossQuorum /\ CrossQuorum \in Int /\ IsFiniteSet(Faulty)
  BY Groups, Relays DEF CrossQuorum, CrossSmallQuorum, GoDiv
<1>2. S \subseteq Faulty => Cardinality(S) <= Cardinality(Faulty) /\ Cardinality(S) \in Nat
  BY <1>1, FS_Subset, FS_CardinalityType
<1>3. Cardinality(Faulty) \in Nat
  BY <1>1, FS_CardinalityType
<1>4. ~(S \subseteq Faulty)
  BY <1>1, <1>2, <1>3
<1> QED
  BY <1>4

(***************************************************************************)
(* The queue of node 4: every step keeps the invariant                     *)
(***************************************************************************)

LEMMA QueueInit == ABCInit => QueueInv
<1> SUFFICES ASSUME ABCInit PROVE QueueInv
  OBVIOUS
<1>1. ABCTypeOK
  BY Forgeries DEF ABCInit, CrossInit, ABCTypeOK
<1>2. SourceSet /\ QueueFresh
  BY DEF ABCInit, CrossInit, SourceSet, QueueFresh
<1>3. VotesRelayed
  BY Forgeries DEF ABCInit, CrossInit, VotesRelayed
<1>4. OrderRelayed
  BY DEF ABCInit, CrossInit, Init, OrderRelayed
<1> QED
  BY <1>1, <1>2, <1>3, <1>4 DEF QueueInv

LEMMA SendCrossInv ==
  ASSUME QueueInv, NEW a \in Relay, NEW v \in Request, XSendCross(a, v)
  PROVE  QueueInv'
<1> DEFINE new == {[from |-> a, inst |-> i, val |-> v] : i \in 0 .. (NumReq[v] - 1)}
<1>1. /\ crossSent' = [crossSent EXCEPT ![a] = @ \cup {v}]
      /\ crossNet' = crossNet \cup new
      /\ UNCHANGED <<proposed, sourceMsg, crossVotes, counting, queueing, addtotalEpoch,
                     crossABCMsgQueue, order>>
  BY DEF XSendCross, vars
<1>2. v \in Value
  BY Relays
<1>3. \A m \in new : m \in Cross /\ m.from = a /\ m.inst < NumReq[v]
  BY <1>2, ValueType DEF Cross
<1> HIDE DEF new
<1>4. /\ crossSent' \in [Relay -> SUBSET Request]
      /\ v \in crossSent'[a] /\ \A r \in Relay : crossSent[r] \subseteq crossSent'[r]
  BY <1>1 DEF QueueInv, ABCTypeOK
<1>5. \A i : Relayers(i) \subseteq Relayers(i)'
  BY <1>4 DEF Relayers
<1>6. \A m \in new : m.from \in Relayers(m.inst)'
  BY <1>3, <1>4 DEF Relayers
<1>7. ABCTypeOK'
  BY <1>1, <1>3, <1>4 DEF QueueInv, ABCTypeOK
<1>8. VotesRelayed'
  BY <1>1, <1>5, <1>6 DEF QueueInv, VotesRelayed
<1>9. SourceSet' /\ OrderRelayed' /\ QueueFresh'
  BY <1>1, <1>5 DEF QueueInv, SourceSet, OrderRelayed, QueueFresh
<1> QED
  BY <1>7, <1>8, <1>9 DEF QueueInv

LEMMA HandleCrossInv ==
  ASSUME QueueInv, NEW m \in crossNet, XHandleCross(m)
  PROVE  QueueInv'
<1>1. /\ crossNet' = crossNet \ {m} /\ sourceMsg' = m.val
      /\ addtotalEpoch' \in {NumReq[m.val], addtotalEpoch}
      /\ counting' = counting \cup {m}
      /\ UNCHANGED <<proposed, crossSent, crossVotes, queueing, crossABCMsgQueue, order>>
  BY DEF XHandleCross, vars
<1>2. m \in Cross /\ m.val \in Value /\ NumReq[m.val] \in Nat
  BY ValueType DEF QueueInv, ABCTypeOK, Cross
<1>3. \A i : Relayers(i)' = Relayers(i)
  BY <1>1 DEF Relayers
<1>4. ABCTypeOK'
  BY <1>1, <1>2 DEF QueueInv, ABCTypeOK
<1>5. SourceSet' /\ VotesRelayed'
  BY <1>1, <1>2, <1>3 DEF QueueInv, SourceSet, VotesRelayed
<1>6. OrderRelayed' /\ QueueFresh'
  BY <1>1, <1>3 DEF QueueInv, OrderRelayed, QueueFresh
<1> QED
  BY <1>4, <1>5, <1>6 DEF QueueInv

LEMMA CountInv ==
  ASSUME QueueInv, NEW m \in counting, CountCross(m)
  PROVE  QueueInv'
<1> DEFINE new == [from |-> m.from, inst |-> m.inst, tag |-> sourceMsg]
<1>1. /\ counting' = counting \ {m} /\ queueing' = queueing \cup {new}
      /\ crossVotes' = [crossVotes EXCEPT ![<<m.inst, sourceMsg>>] = @ \cup {m.from}]
      /\ UNCHANGED <<proposed, crossSent, crossNet, sourceMsg, addtotalEpoch,
                     crossABCMsgQueue, order>>
  BY DEF CountCross, vars
<1>2. /\ m.inst \in Height /\ m.from \in Relay \cup Faulty /\ sourceMsg \in Value
      /\ m.from \in Relayers(m.inst) \cup Faulty
  BY DEF QueueInv, ABCTypeOK, SourceSet, VotesRelayed, Cross
<1>3. new \in [from : Relay \cup Faulty, inst : Height, tag : Value]
  BY <1>2
<1> HIDE DEF new
<1>4. \A i : Relayers(i)' = Relayers(i)
  BY <1>1 DEF Relayers
<1>5. crossVotes' \in [Height \X Value -> SUBSET (Relay \cup Faulty)]
  BY <1>1, <1>2 DEF QueueInv, ABCTypeOK
<1>6. ABCTypeOK'
  BY <1>1, <1>3, <1>5 DEF QueueInv, ABCTypeOK
<1>7. VotesRelayed'
  <2>1. ASSUME NEW i \in Height, NEW v \in Value
        PROVE  crossVotes'[<<i, v>>] \subseteq Relayers(i) \cup Faulty
    <3>1. CASE i = m.inst /\ v = sourceMsg
      BY <1>1, <1>2, <3>1 DEF QueueInv, ABCTypeOK, VotesRelayed
    <3>2. CASE ~(i = m.inst /\ v = sourceMsg)
      <4>1. crossVotes'[<<i, v>>] = crossVotes[<<i, v>>]
        BY <1>1, <1>2, <3>2 DEF QueueInv, ABCTypeOK
      <4> QED
        BY <4>1 DEF QueueInv, VotesRelayed
    <3> QED
      BY <3>1, <3>2
  <2> QED
    BY <1>1, <1>4, <2>1 DEF QueueInv, VotesRelayed
<1>8. SourceSet' /\ OrderRelayed' /\ QueueFresh'
  BY <1>1, <1>2, <1>4 DEF QueueInv, SourceSet, OrderRelayed, QueueFresh
<1> QED
  BY <1>6, <1>7, <1>8 DEF QueueInv

LEMMA AddInv ==
  ASSUME QueueInv, NEW c \in queueing, AddMessageToCrossABCMsgQueue(c)
  PROVE  QueueInv'
<1> DEFINE e == [epoch |-> c.inst, msg |-> sourceMsg]
<1>1. /\ queueing' = queueing \ {c}
      /\ UNCHANGED <<proposed, crossSent, crossNet, sourceMsg, crossVotes, counting, addtotalEpoch>>
      /\ \/ /\ MayQueue(c)
            /\ crossABCMsgQueue' = Append(crossABCMsgQueue, e) /\ order' = order \cup {c.inst}
         \/ UNCHANGED <<crossABCMsgQueue, order>>
  BY DEF AddMessageToCrossABCMsgQueue, vars
<1>2. c.inst \in Height /\ c.tag \in Value /\ sourceMsg \in Value
  BY DEF QueueInv, ABCTypeOK, SourceSet
<1>3. e \in [epoch : Height, msg : Value] /\ e.epoch = c.inst
  BY <1>2
<1> HIDE DEF e
<1>4. \A i : Relayers(i)' = Relayers(i)
  BY <1>1 DEF Relayers
<1>5. SourceSet' /\ VotesRelayed'
  BY <1>1, <1>2, <1>4 DEF QueueInv, SourceSet, VotesRelayed
<1>6. CASE UNCHANGED <<crossABCMsgQueue, order>>
  <2>1. ABCTypeOK' /\ OrderRelayed' /\ QueueFresh'
    BY <1>1, <1>4, <1>6 DEF QueueInv, ABCTypeOK, OrderRelayed, QueueFresh
  <2> QED
    BY <1>5, <2>1 DEF QueueInv
<1>7. CASE /\ MayQueue(c)
           /\ crossABCMsgQueue' = Append(crossABCMsgQueue, e) /\ order' = order \cup {c.inst}
  <2>1. Relayers(c.inst) # {}
    <3>1. /\ crossVotes[<<c.inst, c.tag>>] \subseteq Relayers(c.inst) \cup Faulty
          /\ Cardinality(crossVotes[<<c.inst, c.tag>>]) >= CrossQuorum
      BY <1>2, <1>7 DEF QueueInv, VotesRelayed, MayQueue
    <3> QED
      BY <3>1, CrossQuorumMet
  <2>2. c.inst \notin order
    BY <1>7 DEF MayQueue, Queued
  <2>3. crossABCMsgQueue \in Seq([epoch : Height, msg : Value])
    BY DEF QueueInv, ABCTypeOK
  <2>4. /\ crossABCMsgQueue' \in Seq([epoch : Height, msg : Value])
        /\ DOMAIN crossABCMsgQueue' = 1 .. (Len(crossABCMsgQueue) + 1)
        /\ DOMAIN crossABCMsgQueue = 1 .. Len(crossABCMsgQueue) /\ Len(crossABCMsgQueue) \in Nat
        /\ crossABCMsgQueue'[Len(crossABCMsgQueue) + 1] = e
        /\ \A j \in DOMAIN crossABCMsgQueue : crossABCMsgQueue'[j] = crossABCMsgQueue[j]
    BY <1>3, <1>7, <2>3
  <2>5. ABCTypeOK'
    BY <1>1, <1>2, <1>7, <2>4 DEF QueueInv, ABCTypeOK
  <2>6. \A j \in DOMAIN crossABCMsgQueue' :
          \/ j \in DOMAIN crossABCMsgQueue /\ crossABCMsgQueue'[j] = crossABCMsgQueue[j]
          \/ j = Len(crossABCMsgQueue) + 1 /\ crossABCMsgQueue'[j].epoch = c.inst
    BY <1>3, <2>4
  <2>7. OrderRelayed'
    BY <1>1, <1>4, <1>7, <2>1, <2>6 DEF QueueInv, OrderRelayed
  <2>8. QueueFresh'
    BY <1>1, <2>2, <2>6 DEF QueueInv, OrderRelayed, QueueFresh
  <2> QED
    BY <1>5, <2>5, <2>7, <2>8 DEF QueueInv
<1> QED
  BY <1>1, <1>6, <1>7

LEMMA ReadyInv ==
  ASSUME QueueInv, ReadyStartHotStuff
  PROVE  QueueInv' /\ \E h \in Height : StartHotStuff(h)
<1>1. PICK h : h = Head(crossABCMsgQueue).epoch
  OBVIOUS
<1>2. /\ crossABCMsgQueue # <<>> /\ crossABCMsgQueue' = Tail(crossABCMsgQueue)
      /\ StartHotStuff(h) /\ proposed' = proposed \cup {h} /\ UNCHANGED crossVars
  BY <1>1 DEF ReadyStartHotStuff, StartHotStuff
<1>3. crossABCMsgQueue \in Seq([epoch : Height, msg : Value])
  BY DEF QueueInv, ABCTypeOK
<1>4. /\ h \in Height /\ 1 \in DOMAIN crossABCMsgQueue /\ crossABCMsgQueue[1].epoch = h
      /\ crossABCMsgQueue' \in Seq([epoch : Height, msg : Value])
  <2>1. 1 \in DOMAIN crossABCMsgQueue /\ Head(crossABCMsgQueue) = crossABCMsgQueue[1]
    BY <1>2, <1>3
  <2>2. crossABCMsgQueue[1] \in [epoch : Height, msg : Value]
    BY <1>2, <1>3, <2>1, HeadTailProperties
  <2>3. crossABCMsgQueue' \in Seq([epoch : Height, msg : Value])
    BY <1>2, <1>3
  <2> QED
    BY <1>1, <2>1, <2>2, <2>3
<1>5. \A j \in DOMAIN crossABCMsgQueue' :
        /\ j + 1 \in DOMAIN crossABCMsgQueue /\ j + 1 # 1 /\ j \in Nat
        /\ crossABCMsgQueue'[j] = crossABCMsgQueue[j + 1]
  BY <1>2, <1>3
<1>6. \A i : Relayers(i)' = Relayers(i)
  BY <1>2 DEF Relayers, crossVars
<1>7. ABCTypeOK'
  BY <1>2, <1>4 DEF QueueInv, ABCTypeOK, crossVars
<1>8. SourceSet' /\ VotesRelayed'
  BY <1>2, <1>6 DEF QueueInv, SourceSet, VotesRelayed, crossVars
<1>9. OrderRelayed'
  BY <1>2, <1>4, <1>5, <1>6 DEF QueueInv, OrderRelayed, crossVars
<1>10. QueueFresh'
  BY <1>2, <1>4, <1>5 DEF QueueInv, QueueFresh
<1> QED
  BY <1>2, <1>4, <1>7, <1>8, <1>9, <1>10 DEF QueueInv

LEMMA QueueKept ==
  ASSUME QueueInv, UNCHANGED <<proposed, crossVars, crossABCMsgQueue>>
  PROVE  QueueInv'
<1>1. \A i : Relayers(i)' = Relayers(i)
  BY DEF Relayers, crossVars
<1>2. ABCTypeOK' /\ SourceSet'
  BY DEF QueueInv, ABCTypeOK, SourceSet, crossVars
<1>3. VotesRelayed' /\ OrderRelayed' /\ QueueFresh'
  BY <1>1 DEF QueueInv, VotesRelayed, OrderRelayed, QueueFresh, crossVars
<1> QED
  BY <1>2, <1>3 DEF QueueInv

\* Only StartHotStuff proposes.
LEMMA HotStuffProposes == HotStuffNext => proposed' = proposed
BY DEF HotStuffNext, HandleQCByteMsg, HandleNormalMsg, HandleNormalRepMsg, Goroutine,
       ProcessQCInfo, AdoptBlock, ProcessQCInfoCheck, Jump

LEMMA ABCInvariance == ABCSpec => [](HotStuffInv /\ FollowInv /\ QueueInv)
<1>1. ABCInit => HotStuffInv /\ FollowInv /\ QueueInv
  BY HotStuffInit, FollowInit, QueueInit DEF ABCInit
<1>2. HotStuffInv /\ FollowInv /\ QueueInv /\ [ABCNext]_abcVars
        => HotStuffInv' /\ FollowInv' /\ QueueInv'
  <2> SUFFICES ASSUME HotStuffInv, FollowInv, QueueInv, [ABCNext]_abcVars
               PROVE  HotStuffInv' /\ FollowInv' /\ QueueInv'
    OBVIOUS
  <2>1. CASE \E a \in Relay, v \in Request : XSendCross(a, v)
    <3>1. UNCHANGED vars
      BY <2>1 DEF XSendCross
    <3> QED
      BY <2>1, <3>1, SendCrossInv, HotStuffStep, FollowStep
  <2>2. CASE \E m \in crossNet : XHandleCross(m)
    <3>1. UNCHANGED vars
      BY <2>2 DEF XHandleCross
    <3> QED
      BY <2>2, <3>1, HandleCrossInv, HotStuffStep, FollowStep
  <2>3. CASE \E m \in counting : CountCross(m)
    <3>1. UNCHANGED vars
      BY <2>3 DEF CountCross
    <3> QED
      BY <2>3, <3>1, CountInv, HotStuffStep, FollowStep
  <2>4. CASE \E c \in queueing : AddMessageToCrossABCMsgQueue(c)
    <3>1. UNCHANGED vars
      BY <2>4 DEF AddMessageToCrossABCMsgQueue
    <3> QED
      BY <2>4, <3>1, AddInv, HotStuffStep, FollowStep
  <2>5. CASE ReadyStartHotStuff
    <3>1. QueueInv' /\ Next
      BY <2>5, ReadyInv DEF Next
    <3> QED
      BY <3>1, HotStuffStep, FollowStep
  <2>6. CASE HotStuffNext /\ UNCHANGED <<crossVars, crossABCMsgQueue>>
    <3>1. Next /\ proposed' = proposed
      BY <2>6, HotStuffProposes DEF Next
    <3> QED
      BY <2>6, <3>1, QueueKept, HotStuffStep, FollowStep
  <2>7. CASE UNCHANGED abcVars
    <3>1. UNCHANGED <<vars, proposed, crossVars, crossABCMsgQueue>>
      BY <2>7 DEF abcVars, vars
    <3> QED
      BY <3>1, QueueKept, HotStuffStep, FollowStep
  <2> QED
    BY <2>1, <2>2, <2>3, <2>4, <2>5, <2>6, <2>7 DEF ABCNext
<1> QED
  BY <1>1, <1>2, PTL DEF ABCSpec

(***************************************************************************)
(* The queue of node 4: nothing is lost while group A is of one mind       *)
(***************************************************************************)

\* Group A is at work, on one request: enough of its nodes run this code to make
\* a quorum of CROSS, clients submit v only, and faulty nodes send no other payload.
OneMind(v) ==
  /\ IsFiniteSet(Relay) /\ Cardinality(Relay) >= CrossQuorum
  /\ Request = {v} /\ \A m \in Forged : m.val = v

\* Every handler works on v, and knows the number of its instances.
OneSource(v) ==
  /\ \A m \in crossNet \cup counting : m.val = v
  /\ \A c \in queueing : c.tag = v
  /\ addtotalEpoch \in {0, NumReq[v]}
  /\ counting # {} \/ queueing # {} => sourceMsg = v /\ addtotalEpoch = NumReq[v]

\* What was relayed is on its way, or counted.
Relayed(v) ==
  \A a \in Relay : \A i \in 0 .. (NumReq[v] - 1) :
    v \in crossSent[a] =>
      [from |-> a, inst |-> i, val |-> v] \in crossNet \cup counting \/ a \in crossVotes[<<i, v>>]

\* An instance with a quorum of votes was queued, or a handler is about to.
Enough(v) ==
  \A i \in Height : Cardinality(crossVotes[<<i, v>>]) >= CrossQuorum =>
    i \in order \/ \E c \in queueing : c.inst = i

\* What was queued is in the queue, or proposed.
OrderKept ==
  \A i \in order : i \in proposed \/ \E j \in DOMAIN crossABCMsgQueue : crossABCMsgQueue[j].epoch = i

NothingLost(v) == OneSource(v) /\ Relayed(v) /\ Enough(v) /\ OrderKept

\* A queue of as many different instances as there are has them all.
LEMMA FullQueue ==
  ASSUME NEW N \in Nat, NEW q \in Seq([epoch : Height, msg : Value]), Len(q) = N,
         \A j \in DOMAIN q : q[j].epoch \in 0 .. (N - 1),
         \A j, k \in DOMAIN q : j # k => q[j].epoch # q[k].epoch
  PROVE  \A i \in 0 .. (N - 1) : \E j \in DOMAIN q : q[j].epoch = i
<1> DEFINE f == [j \in 1 .. N |-> q[j].epoch]
<1>1. DOMAIN q = 1 .. N
  OBVIOUS
<1>2. f \in [1 .. N -> 0 .. (N - 1)] /\ \A j, k \in 1 .. N : j # k => f[j] # f[k]
  BY <1>1
<1>3. f \in Injection(1 .. N, 0 .. (N - 1))
  BY <1>2 DEF Injection, IsInjective
<1>4. /\ IsFiniteSet(1 .. N) /\ IsFiniteSet(0 .. (N - 1))
      /\ Cardinality(1 .. N) = N /\ Cardinality(0 .. (N - 1)) = N
  BY FS_Interval
<1> HIDE DEF f
<1>5. f \in Surjection(1 .. N, 0 .. (N - 1))
  BY <1>3, <1>4, FS_Injection
<1>6. \A i \in 0 .. (N - 1) : \E j \in 1 .. N : f[j] = i
  BY <1>5 DEF Surjection
<1> QED
  BY <1>1, <1>6 DEF f

LEMMA LostInit ==
  ASSUME NEW v \in Value, OneMind(v), ABCInit
  PROVE  NothingLost(v)
<1>1. \A i \in Height : crossVotes[<<i, v>>] = {}
  BY DEF ABCInit, CrossInit
<1>2. CrossQuorum \in Nat \ {0}
  <2>1. Cardinality(Faulty) \in Nat /\ Cardinality(Faulty) < CrossQuorum /\ CrossQuorum \in Int
    BY Groups, Relays, FS_CardinalityType DEF CrossQuorum, CrossSmallQuorum, GoDiv
  <2> QED
    BY <2>1
<1>3. Enough(v)
  BY <1>1, <1>2, FS_EmptySet DEF Enough
<1>4. OneSource(v) /\ Relayed(v) /\ OrderKept
  BY DEF OneMind, ABCInit, CrossInit, OneSource, Relayed, OrderKept
<1> QED
  BY <1>3, <1>4 DEF NothingLost

LEMMA SendCrossLost ==
  ASSUME NEW v \in Value, OneMind(v), QueueInv, NothingLost(v),
         NEW a \in Relay, NEW w \in Request, XSendCross(a, w)
  PROVE  NothingLost(v)'
<1> DEFINE new == {[from |-> a, inst |-> i, val |-> v] : i \in 0 .. (NumReq[v] - 1)}
<1>1. /\ crossSent' = [crossSent EXCEPT ![a] = @ \cup {v}]
      /\ crossNet' = crossNet \cup new
      /\ UNCHANGED <<proposed, sourceMsg, crossVotes, counting, queueing, addtotalEpoch,
                     crossABCMsgQueue, order>>
  BY DEF XSendCross, vars, OneMind
<1>2. \A m \in new : m.val = v
  OBVIOUS
<1>3. OneSource(v)'
  <2> HIDE DEF new
  <2> QED
    BY <1>1, <1>2 DEF NothingLost, OneSource
<1>4. Relayed(v)'
  <2>1. ASSUME NEW b \in Relay, NEW i \in 0 .. (NumReq[v] - 1), v \in crossSent'[b]
        PROVE  [from |-> b, inst |-> i, val |-> v] \in crossNet' \cup counting'
                 \/ b \in crossVotes'[<<i, v>>]
    <3>1. CASE b = a
      BY <1>1, <3>1
    <3>2. CASE b # a
      <4> HIDE DEF new
      <4>1. crossSent'[b] = crossSent[b]
        BY <1>1, <3>2 DEF QueueInv, ABCTypeOK
      <4> QED
        BY <1>1, <2>1, <4>1 DEF NothingLost, Relayed
    <3> QED
      BY <3>1, <3>2
  <2> QED
    BY <2>1 DEF Relayed
<1>5. Enough(v)' /\ OrderKept'
  BY <1>1 DEF NothingLost, Enough, OrderKept
<1> QED
  BY <1>3, <1>4, <1>5 DEF NothingLost

LEMMA HandleCrossLost ==
  ASSUME NEW v \in Value, OneMind(v), QueueInv, NothingLost(v),
         NEW m \in crossNet, XHandleCross(m)
  PROVE  NothingLost(v)'
<1>1. /\ crossNet' = crossNet \ {m} /\ sourceMsg' = m.val /\ counting' = counting \cup {m}
      /\ addtotalEpoch' = IF addtotalEpoch = 0 THEN NumReq[m.val] ELSE addtotalEpoch
      /\ UNCHANGED <<proposed, crossSent, crossVotes, queueing, crossABCMsgQueue, order>>
  BY DEF XHandleCross, vars
<1>2. m.val = v
  BY DEF NothingLost, OneSource
<1>3. addtotalEpoch' = NumReq[v]
  BY <1>1, <1>2 DEF NothingLost, OneSource
<1>4. OneSource(v)'
  BY <1>1, <1>2, <1>3 DEF NothingLost, OneSource
<1>5. Relayed(v)'
  BY <1>1 DEF NothingLost, Relayed
<1>6. Enough(v)' /\ OrderKept'
  BY <1>1 DEF NothingLost, Enough, OrderKept
<1> QED
  BY <1>4, <1>5, <1>6 DEF NothingLost

LEMMA CountLost ==
  ASSUME NEW v \in Value, OneMind(v), QueueInv, NothingLost(v),
         NEW m \in counting, CountCross(m)
  PROVE  NothingLost(v)'
<1> DEFINE new == [from |-> m.from, inst |-> m.inst, tag |-> sourceMsg]
<1>1. /\ counting' = counting \ {m} /\ queueing' = queueing \cup {new}
      /\ crossVotes' = [crossVotes EXCEPT ![<<m.inst, sourceMsg>>] = @ \cup {m.from}]
      /\ UNCHANGED <<proposed, crossSent, crossNet, sourceMsg, addtotalEpoch,
                     crossABCMsgQueue, order>>
  BY DEF CountCross, vars
<1>2. sourceMsg = v /\ addtotalEpoch = NumReq[v] /\ m.val = v /\ m.inst \in Height
  BY DEF NothingLost, OneSource, QueueInv, ABCTypeOK, Cross
<1>3. new.tag = v /\ new.inst = m.inst /\ new \in queueing'
  BY <1>1, <1>2
<1> HIDE DEF new
<1>4. \A i \in Height : crossVotes'[<<i, v>>] =
        IF i = m.inst THEN crossVotes[<<i, v>>] \cup {m.from} ELSE crossVotes[<<i, v>>]
  BY <1>1, <1>2 DEF QueueInv, ABCTypeOK
<1>5. OneSource(v)'
  BY <1>1, <1>2, <1>3 DEF NothingLost, OneSource
<1>6. Relayed(v)'
  <2>1. \A i \in 0 .. (NumReq[v] - 1) : i \in Height
    BY ValueType
  <2>2. ASSUME NEW a \in Relay, NEW i \in 0 .. (NumReq[v] - 1), v \in crossSent'[a]
        PROVE  [from |-> a, inst |-> i, val |-> v] \in crossNet' \cup counting'
                 \/ a \in crossVotes'[<<i, v>>]
    <3> DEFINE r == [from |-> a, inst |-> i, val |-> v]
    <3>1. r \in crossNet \cup counting \/ a \in crossVotes[<<i, v>>]
      BY <1>1, <2>2 DEF NothingLost, Relayed
    <3>2. r = m => a = m.from /\ i = m.inst
      OBVIOUS
    <3> HIDE DEF r
    <3>3. crossVotes[<<i, v>>] \subseteq crossVotes'[<<i, v>>]
      BY <1>4, <2>1
    <3>4. r = m => a \in crossVotes'[<<i, v>>]
      BY <1>4, <2>1, <3>2
    <3>5. r \in crossNet' \cup counting' \/ a \in crossVotes'[<<i, v>>]
      BY <1>1, <3>1, <3>3, <3>4
    <3> QED
      BY <3>5 DEF r
  <2> QED
    BY <2>2 DEF Relayed
<1>7. Enough(v)'
  BY <1>1, <1>3, <1>4 DEF NothingLost, Enough
<1>8. OrderKept'
  BY <1>1 DEF NothingLost, OrderKept
<1> QED
  BY <1>5, <1>6, <1>7, <1>8 DEF NothingLost

\* The queue has room for an instance that was not queued: when it is full, all
\* of them are in it.
LEMMA AddLost ==
  ASSUME NEW v \in Value, OneMind(v), QueueInv, NothingLost(v),
         NEW c \in queueing, AddMessageToCrossABCMsgQueue(c)
  PROVE  NothingLost(v)'
<1> DEFINE e == [epoch |-> c.inst, msg |-> sourceMsg]
<1>1. /\ queueing' = queueing \ {c}
      /\ UNCHANGED <<proposed, crossSent, crossNet, sourceMsg, crossVotes, counting, addtotalEpoch>>
      /\ \/ /\ crossABCMsgQueue' = Append(crossABCMsgQueue, e) /\ order' = order \cup {c.inst}
         \/ ~MayQueue(c) /\ UNCHANGED <<crossABCMsgQueue, order>>
  BY DEF AddMessageToCrossABCMsgQueue, vars
<1>2. /\ sourceMsg = v /\ addtotalEpoch = NumReq[v] /\ c.tag = v /\ c.inst \in Height
      /\ NumReq[v] \in Nat
  BY ValueType DEF NothingLost, OneSource, QueueInv, ABCTypeOK
<1>3. e \in [epoch : Height, msg : Value] /\ e.epoch = c.inst
  BY <1>2
<1> HIDE DEF e
<1>4. OneSource(v)' /\ Relayed(v)'
  BY <1>1, <1>2 DEF NothingLost, OneSource, Relayed
<1>5. crossABCMsgQueue \in Seq([epoch : Height, msg : Value])
  BY DEF QueueInv, ABCTypeOK
<1>6. \A i : Relayers(i) # {} => i \in 0 .. (NumReq[v] - 1) \/ i \notin Height
  <2>1. \A i \in Height : i \in Nat
    BY Groups
  <2> QED
    BY <1>2, <2>1 DEF OneMind, Relayers, QueueInv, ABCTypeOK
<1>7. CASE crossABCMsgQueue' = Append(crossABCMsgQueue, e) /\ order' = order \cup {c.inst}
  <2>1. /\ Len(crossABCMsgQueue) + 1 \in DOMAIN crossABCMsgQueue'
        /\ crossABCMsgQueue'[Len(crossABCMsgQueue) + 1] = e
        /\ \A j \in DOMAIN crossABCMsgQueue :
             j \in DOMAIN crossABCMsgQueue' /\ crossABCMsgQueue'[j] = crossABCMsgQueue[j]
    BY <1>3, <1>5, <1>7
  <2>2. OrderKept'
    BY <1>1, <1>3, <1>7, <2>1 DEF NothingLost, OrderKept
  <2>3. Enough(v)'
    BY <1>1, <1>7 DEF NothingLost, Enough
  <2> QED
    BY <1>4, <2>2, <2>3 DEF NothingLost
<1>8. CASE ~MayQueue(c) /\ UNCHANGED <<crossABCMsgQueue, order>>
  <2>1. Cardinality(crossVotes[<<c.inst, v>>]) >= CrossQuorum => c.inst \in order
    <3> SUFFICES ASSUME Cardinality(crossVotes[<<c.inst, v>>]) >= CrossQuorum, c.inst \notin order
                 PROVE  FALSE
      OBVIOUS
    <3>1. Len(crossABCMsgQueue) = NumReq[v]
      BY <1>2, <1>8 DEF MayQueue, Queued
    <3>2. crossVotes[<<c.inst, v>>] \subseteq Relayers(c.inst) \cup Faulty
      BY <1>2 DEF QueueInv, VotesRelayed
    <3>3. c.inst \in 0 .. (NumReq[v] - 1)
      BY <1>2, <1>6, <3>2, CrossQuorumMet
    <3>4. \A j \in DOMAIN crossABCMsgQueue : /\ crossABCMsgQueue[j].epoch \in 0 .. (NumReq[v] - 1)
                                              /\ crossABCMsgQueue[j].epoch \in order
      BY <1>6 DEF QueueInv, ABCTypeOK, OrderRelayed
    <3>5. \A j, k \in DOMAIN crossABCMsgQueue :
            j # k => crossABCMsgQueue[j].epoch # crossABCMsgQueue[k].epoch
      BY DEF QueueInv, QueueFresh
    <3>6. \A i \in 0 .. (NumReq[v] - 1) : \E j \in DOMAIN crossABCMsgQueue : crossABCMsgQueue[j].epoch = i
      <4>1. \A j \in DOMAIN crossABCMsgQueue : crossABCMsgQueue[j].epoch \in 0 .. (NumReq[v] - 1)
        BY <3>4
      <4> QED
        BY <1>2, <1>5, <3>1, <3>5, <4>1, FullQueue
    <3> QED
      BY <3>3, <3>4, <3>6
  <2>2. Enough(v)'
    BY <1>1, <1>8, <2>1 DEF NothingLost, Enough
  <2>3. OrderKept'
    BY <1>1, <1>8 DEF NothingLost, OrderKept
  <2> QED
    BY <1>4, <2>2, <2>3 DEF NothingLost
<1> QED
  BY <1>1, <1>7, <1>8

LEMMA ReadyLost ==
  ASSUME NEW v \in Value, QueueInv, NothingLost(v), ReadyStartHotStuff
  PROVE  NothingLost(v)'
<1>1. PICK h : h = Head(crossABCMsgQueue).epoch
  OBVIOUS
<1>2. /\ crossABCMsgQueue # <<>> /\ crossABCMsgQueue' = Tail(crossABCMsgQueue)
      /\ proposed' = proposed \cup {h} /\ UNCHANGED crossVars
  BY <1>1 DEF ReadyStartHotStuff, StartHotStuff
<1>3. crossABCMsgQueue \in Seq([epoch : Height, msg : Value])
  BY DEF QueueInv, ABCTypeOK
<1>4. crossABCMsgQueue[1].epoch = h
  BY <1>1, <1>2, <1>3
<1>5. \A j \in DOMAIN crossABCMsgQueue : j # 1 =>
        /\ j - 1 \in DOMAIN crossABCMsgQueue'
        /\ crossABCMsgQueue'[j - 1] = crossABCMsgQueue[j]
  BY <1>2, <1>3
<1>6. OneSource(v)' /\ Relayed(v)' /\ Enough(v)'
  BY <1>2 DEF NothingLost, OneSource, Relayed, Enough, crossVars
<1>7. OrderKept'
  <2> SUFFICES ASSUME NEW i \in order'
               PROVE  i \in proposed' \/ \E j \in DOMAIN crossABCMsgQueue' : crossABCMsgQueue'[j].epoch = i
    BY DEF OrderKept
  <2>1. i \in proposed \/ \E j \in DOMAIN crossABCMsgQueue : crossABCMsgQueue[j].epoch = i
    BY <1>2 DEF NothingLost, OrderKept, crossVars
  <2>2. ASSUME NEW j \in DOMAIN crossABCMsgQueue, crossABCMsgQueue[j].epoch = i
        PROVE  i = h \/ \E k \in DOMAIN crossABCMsgQueue' : crossABCMsgQueue'[k].epoch = i
    BY <1>4, <1>5, <2>2
  <2> QED
    BY <1>2, <2>1, <2>2
<1> QED
  BY <1>6, <1>7 DEF NothingLost

LEMMA LostStep ==
  ASSUME NEW v \in Value, OneMind(v), QueueInv, NothingLost(v), [ABCNext]_abcVars
  PROVE  NothingLost(v)'
<1>1. CASE HotStuffNext /\ UNCHANGED <<crossVars, crossABCMsgQueue>>
  BY <1>1, HotStuffProposes
     DEF NothingLost, OneSource, Relayed, Enough, OrderKept, crossVars
<1>2. CASE UNCHANGED abcVars
  BY <1>2 DEF abcVars, vars, NothingLost, OneSource, Relayed, Enough, OrderKept, crossVars
<1> QED
  BY <1>1, <1>2, SendCrossLost, HandleCrossLost, CountLost, AddLost, ReadyLost DEF ABCNext

\* When all is quiet, every instance has the votes of all of Relay, so it was
\* queued and proposed.
LEMMA QuietProposed ==
  ASSUME NEW v \in Value, OneMind(v), QueueInv, NothingLost(v), Quiet
  PROVE  0 .. (NumReq[v] - 1) \subseteq proposed
<1> SUFFICES ASSUME NEW i \in 0 .. (NumReq[v] - 1) PROVE i \in proposed
  OBVIOUS
<1>1. i \in Height
  BY ValueType
<1>2. Relay \subseteq crossVotes[<<i, v>>]
  BY DEF Quiet, OneMind, NothingLost, Relayed
<1>3. crossVotes[<<i, v>>] \subseteq Relay \cup Faulty /\ IsFiniteSet(Relay \cup Faulty)
  BY <1>1, Relays, FS_Union DEF OneMind, QueueInv, ABCTypeOK
<1>4. IsFiniteSet(crossVotes[<<i, v>>])
  BY <1>3, FS_Subset
<1>5. Cardinality(crossVotes[<<i, v>>]) >= CrossQuorum
  <2>1. /\ Cardinality(Relay) \in Nat /\ Cardinality(crossVotes[<<i, v>>]) \in Nat
        /\ Cardinality(Relay) <= Cardinality(crossVotes[<<i, v>>])
    BY <1>2, <1>4, FS_Subset, FS_CardinalityType DEF OneMind
  <2>2. CrossQuorum \in Int
    BY Groups, Relays DEF CrossQuorum, CrossSmallQuorum, GoDiv
  <2> QED
    BY <2>1, <2>2 DEF OneMind
<1>6. i \in order
  BY <1>1, <1>5 DEF Quiet, NothingLost, Enough
<1>7. DOMAIN crossABCMsgQueue = {}
  BY DEF Quiet
<1> QED
  BY <1>6, <1>7 DEF NothingLost, OrderKept

(***************************************************************************)
(* The queue of node 4: the properties                                     *)
(***************************************************************************)

\* Node 4 never queues a height that it proposed or has in the queue.
THEOREM QueueStaysFresh == ABCSpec => []QueueFresh
<1>1. QueueInv => QueueFresh
  BY DEF QueueInv
<1> QED
  BY <1>1, ABCInvariance, PTL

\* With up to t faulty nodes, of either group, what node 4 queues and proposes was relayed,
\* though the handlers share sourceMsg.
THEOREM ProposalsRelayed == ABCSpec => []InstanceRelayed
<1>1. QueueInv => InstanceRelayed
  BY DEF QueueInv, OrderRelayed, Relayers, InstanceRelayed
<1> QED
  BY <1>1, ABCInvariance, PTL

\* The same when the queue says what to propose, so with AddVersion = 0: a
\* certificate stands for the quorum of four nodes fewer than B has, or one vote
\* where that is none; that there is one certificate of a height does not need more.
THEOREM ABCCertificates == ABCSpec => [](CertifiedByQuorum /\ OneCertificate)
<1>1. HotStuffInv => CertifiedByQuorum /\ OneCertificate
  BY CertificatesSound
<1> QED
  BY <1>1, ABCInvariance, PTL

\* When group A is at work on one request, every follower has in the end delivered
\* all its instances but the first, with any number of nodes, instances and faulty
\* nodes up to t, and in every order of the handlers and of the deliveries.
THEOREM ABCDelivers ==
  ASSUME NEW v \in Value, OneMind(v)
  PROVE  ABCSpec => []AllDelivered
<1>1. ABCInit => NothingLost(v)
  BY LostInit
<1>2. HotStuffInv /\ FollowInv /\ QueueInv /\ NothingLost(v) /\ [ABCNext]_abcVars => NothingLost(v)'
  BY LostStep
<1>3. HotStuffInv /\ FollowInv /\ QueueInv /\ NothingLost(v) => AllDelivered
  <2> SUFFICES ASSUME HotStuffInv, FollowInv, QueueInv, NothingLost(v), Quiet,
                      NEW b \in Correct \ {Proposer}
               PROVE  deliveredHeight[b] >= NumReq[v] - 1
    BY DEF AllDelivered, OneMind
  <2>1. NumReq[v] \in Nat \ {0} /\ NumReq[v] - 1 \in Height
    BY ValueType
  <2>2. 1 .. (NumReq[v] - 1) \subseteq proposed
    BY <2>1, QuietProposed
  <2> QED
    BY <2>1, <2>2, FollowersSound DEF FollowersDeliver, Quiet
<1> QED
  BY <1>1, <1>2, <1>3, ABCInvariance, PTL DEF ABCSpec
=============================================================================
