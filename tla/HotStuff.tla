------------------------------ MODULE HotStuff ------------------------------
(***************************************************************************)
(* Mode CrossABC, the second half: node 4 proposes a block for every       *)
(* instance that the first half (module CrossABC) hands it, the nodes of   *)
(* group B vote for it, node 4 makes a certificate of a quorum of votes    *)
(* and puts it into the next proposal.  Every node delivers the heights it *)
(* has seen in their order, and commits blocks that certificates follow.   *)
(* Source: consensus/CrossABC.go in view 0, where the nodes stay: no timer *)
(* starts a view change.  LeaderID(0) is node 0, of group A, so Leader()   *)
(* is false on every node of group B.                                      *)
(*                                                                         *)
(* A message is handled by a goroutine, which may spawn a second one       *)
(* (ProcessQCInfo, ProcessQCInfoCheck), then stores the hash and delivers. *)
(* HandleQCByteMsg is one action, and so is each goroutine it spawns, but  *)
(* for ProcessQCInfo, which compares curBlock before it takes the lock to  *)
(* set it, and ProcessQCInfoCheck, which delivers without the lock: they   *)
(* are two.  A block stands for its hash: no two proposals of one height   *)
(* are made, and no node lies.  Variables that only later views or logs    *)
(* read (awaitingDecision, votedBlocks, crossABCStatus, Sequence) are left *)
(* out.                                                                    *)
(***************************************************************************)
EXTENDS QuorumSizes, FiniteSets

CONSTANTS
  NumA,        \* the size of group A
  B,           \* the nodes of group B
  Correct,     \* those of B that run this code and stay up; the rest is silent
  Proposer,    \* node 4
  Height,      \* the heights it may be asked to propose, in any order
  AddVersion   \* 0 if the first half of the mode is CROSS, 1 if it is ADD

ASSUME Groups ==
  /\ IsFiniteSet(B) /\ Correct \subseteq B /\ Proposer \in Correct
  /\ Height \subseteq Nat /\ Height # {} /\ IsFiniteSet(Height)
  /\ NumA \in Nat \ {0} /\ AddVersion \in {0, 1} /\ (AddVersion = 1 => NumA >= 4)

\* The number that the last StartQuorum of the mode takes for the size of group
\* B: InitHotStuff counts both groups; InitADD leaves it at that, but InitCROSS,
\* which comes after, counts only B, of which StartQuorum takes away 4 again.
SizeOfB ==
  IF AddVersion = 0 THEN GroupBByStartQuorum(Cardinality(B))
                    ELSE GroupBByStartQuorum(NumA + Cardinality(B))

\* The variants named ...Variant are mistakes the code could have made; runs
\* are repeated with them to show that the properties notice.  This one takes
\* one vote less for enough.
QuorumVariant == QuorumSize(SizeOfB) - 1
Quorum == QuorumSize(SizeOfB)

\* A certified block: its height, and whether PreHash and PrePreHash are set.
\* The genesis block is the zero value.
QCBlock == [height : Height, pre : BOOLEAN, prepre : BOOLEAN]
Genesis == [height |-> 0, pre |-> FALSE, prepre |-> FALSE]
Block == QCBlock \cup {Genesis}

Message == [type : {"QC"}, node : Correct, seq : Height, qc : Block]
             \cup [type : {"QCREP"}, node : Correct, seq : Height]

VARIABLES
  proposed,         \* the heights StartHotStuff was called with
  net,              \* the messages on their way; node is the one that gets a
                    \* QC, or that sent a QCREP
  votes,            \* quorum.certificate of node 4: the voters of each height
  prepared,         \* buffer of node 4: the heights marked PREPARED
  awaitingBlocks,   \* the heights whose hash a node keeps
  deliveredHeight,
  curBlock,         \* the last certified block a node knows
  lockedBlock,
  committedBlocks,  \* pairs of the key and the block stored under it
  infos,            \* the QC messages whose ProcessQCInfo has not begun
  adopting,         \* the blocks ProcessQCInfo found newer, and has yet to adopt
  checks,           \* the certificates whose ProcessQCInfoCheck has not begun
  jumping           \* the height ProcessQCInfoCheck has yet to mark delivered

voteVars    == <<votes, prepared>>
blockVars   == <<curBlock, lockedBlock, committedBlocks>>
deliverVars == <<awaitingBlocks, deliveredHeight>>
taskVars    == <<infos, adopting, checks, jumping>>
vars == <<proposed, net, voteVars, blockVars, deliverVars, taskVars>>

\* InitHotStuff
Init ==
  /\ proposed = {} /\ net = {}
  /\ votes = [h \in Height |-> {}] /\ prepared = {}
  /\ awaitingBlocks = [b \in Correct |-> {}]
  /\ deliveredHeight = [b \in Correct |-> 0]
  /\ curBlock = [b \in Correct |-> Genesis]
  /\ lockedBlock = [b \in Correct |-> Genesis]
  /\ committedBlocks = [b \in Correct |-> {}]
  /\ infos = [b \in Correct |-> {}]
  /\ adopting = [b \in Correct |-> {}]
  /\ checks = {} /\ jumping = {}

(***************************************************************************)
(* Delivery                                                                *)
(***************************************************************************)

\* The heights that the delivery loop goes through with the hashes kept: from
\* the next one up to the first gap.  One variant skips the gaps, the other delivers a
\* single height at each call.
InOrderVariant(b, kept) == {h \in kept : h > deliveredHeight[b]}
OnlyNextVariant(b, kept) == {deliveredHeight[b] + 1} \cap kept
InOrder(b, kept) ==
  {h \in kept : \A d \in (deliveredHeight[b] + 1) .. h : d \in kept /\ d > 0}
    \ 0 .. deliveredHeight[b]

DeliverInOrder(b, kept) ==
  LET now == InOrder(b, kept)
  IN
  /\ awaitingBlocks' = [awaitingBlocks EXCEPT ![b] = kept \ now]
  /\ deliveredHeight' = [deliveredHeight EXCEPT ![b] =
       IF now = {} THEN @ ELSE CHOOSE h \in now : \A d \in now : d <= h]

\* The end of HandleQCByteMsg, after either handler.
StoreAndDeliver(b, h) == DeliverInOrder(b, awaitingBlocks[b] \cup {h})

(***************************************************************************)
(* The proposer                                                            *)
(***************************************************************************)

\* FetchBlockInfo: no certificate goes with height 1, nor before there is one.
FetchBlockInfo(h) == IF h = 1 THEN Genesis ELSE curBlock[Proposer]

StartHotStuff(h) ==
  /\ h \notin proposed
  /\ proposed' = proposed \cup {h}
  /\ awaitingBlocks' = [awaitingBlocks EXCEPT ![Proposer] = @ \cup {h}]
  /\ net' = net \cup {[type |-> "QC", node |-> b, seq |-> h, qc |-> FetchBlockInfo(h)]
                        : b \in Correct}
  /\ UNCHANGED <<voteVars, blockVars, deliveredHeight, taskVars>>

\* A block is certified once.  The variant does not look.
PreparedVariant(h) == FALSE
Prepared(h) == h \in prepared

\* HandleNormalRepMsg, under bufferLock.  PreHash and PrePreHash are what
\* awaitingBlocks still has of the heights below.
Certificate(h) ==
  [height |-> h,
   pre    |-> h - 1 \in awaitingBlocks[Proposer],
   prepre |-> h - 2 \in awaitingBlocks[Proposer]]

\* quorum.Add: the voters of a block with the sender of m.
Add(m) == votes[m.seq] \cup {m.node}

HandleNormalRepMsg(m) ==
  LET h == m.seq
      voters == Add(m)
      enough == ~Prepared(h) /\ Cardinality(voters) >= Quorum
  IN
  /\ m.type = "QCREP" /\ m \in net
  /\ net' = net \ {m}
  /\ votes' = [votes EXCEPT ![h] = IF Prepared(h) THEN @ ELSE voters]
  /\ StoreAndDeliver(Proposer, h)
  /\ UNCHANGED <<proposed, lockedBlock, committedBlocks, infos, adopting, jumping>>
  /\ \/ /\ enough
        /\ prepared' = prepared \cup {h}
        /\ curBlock' = [curBlock EXCEPT ![Proposer] =
                          IF h > @.height THEN Certificate(h) ELSE @]
        /\ checks' = checks \cup {Certificate(h)}
     \/ /\ ~enough
        /\ UNCHANGED <<prepared, curBlock, checks>>

\* committedBlocks.Insert.  The variant forgets the blocks of other heights.
InsertVariant(blocks, h, block) == {<<h, block>>}
Insert(blocks, h, block) == {k \in blocks : k[1] # h} \cup {<<h, block>>}

\* ProcessQCInfoCheck files lockedBlock under the height of the certificate, at
\* height 2 even if there is nothing below, and delivers height 2 unlocked and
\* without looking at the order; it locks curBlock, but not for height 2.
FilesLocked(c) ==
  IF c.height = 2 THEN TRUE
  ELSE IF c.height = 3 THEN c.pre ELSE c.pre /\ c.prepre

Locks(c) == c.height = 3 \/ (c.height # 2 /\ c.pre)

ProcessQCInfoCheck(c) ==
  /\ c \in checks
  /\ checks' = checks \ {c}
  /\ committedBlocks' = [committedBlocks EXCEPT ![Proposer] =
       IF FilesLocked(c) THEN Insert(@, c.height, lockedBlock[Proposer]) ELSE @]
  /\ lockedBlock' = [lockedBlock EXCEPT ![Proposer] =
                       IF Locks(c) THEN curBlock[Proposer] ELSE @]
  /\ jumping' = IF c.height = 2 /\ deliveredHeight[Proposer] < 2
                  THEN jumping \cup {2} ELSE jumping
  /\ UNCHANGED <<proposed, net, voteVars, curBlock, deliverVars,
                 infos, adopting>>

Jump(h) ==
  /\ h \in jumping
  /\ jumping' = jumping \ {h}
  /\ deliveredHeight' = [deliveredHeight EXCEPT ![Proposer] = h]
  /\ UNCHANGED <<proposed, net, voteVars, blockVars, awaitingBlocks,
                 infos, adopting, checks>>

(***************************************************************************)
(* Every node of group B                                                   *)
(***************************************************************************)

\* HandleNormalMsg votes for the block, whatever VerifyBlock says of it.
HandleNormalMsg(m) ==
  /\ m.type = "QC" /\ m \in net
  /\ net' = (net \ {m}) \cup {[type |-> "QCREP", node |-> m.node, seq |-> m.seq]}
  /\ infos' = [infos EXCEPT ![m.node] = @ \cup {m}]
  /\ StoreAndDeliver(m.node, m.seq)
  /\ UNCHANGED <<proposed, voteVars, blockVars, adopting, checks, jumping>>

\* ProcessQCInfo delivers; a certificate with two blocks below it commits
\* lockedBlock, one with a block below it locks curBlock; then the certified
\* block is compared with curBlock ...
ProcessQCInfo(b, m) ==
  LET locked == lockedBlock[b]
  IN
  /\ m \in infos[b]
  /\ infos' = [infos EXCEPT ![b] = @ \ {m}]
  /\ DeliverInOrder(b, awaitingBlocks[b])
  /\ committedBlocks' = [committedBlocks EXCEPT ![b] =
       IF m.qc.pre /\ m.qc.prepre THEN Insert(@, locked.height, locked) ELSE @]
  /\ lockedBlock' = [lockedBlock EXCEPT ![b] = IF m.qc.pre THEN curBlock[b] ELSE @]
  /\ adopting' = [adopting EXCEPT ![b] =
       IF m.qc.height > curBlock[b].height THEN @ \cup {m.qc} ELSE @]
  /\ UNCHANGED <<proposed, net, voteVars, curBlock, checks, jumping>>

\* ... and takes its place, if it was higher then.
AdoptBlock(b, c) ==
  /\ c \in adopting[b]
  /\ adopting' = [adopting EXCEPT ![b] = @ \ {c}]
  /\ curBlock' = [curBlock EXCEPT ![b] = c]
  /\ UNCHANGED <<proposed, net, voteVars, lockedBlock, committedBlocks,
                 deliverVars, infos, checks, jumping>>

(***************************************************************************)
(* The specification                                                       *)
(***************************************************************************)

HandleQCByteMsg(m) == HandleNormalMsg(m) \/ HandleNormalRepMsg(m)

Goroutine(b) ==
  \/ \E m \in infos[b] : ProcessQCInfo(b, m)
  \/ \E c \in adopting[b] : AdoptBlock(b, c)

HotStuffNext ==
  \/ \E m \in net : HandleQCByteMsg(m)
  \/ \E b \in Correct : Goroutine(b)
  \/ \E c \in checks : ProcessQCInfoCheck(c)
  \/ \E h \in jumping : Jump(h)

Next == (\E h \in Height : StartHotStuff(h)) \/ HotStuffNext

Spec == Init /\ [][Next]_vars

(***************************************************************************)
(* Properties                                                              *)
(***************************************************************************)

\* Every variable has the type its declaration in the source says.
TypeOK ==
  /\ proposed \subseteq Height /\ net \subseteq Message
  /\ votes \in [Height -> SUBSET Correct] /\ prepared \subseteq Height
  /\ awaitingBlocks \in [Correct -> SUBSET Height]
  /\ deliveredHeight \in [Correct -> Nat]
  /\ curBlock \in [Correct -> Block] /\ lockedBlock \in [Correct -> Block]
  /\ committedBlocks \in [Correct -> SUBSET (Nat \X Block)]
  /\ infos \in [Correct -> SUBSET Message]
  /\ adopting \in [Correct -> SUBSET Block]
  /\ checks \subseteq Block /\ jumping \subseteq {2}

\* The nodes whose handler has voted for the block of height h.
Voters(h) ==
  {b \in Correct : h \in proposed /\ \A m \in net : m.type = "QC" => m.seq # h \/ m.node # b}

\* The blocks that node b holds as certified, in messages too.
Held(b) ==
  {curBlock[b], lockedBlock[b]} \cup {k[2] : k \in committedBlocks[b]}
    \cup {m.qc : m \in infos[b]} \cup adopting[b]
    \cup (IF b = Proposer THEN checks ELSE {})

\* The votes that a certificate stands for: a quorum of group B after InitADD;
\* after InitCROSS the quorum of four nodes fewer, which is one vote for up to 5
\* nodes and two for 7, where a quorum of group B is five.
VotesBehind ==
  IF AddVersion = 1 THEN QuorumSize(Cardinality(B)) ELSE QuorumSize(Cardinality(B) - 4)

\* A node holds a block as certified, locked or committed only when so many nodes
\* of group B have voted for it, and one in any case, in whatever order votes,
\* proposals and goroutines run.
CertifiedByQuorum ==
  \A b \in Correct : \A c \in Held(b) \ {Genesis} :
    /\ Voters(c.height) # {}
    /\ Cardinality(Voters(c.height)) >= VotesBehind

\* There is one certificate of a block: what nodes know of what is below it is
\* the same everywhere.
OneCertificate ==
  \A a, b \in Correct : \A c \in Held(a), d \in Held(b) : c.height = d.height => c = d

\* The nodes that only follow deliver no height before all below it, and none
\* that was not proposed.
FollowersInOrder ==
  \A b \in Correct \ {Proposer} : 1 .. deliveredHeight[b] \subseteq proposed

\* Nothing is on its way between the nodes, and no goroutine is at work.
Idle ==
  /\ net = {} /\ checks = {} /\ jumping = {}
  /\ \A b \in Correct : infos[b] = {} /\ adopting[b] = {}

\* Whatever the order in which the heights are proposed, each node that only
\* follows has in the end delivered them all, up to the first that never is:
\* no height is left behind a gap that has closed.
FollowersDeliver ==
  Idle => \A b \in Correct \ {Proposer}, h \in Height :
            (1 .. h) \subseteq proposed => deliveredHeight[b] >= h

\* The heights that node b has committed; no block is proposed below the genesis
\* block, whose height is 0.
Committed(b) == {k[2].height : k \in committedBlocks[b]} \ {0}

Followers == Correct \ {Proposer}

CH == INSTANCE Chain WITH
  Follower  <- Followers,
  certified <- prepared,
  committed <- [b \in Followers |-> Committed(b)],
  delivered <- [b \in Followers |-> deliveredHeight[b]]

\* HotStuff implements the abstract chain at the nodes that only follow: they
\* commit certified heights only, and take back neither a commit nor a delivery,
\* though ProcessQCInfo of different certificates run in any order.
ImplementsChain == CH!Spec
=============================================================================
