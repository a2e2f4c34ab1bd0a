---------------------------- MODULE Delta_proofs ----------------------------
(***************************************************************************)
(* Mode DeltaBA with any number of nodes, requests and instances.          *)
(***************************************************************************)
EXTENDS Delta, QuorumSizes_proofs

(***************************************************************************)
(* Types                                                                   *)
(***************************************************************************)

LEMMA InstanceOfValue ==
  ASSUME NEW v \in Value, NEW i \in 0 .. (NumReq[v] - 1)
  PROVE  i \in Instance
BY DEF Instance

LEMMA ForgedType == \A m \in Forged : m \in Message /\ m.from \in Faulty
BY Forgeries

\* What Transmit leaves in flight was in flight or is new.
LEMMA TransmitType ==
  ASSUME NEW b, NEW got, NEW new, new \subseteq Message,
         net \in [Correct -> SUBSET Message], Transmit(b, got, new)
  PROVE  /\ net' \in [Correct -> SUBSET Message]
         /\ \A c \in Correct : net'[c] \subseteq net[c] \cup new
BY DEF Transmit

LEMMA TypeInit == Init => TypeOK
<1> SUFFICES ASSUME Init PROVE TypeOK
  OBVIOUS
<1>1. /\ submitted \in [Relay -> SUBSET Request]
      /\ net \in [Correct -> SUBSET Message]
      /\ deltaProposeList \in [Correct -> SUBSET Instance]
      /\ deltaVoteList \in [Correct -> SUBSET Instance]
      /\ deltaTotalEpoch \in [Correct -> Nat]
  BY DEF Init
<1>2. votes \in [Correct -> [Instance \X Value -> SUBSET Node]]
  BY DEF Init
<1>3. voted \in [Correct -> [Instance -> Value \cup {None}]]
  BY DEF Init
<1>4. /\ sourceMsg \in [Correct -> Value \cup {None}]
      /\ proposing \in [Correct -> Instance \cup {None}]
      /\ voting \in [Correct -> Message \cup {None}]
      /\ reported \in [Correct -> BOOLEAN]
  BY DEF Init
<1> QED
  BY <1>1, <1>2, <1>3, <1>4 DEF TypeOK

LEMMA ProposeType ==
  ASSUME TypeOK, NEW r \in Relay, NEW v \in Request, SendDeltaPropose(r, v)
  PROVE  /\ TypeOK'
         /\ \A c \in Correct : \A m \in net'[c] : m \in net[c] \/ m.type = "PROPOSE"
<1> DEFINE new == {Msg("PROPOSE", r, i, v) : i \in 0 .. (NumReq[v] - 1)}
<1>1. r \in Correct /\ r \in Node /\ v \in Value /\ NumReq[v] \in Nat
  BY Groups
<1>2. \A i \in 0 .. (NumReq[v] - 1) :
        Msg("PROPOSE", r, i, v) \in Message /\ Msg("PROPOSE", r, i, v).type = "PROPOSE"
  BY <1>1, InstanceOfValue DEF Msg, Message
<1>3. new \subseteq Message /\ \A m \in new : m.type = "PROPOSE"
  BY <1>2
<1>4. Transmit(None, {}, new)
  BY DEF SendDeltaPropose
<1> HIDE DEF new
<1>5. /\ net' \in [Correct -> SUBSET Message]
      /\ \A c \in Correct : net'[c] \subseteq net[c] \cup new
  BY <1>3, <1>4, TransmitType DEF TypeOK
<1>6. submitted' \in [Relay -> SUBSET Request] /\ deltaTotalEpoch' \in [Correct -> Nat]
  BY <1>1 DEF SendDeltaPropose, TypeOK
<1> QED
  BY <1>3, <1>5, <1>6 DEF SendDeltaPropose, TypeOK, voteVars, proposeVars

LEMMA HandleProposeType ==
  ASSUME TypeOK, NEW b \in Correct, NEW m \in Message, HandleDeltaPropose(b, m)
  PROVE  /\ TypeOK'
         /\ \A c \in Correct : net'[c] \subseteq net[c]
<1>1. /\ m.inst \in Instance /\ m.val \in Value /\ NumReq[m.val] \in Nat
  BY Groups DEF Message
<1>2. Transmit(b, {m}, {})
  BY DEF HandleDeltaPropose
<1>3. net' \in [Correct -> SUBSET Message] /\ \A c \in Correct : net'[c] \subseteq net[c]
  BY <1>2, TransmitType DEF TypeOK
<1>4. /\ deltaProposeList' \in [Correct -> SUBSET Instance]
      /\ sourceMsg' \in [Correct -> Value \cup {None}]
      /\ deltaTotalEpoch' \in [Correct -> Nat]
      /\ proposing' \in [Correct -> Instance \cup {None}]
  BY <1>1 DEF HandleDeltaPropose, TypeOK
<1> QED
  BY <1>3, <1>4 DEF HandleDeltaPropose, TypeOK, voteVars

LEMMA HandleVoteType ==
  ASSUME TypeOK, NEW b \in Correct, NEW m \in Message, HandleDeltaVote(b, m)
  PROVE  /\ TypeOK'
         /\ \A c \in Correct : net'[c] \subseteq net[c]
<1>1. m.val \in Value
  BY DEF Message
<1>2. Transmit(b, {m}, {})
  BY DEF HandleDeltaVote
<1>3. net' \in [Correct -> SUBSET Message] /\ \A c \in Correct : net'[c] \subseteq net[c]
  BY <1>2, TransmitType DEF TypeOK
<1>4. /\ voting' \in [Correct -> Message \cup {None}]
      /\ sourceMsg' \in [Correct -> Value \cup {None}]
  BY <1>1 DEF HandleDeltaVote, TypeOK
<1> QED
  BY <1>3, <1>4 DEF HandleDeltaVote, TypeOK, proposeVars

(***************************************************************************)
(* Votes                                                                   *)
(***************************************************************************)

\* A handler at work has set sourceMsg.
SourceSet ==
  \A b \in Correct : proposing[b] # None \/ voting[b] # None => sourceMsg[b] \in Value

\* The nodes that may have a vote counted in instance i.
MayHaveVoted(i) == {c \in Correct : voted[c][i] # None} \cup Forgers

\* A vote in flight, being handled, or counted is that of a node that has voted
\* in the instance, or of a faulty one.
VotesCast ==
  \A b \in Correct :
    /\ \A m \in net[b] : m.type = "VOTE" => m.from \in MayHaveVoted(m.inst)
    /\ voting[b] # None => voting[b].from \in MayHaveVoted(voting[b].inst)
    /\ \A i \in Instance, v \in Value : votes[b][<<i, v>>] \subseteq MayHaveVoted(i)

Inv == TypeOK /\ SourceSet /\ VotesCast /\ InstanceVoted

LEMMA MayHaveVotedType ==
  ASSUME NEW i \in Instance
  PROVE  MayHaveVoted(i) \subseteq Node /\ IsFiniteSet(MayHaveVoted(i))
<1>1. MayHaveVoted(i) \subseteq Node
  BY ForgedType, Groups DEF MayHaveVoted, Forgers, Message
<1> QED
  BY <1>1, Groups, FS_Subset

LEMMA VotesKept ==
  ASSUME Inv, TypeOK', UNCHANGED <<voted, votes, voting, deltaVoteList>>,
         \A c \in Correct : \A m \in net'[c] : m \in net[c] \/ m.type # "VOTE"
  PROVE  VotesCast' /\ InstanceVoted'
<1>1. \A i : MayHaveVoted(i)' = MayHaveVoted(i)
  BY DEF MayHaveVoted
<1>2. VotesCast'
  BY <1>1 DEF Inv, VotesCast
<1>3. InstanceVoted'
  BY DEF Inv, InstanceVoted
<1> QED
  BY <1>2, <1>3

LEMMA InvInit == Init => Inv
<1> SUFFICES ASSUME Init PROVE Inv
  OBVIOUS
<1>1. TypeOK
  BY TypeInit
<1>2. SourceSet /\ InstanceVoted
  BY DEF Init, SourceSet, InstanceVoted
<1>3. VotesCast
  BY DEF Init, VotesCast
<1> QED
  BY <1>1, <1>2, <1>3 DEF Inv

LEMMA ProposeInv ==
  ASSUME Inv, NEW r \in Relay, NEW v \in Request, SendDeltaPropose(r, v)
  PROVE  Inv'
<1>1. /\ TypeOK'
      /\ \A c \in Correct : \A m \in net'[c] : m \in net[c] \/ m.type # "VOTE"
  BY ProposeType DEF Inv
<1>2. UNCHANGED <<voted, votes, voting, deltaVoteList, proposing, sourceMsg>>
  BY DEF SendDeltaPropose, voteVars, proposeVars
<1>3. SourceSet'
  BY <1>2 DEF Inv, SourceSet
<1> QED
  BY <1>1, <1>2, <1>3, VotesKept DEF Inv

LEMMA HandleProposeInv ==
  ASSUME Inv, NEW b \in Correct, NEW m \in Message, HandleDeltaPropose(b, m)
  PROVE  Inv'
<1>1. TypeOK' /\ \A c \in Correct : net'[c] \subseteq net[c]
  BY HandleProposeType DEF Inv
<1>2. UNCHANGED <<voted, votes, voting, deltaVoteList>>
  BY DEF HandleDeltaPropose, voteVars
<1>3. SourceSet'
  BY <1>2 DEF HandleDeltaPropose, Inv, SourceSet, TypeOK, Message
<1> QED
  BY <1>1, <1>2, <1>3, VotesKept DEF Inv

\* A vote that a node receives is one in flight or one that is made up.
LEMMA HandleVoteInv ==
  ASSUME Inv, NEW b \in Correct, NEW m \in Message, HandleDeltaVote(b, m)
  PROVE  Inv'
<1>1. TypeOK' /\ \A c \in Correct : net'[c] \subseteq net[c]
  BY HandleVoteType DEF Inv
<1>2. UNCHANGED <<voted, votes, deltaVoteList, proposing>>
  BY DEF HandleDeltaVote, proposeVars
<1>3. SourceSet'
  BY <1>2 DEF HandleDeltaVote, Inv, SourceSet, TypeOK, Message
<1>4. \A i : MayHaveVoted(i)' = MayHaveVoted(i)
  BY <1>2 DEF MayHaveVoted
<1>5. m.from \in MayHaveVoted(m.inst)
  BY DEF HandleDeltaVote, Receivable, Inv, VotesCast, MayHaveVoted, Forgers
<1>6. \A c \in Correct : voting'[c] = IF c = b THEN m ELSE voting[c]
  BY DEF HandleDeltaVote, Inv, TypeOK
<1>7. VotesCast'
  BY <1>1, <1>2, <1>4, <1>5, <1>6 DEF Inv, VotesCast
<1>8. InstanceVoted'
  BY <1>2 DEF Inv, InstanceVoted
<1> QED
  BY <1>1, <1>3, <1>7, <1>8 DEF Inv

\* A node that votes is added to those that may have voted.
LEMMA SendVoteInv ==
  ASSUME Inv, NEW b \in Correct, SendDeltaVote(b)
  PROVE  Inv'
<1>0. PICK i \in Instance, v \in Value : i = proposing[b] /\ v = sourceMsg[b]
  BY DEF SendDeltaVote, Inv, TypeOK, SourceSet
<1>1. v # None /\ b \in Node
  BY Groups
<1>2. Transmit(b, {}, {Msg("VOTE", b, i, v)})
  BY <1>0 DEF SendDeltaVote
<1>3. /\ {Msg("VOTE", b, i, v)} \subseteq Message
      /\ Msg("VOTE", b, i, v).from = b /\ Msg("VOTE", b, i, v).inst = i
  BY <1>1 DEF Msg, Message
<1>4. /\ net' \in [Correct -> SUBSET Message]
      /\ \A c \in Correct : net'[c] \subseteq net[c] \cup {Msg("VOTE", b, i, v)}
  BY <1>2, <1>3, TransmitType DEF Inv, TypeOK
<1>5. \A c \in Correct, j \in Instance :
        voted'[c][j] = IF c = b /\ j = i THEN v ELSE voted[c][j]
  BY <1>0 DEF SendDeltaVote, Inv, TypeOK
<1>6. TypeOK'
  <2>1. voted' \in [Correct -> [Instance -> Value \cup {None}]]
    BY <1>0 DEF SendDeltaVote, Inv, TypeOK
  <2>2. proposing' \in [Correct -> Instance \cup {None}]
    BY DEF SendDeltaVote, Inv, TypeOK
  <2> QED
    BY <1>4, <2>1, <2>2 DEF SendDeltaVote, Inv, TypeOK, voteVars
<1>7. UNCHANGED <<votes, voting, deltaVoteList, sourceMsg>>
  BY DEF SendDeltaVote, voteVars
<1>8. SourceSet'
  BY <1>7 DEF SendDeltaVote, Inv, SourceSet, TypeOK
<1>9. \A j \in Instance : MayHaveVoted(j) \subseteq MayHaveVoted(j)'
  BY <1>1, <1>5 DEF MayHaveVoted
<1>10. b \in MayHaveVoted(i)'
  BY <1>1, <1>5 DEF MayHaveVoted
<1>11. VotesCast'
  <2>1. \A c \in Correct : \A m \in net'[c] : m.type = "VOTE" => m.from \in MayHaveVoted(m.inst)'
    <3> SUFFICES ASSUME NEW c \in Correct, NEW m \in net'[c], m.type = "VOTE"
                 PROVE  m.from \in MayHaveVoted(m.inst)'
      OBVIOUS
    <3>1. CASE m \in net[c]
      <4>1. m.inst \in Instance /\ m.from \in MayHaveVoted(m.inst)
        BY <3>1 DEF Inv, TypeOK, VotesCast, Message
      <4> QED
        BY <4>1, <1>9
    <3>2. CASE m = Msg("VOTE", b, i, v)
      BY <1>3, <1>10, <3>2
    <3> QED
      BY <1>4, <3>1, <3>2
  <2>2. \A c \in Correct : voting[c] # None => voting[c].inst \in Instance
    BY DEF Inv, TypeOK, Message
  <2> QED
    BY <1>7, <1>9, <2>1, <2>2 DEF Inv, VotesCast
<1>12. InstanceVoted'
  <2> SUFFICES ASSUME NEW c \in Correct, NEW j \in Instance, j \in deltaVoteList'[c]
               PROVE  Cardinality(MayHaveVoted(j)') >= SQuorumSize(Cardinality(Node))
    BY DEF InstanceVoted, MayHaveVoted
  <2>1. Cardinality(MayHaveVoted(j)) >= SQuorumSize(Cardinality(Node))
    BY <1>7 DEF Inv, InstanceVoted, MayHaveVoted
  <2>2. IsFiniteSet(MayHaveVoted(j)') /\ IsFiniteSet(MayHaveVoted(j))
    <3>1. MayHaveVoted(j)' \subseteq Node
      BY ForgedType, Groups DEF MayHaveVoted, Forgers, Message
    <3> QED
      BY <3>1, Groups, FS_Subset, MayHaveVotedType
  <2>3. /\ Cardinality(MayHaveVoted(j)) <= Cardinality(MayHaveVoted(j)')
        /\ Cardinality(MayHaveVoted(j)) \in Int /\ Cardinality(MayHaveVoted(j)') \in Int
    BY <1>9, <2>2, FS_Subset, FS_CardinalityType
  <2>4. SQuorumSize(Cardinality(Node)) \in Int
    BY Groups, FS_CardinalityType DEF SQuorumSize, FSize, GoDiv
  <2> QED
    BY <2>1, <2>3, <2>4
<1> QED
  BY <1>6, <1>8, <1>11, <1>12 DEF Inv

\* The vote is counted for whatever sourceMsg is: the instance is that of the
\* message all the same, and so are those who may have voted in it.
LEMMA CountVoteInv ==
  ASSUME Inv, NEW b \in Correct, CountVote(b)
  PROVE  Inv'
<1> DEFINE m == voting[b]
           v == sourceMsg[b]
           senders == votes[b][<<m.inst, v>>] \cup {m.from}
<1>1. m \in Message /\ m.inst \in Instance /\ m.from \in Node /\ v \in Value
  BY DEF CountVote, Inv, TypeOK, SourceSet, Message
<1>2. Transmit(b, {}, {})
  BY DEF CountVote
<1>3. net' \in [Correct -> SUBSET Message] /\ \A c \in Correct : net'[c] \subseteq net[c]
  BY <1>2, TransmitType DEF Inv, TypeOK
<1>4. senders \subseteq MayHaveVoted(m.inst)
  BY <1>1 DEF CountVote, Inv, VotesCast
<1>5. /\ votes' = [votes EXCEPT ![b][<<m.inst, v>>] = senders]
      /\ voting' = [voting EXCEPT ![b] = None]
      /\ UNCHANGED <<submitted, deltaProposeList, voted, proposing, deltaTotalEpoch, sourceMsg>>
  BY DEF CountVote, proposeVars
<1>6. \A c \in Correct, i \in Instance, w \in Value :
        votes'[c][<<i, w>>] = IF c = b /\ <<i, w>> = <<m.inst, v>>
                                THEN senders ELSE votes[c][<<i, w>>]
  BY <1>1, <1>5 DEF Inv, TypeOK
<1>7. \/ deltaVoteList' = deltaVoteList
      \/ /\ Cardinality(senders) >= SmallQuorum
         /\ deltaVoteList' = [deltaVoteList EXCEPT ![b] = @ \cup {m.inst}]
  BY DEF CountVote
<1>8. TypeOK'
  <2>1. senders \in SUBSET Node
    BY <1>1, <1>4, MayHaveVotedType
  <2>2. votes' \in [Correct -> [Instance \X Value -> SUBSET Node]]
    BY <1>1, <1>5, <2>1 DEF Inv, TypeOK
  <2>3. voting' \in [Correct -> Message \cup {None}]
    BY <1>5 DEF Inv, TypeOK
  <2>4. deltaVoteList' \in [Correct -> SUBSET Instance]
    BY <1>1, <1>7 DEF Inv, TypeOK
  <2>5. reported' \in [Correct -> BOOLEAN]
    BY DEF CountVote, Inv, TypeOK
  <2> QED
    BY <1>3, <1>5, <2>2, <2>3, <2>4, <2>5 DEF Inv, TypeOK
<1>9. SourceSet'
  BY <1>5 DEF Inv, SourceSet, TypeOK
<1>10. \A i : MayHaveVoted(i)' = MayHaveVoted(i)
  BY <1>5 DEF MayHaveVoted
<1>11. VotesCast'
  <2>1. \A c \in Correct, i \in Instance, w \in Value :
          votes'[c][<<i, w>>] \subseteq MayHaveVoted(i)
    <3> SUFFICES ASSUME NEW c \in Correct, NEW i \in Instance, NEW w \in Value
                 PROVE  votes'[c][<<i, w>>] \subseteq MayHaveVoted(i)
      OBVIOUS
    <3>1. CASE c = b /\ i = m.inst /\ w = v
      BY <1>4, <1>6, <3>1
    <3>2. CASE ~(c = b /\ i = m.inst /\ w = v)
      BY <1>6, <3>2 DEF Inv, VotesCast
    <3> QED
      BY <3>1, <3>2
  <2>2. \A c \in Correct : voting'[c] = IF c = b THEN None ELSE voting[c]
    BY <1>5 DEF Inv, TypeOK
  <2> QED
    BY <1>3, <1>10, <2>1, <2>2 DEF Inv, VotesCast
<1>12. InstanceVoted'
  <2> SUFFICES ASSUME NEW c \in Correct, NEW i \in Instance, i \in deltaVoteList'[c]
               PROVE  Cardinality(MayHaveVoted(i)) >= SQuorumSize(Cardinality(Node))
    BY <1>10 DEF InstanceVoted, MayHaveVoted
  <2>1. CASE i \in deltaVoteList[c]
    BY <2>1 DEF Inv, InstanceVoted, MayHaveVoted
  <2>2. CASE i \notin deltaVoteList[c]
    <3>1. i = m.inst /\ Cardinality(senders) >= SmallQuorum
      <4>1. deltaVoteList' # deltaVoteList
        BY <2>2
      <4>2. deltaVoteList' = [deltaVoteList EXCEPT ![b] = @ \cup {m.inst}]
        BY <1>7, <4>1
      <4> QED
        BY <1>7, <2>2, <4>1, <4>2 DEF Inv, TypeOK
    <3>2. Cardinality(senders) <= Cardinality(MayHaveVoted(i))
      BY <1>4, <3>1, MayHaveVotedType, FS_Subset
    <3>3. Cardinality(senders) \in Nat /\ Cardinality(MayHaveVoted(i)) \in Nat
      BY <1>4, <3>1, MayHaveVotedType, FS_Subset, FS_CardinalityType
    <3>4. SmallQuorum \in Int
      BY Groups, FS_CardinalityType DEF SmallQuorum, SQuorumSize, FSize, GoDiv
    <3> QED
      BY <3>1, <3>2, <3>3, <3>4 DEF SmallQuorum
  <2> QED
    BY <2>1, <2>2
<1> QED
  BY <1>8, <1>9, <1>11, <1>12 DEF Inv

LEMMA InvStep == Inv /\ [Next]_vars => Inv'
<1> SUFFICES ASSUME Inv, [Next]_vars PROVE Inv'
  OBVIOUS
<1>1. CASE UNCHANGED vars
  BY <1>1 DEF vars, voteVars, proposeVars, Inv, TypeOK, SourceSet, VotesCast, MayHaveVoted,
              InstanceVoted
<1> QED
  BY <1>1, ProposeInv, HandleProposeInv, HandleVoteInv, SendVoteInv, CountVoteInv
  DEF Next, HandleDeltaMsg

\* Every variable has its type in every reachable state, for any number of nodes,
\* requests and made-up messages.
THEOREM DeltaTypes == Spec => []TypeOK
<1>1. Inv => TypeOK
  BY DEF Inv
<1> QED
  BY <1>1, InvInit, InvStep, PTL DEF Spec

\* A node counts an instance only when f + 1 of all nodes voted in it or may have
\* made up a vote: for any number of nodes, and whatever payload a vote is counted
\* for when handlers share sourceMsg.
THEOREM CountedInstancesVoted == Spec => []InstanceVoted
<1>1. Inv => InstanceVoted
  BY DEF Inv
<1> QED
  BY <1>1, InvInit, InvStep, PTL DEF Spec

(***************************************************************************)
(* Nothing is lost: every instance proposed is counted                     *)
(***************************************************************************)

\* The payloads that any node can be sent.
Played == Request \cup {m.val : m \in Forged}

\* The nodes that voted for w in instance i, as node b has counted them.
Ballots(b, i, w) == votes[b][<<i, w>>]

\* Every payload in flight or being worked on was submitted or made up.
PlayedOnly ==
  \A b \in Correct :
    /\ \A m \in net[b] : m.val \in Played
    /\ sourceMsg[b] # None => sourceMsg[b] \in Played

\* An instance that a relay proposed is on its way to every node, or was handled.
ProposalKept ==
  \A r \in Relay, v \in Request, i \in Instance, b \in Correct :
    v \in submitted[r] /\ i < NumReq[v] =>
      Msg("PROPOSE", r, i, v) \in net[b] \/ i \in deltaProposeList[b]

\* A node votes in every instance it has handled a proposal of.
ProposalVoted ==
  \A b \in Correct, i \in Instance :
    i \in deltaProposeList[b] => proposing[b] = i \/ voted[b][i] # None

\* The vote of c in instance i, as node b sees it: on its way, being handled,
\* counted for some payload, or no longer needed.
VoteSeen(b, c, i) ==
  \/ \E w \in Value : Msg("VOTE", c, i, w) \in net[b]
  \/ voting[b] # None /\ voting[b].from = c /\ voting[b].inst = i
  \/ \E w \in Played : c \in Ballots(b, i, w)
  \/ i \in deltaVoteList[b]

VoteKept ==
  \A b, c \in Correct, i \in Instance : voted[c][i] # None => VoteSeen(b, c, i)

\* f + 1 votes for one payload are enough to count the instance.
EnoughCounted ==
  \A b \in Correct, i \in Instance, w \in Value :
    Cardinality(Ballots(b, i, w)) >= SmallQuorum => i \in deltaVoteList[b]

KeptInv ==
  PlayedOnly /\ ProposalKept /\ ProposalVoted /\ VoteKept /\ EnoughCounted

LEMMA PlayedType == Played \subseteq Value
<1>1. \A m \in Forged : m.val \in Value
  BY ForgedType DEF Message
<1> QED
  BY <1>1, Groups DEF Played

\* A message stays in flight until it is received or ignored.
LEMMA TransmitKeeps ==
  ASSUME NEW b, NEW got, NEW new, Transmit(b, got, new), NEW c \in Correct,
         NEW m \in net[c] \cup new, ~Ignored(c, m)',
         c = b => m \notin got \/ m \in new
  PROVE  m \in net'[c]
BY DEF Transmit

LEMMA SmallQuorumType ==
  ASSUME Relay # {}
  PROVE  SmallQuorum \in Nat \ {0} /\ SmallQuorum = FSize(Cardinality(Node)) + 1
         /\ FSize(Cardinality(Node)) \in Nat
<1>1. Node # {} /\ IsFiniteSet(Node)
  BY Groups
<1>2. Cardinality(Node) \in Nat \ {0}
  BY <1>1, FS_EmptySet, FS_CardinalityType
<1> QED
  BY <1>2, FSizeBound DEF SmallQuorum, SQuorumSize

LEMMA KeptInit ==
  ASSUME Init, Relay # {}
  PROVE  KeptInv
<1>1. PlayedOnly /\ ProposalKept /\ ProposalVoted
  BY DEF Init, PlayedOnly, ProposalKept, ProposalVoted
<1>2. VoteKept
  BY DEF Init, VoteKept
<1>3. EnoughCounted
  <2> SUFFICES ASSUME NEW b \in Correct, NEW i \in Instance, NEW w \in Value
               PROVE  ~(Cardinality(Ballots(b, i, w)) >= SmallQuorum)
    BY DEF EnoughCounted
  <2>1. Ballots(b, i, w) = {}
    BY DEF Init, Ballots
  <2> QED
    BY <2>1, FS_EmptySet, SmallQuorumType
<1> QED
  BY <1>1, <1>2, <1>3 DEF KeptInv

\* What a step that leaves the votes alone has to show.
LEMMA VotesUntouched ==
  ASSUME KeptInv, TypeOK, UNCHANGED <<votes, deltaVoteList, voted, voting>>,
         NEW b, NEW got, NEW new, Transmit(b, got, new),
         \A m \in got : m.type # "VOTE"
  PROVE  VoteKept' /\ EnoughCounted'
<1>1. \A c \in Correct, i \in Instance, w \in Value :
        Ballots(c, i, w)' = Ballots(c, i, w)
  BY DEF Ballots
<1>2. EnoughCounted'
  BY <1>1 DEF KeptInv, EnoughCounted
<1>3. VoteKept'
  <2> SUFFICES ASSUME NEW a \in Correct, NEW c \in Correct, NEW i \in Instance,
                      voted[c][i] # None
               PROVE  VoteSeen(a, c, i)'
    BY DEF VoteKept
  <2>1. VoteSeen(a, c, i)
    BY DEF KeptInv, VoteKept
  <2>2. ASSUME NEW w \in Value, Msg("VOTE", c, i, w) \in net[a]
        PROVE  VoteSeen(a, c, i)'
    <3>1. CASE i \in deltaVoteList[a]
      BY <3>1 DEF VoteSeen
    <3>2. CASE i \notin deltaVoteList[a]
      <4>1. ~Ignored(a, Msg("VOTE", c, i, w))'
        BY <3>2 DEF Ignored, Msg
      <4>2. Msg("VOTE", c, i, w) \notin got
        BY DEF Msg
      <4>3. Msg("VOTE", c, i, w) \in net'[a]
        BY <2>2, <4>1, <4>2, TransmitKeeps
      <4> QED
        BY <4>3 DEF VoteSeen
    <3> QED
      BY <3>1, <3>2
  <2>3. ASSUME NEW w \in Played, c \in Ballots(a, i, w)
        PROVE  VoteSeen(a, c, i)'
    BY <2>3, PlayedType DEF VoteSeen, Ballots
  <2> QED
    BY <2>1, <2>2, <2>3 DEF VoteSeen
<1> QED
  BY <1>2, <1>3

\* What a step that leaves the proposals alone has to show.
LEMMA ProposalsUntouched ==
  ASSUME KeptInv, Inv, UNCHANGED <<submitted, deltaProposeList>>,
         NEW b, NEW got, NEW new, Transmit(b, got, new),
         \A m \in got : m.type # "PROPOSE"
  PROVE  ProposalKept'
<1> SUFFICES ASSUME NEW r \in Relay, NEW v \in Request, NEW i \in Instance,
                    NEW c \in Correct, v \in submitted[r], i < NumReq[v],
                    i \notin deltaProposeList[c]
             PROVE  Msg("PROPOSE", r, i, v) \in net'[c]
  BY DEF ProposalKept
<1>1. Msg("PROPOSE", r, i, v) \in net[c]
  BY DEF KeptInv, ProposalKept
<1>2. ~Ignored(c, Msg("PROPOSE", r, i, v))'
  BY DEF Ignored, Handled, Msg
<1>3. Msg("PROPOSE", r, i, v) \notin got
  BY DEF Msg
<1> QED
  BY <1>1, <1>2, <1>3, TransmitKeeps

LEMMA ReceivablePlayed ==
  ASSUME PlayedOnly, NEW b \in Correct, NEW m \in Message, Receivable(b, m)
  PROVE  m.val \in Played
BY DEF PlayedOnly, Receivable, Played

LEMMA ProposeKept ==
  ASSUME KeptInv, Inv, NEW r \in Relay, NEW v \in Request, SendDeltaPropose(r, v)
  PROVE  KeptInv'
<1> DEFINE new == {Msg("PROPOSE", r, i, v) : i \in 0 .. (NumReq[v] - 1)}
<1>1. Transmit(None, {}, new)
  BY DEF SendDeltaPropose
<1>2. UNCHANGED <<votes, deltaVoteList, voted, voting, proposing, deltaProposeList, sourceMsg>>
  BY DEF SendDeltaPropose, voteVars, proposeVars
<1>3. VoteKept' /\ EnoughCounted'
  <2> HIDE DEF new
  <2> QED
    BY <1>1, <1>2, VotesUntouched DEF Inv
<1>4. PlayedOnly'
  <2>1. \A m \in new : m.val \in Played
    BY DEF Msg, Played
  <2> HIDE DEF new
  <2>2. \A c \in Correct : net'[c] \subseteq net[c] \cup new
    BY <1>1 DEF Transmit
  <2> QED
    BY <1>2, <2>1, <2>2 DEF KeptInv, PlayedOnly
<1>5. ProposalVoted'
  BY <1>2 DEF KeptInv, ProposalVoted
<1>6. ProposalKept'
  <2> SUFFICES ASSUME NEW q \in Relay, NEW u \in Request, NEW i \in Instance,
                      NEW c \in Correct, u \in submitted'[q], i < NumReq[u],
                      i \notin deltaProposeList[c]
               PROVE  Msg("PROPOSE", q, i, u) \in net'[c]
    BY <1>2 DEF ProposalKept
  <2>1. Msg("PROPOSE", q, i, u) \in net[c] \cup new
    <3>1. CASE u \in submitted[q]
      BY <3>1 DEF KeptInv, ProposalKept
    <3>2. CASE u \notin submitted[q]
      <4>1. u = v /\ q = r
        BY <3>2 DEF SendDeltaPropose, Inv, TypeOK
      <4>2. i \in Nat /\ NumReq[v] \in Nat
        BY Groups DEF Instance
      <4>3. i \in 0 .. (NumReq[v] - 1)
        BY <4>1, <4>2
      <4> QED
        BY <4>1, <4>3
    <3> QED
      BY <3>1, <3>2
  <2>2. ~Ignored(c, Msg("PROPOSE", q, i, u))'
    BY <1>2 DEF Ignored, Handled, Msg
  <2> HIDE DEF new
  <2> QED
    BY <1>1, <2>1, <2>2, TransmitKeeps
<1> QED
  BY <1>3, <1>4, <1>5, <1>6 DEF KeptInv

LEMMA HandleProposeKept ==
  ASSUME KeptInv, Inv, NEW b \in Correct, NEW m \in Message, HandleDeltaPropose(b, m)
  PROVE  KeptInv'
<1>1. Transmit(b, {m}, {}) /\ m.type = "PROPOSE" /\ m.inst \in Instance
  BY DEF HandleDeltaPropose, Message
<1>2. UNCHANGED <<submitted, votes, deltaVoteList, voted, voting>>
  BY DEF HandleDeltaPropose, voteVars
<1>3. VoteKept' /\ EnoughCounted'
  BY <1>1, <1>2, VotesUntouched DEF Inv
<1>4. /\ \A c \in Correct : deltaProposeList'[c] =
           IF c = b THEN deltaProposeList[c] \cup {m.inst} ELSE deltaProposeList[c]
      /\ \A c \in Correct : proposing'[c] = IF c = b THEN m.inst ELSE proposing[c]
      /\ \A c \in Correct : sourceMsg'[c] = IF c = b THEN m.val ELSE sourceMsg[c]
      /\ proposing[b] = None
  BY DEF HandleDeltaPropose, Inv, TypeOK
<1>5. PlayedOnly'
  <2>1. m.val \in Played
    BY ReceivablePlayed DEF HandleDeltaPropose, KeptInv
  <2>2. \A c \in Correct : net'[c] \subseteq net[c]
    BY <1>1 DEF Transmit
  <2> QED
    BY <1>4, <2>1, <2>2 DEF KeptInv, PlayedOnly
<1>6. ProposalVoted'
  <2> SUFFICES ASSUME NEW c \in Correct, NEW i \in Instance, i \in deltaProposeList'[c],
                      voted[c][i] = None
               PROVE  proposing'[c] = i
    BY <1>2 DEF ProposalVoted
  <2>1. CASE c = b /\ i = m.inst
    BY <1>4, <2>1
  <2>2. CASE ~(c = b /\ i = m.inst)
    <3>1. proposing[c] = i
      BY <1>4, <2>2 DEF KeptInv, ProposalVoted
    <3>2. i # None
      BY Forgeries
    <3> QED
      BY <1>4, <3>1, <3>2
  <2> QED
    BY <2>1, <2>2
<1>7. ProposalKept'
  <2> SUFFICES ASSUME NEW r \in Relay, NEW v \in Request, NEW i \in Instance,
                      NEW c \in Correct, v \in submitted[r], i < NumReq[v],
                      i \notin deltaProposeList'[c]
               PROVE  Msg("PROPOSE", r, i, v) \in net'[c]
    BY <1>2 DEF ProposalKept
  <2>1. i \notin deltaProposeList[c] /\ ~(c = b /\ i = m.inst)
    BY <1>4
  <2>2. Msg("PROPOSE", r, i, v) \in net[c]
    BY <2>1 DEF KeptInv, ProposalKept
  <2>3. ~Ignored(c, Msg("PROPOSE", r, i, v))'
    BY DEF Ignored, Handled, Msg
  <2>4. c = b => Msg("PROPOSE", r, i, v) # m
    BY <2>1 DEF Msg
  <2> QED
    BY <1>1, <2>2, <2>3, <2>4, TransmitKeeps
<1> QED
  BY <1>3, <1>5, <1>6, <1>7 DEF KeptInv

\* The vote that a node sends is on its way to every node.
LEMMA SendVoteKept ==
  ASSUME KeptInv, Inv, NEW b \in Correct, SendDeltaVote(b)
  PROVE  KeptInv'
<1>0. PICK i \in Instance, v \in Played : i = proposing[b] /\ v = sourceMsg[b]
  BY Groups DEF SendDeltaVote, Inv, TypeOK, SourceSet, KeptInv, PlayedOnly
<1>1. v \in Value /\ v # None
  BY PlayedType, Groups
<1> DEFINE new == {Msg("VOTE", b, i, v)}
<1>2. Transmit(b, {}, new)
  BY <1>0 DEF SendDeltaVote
<1>3. UNCHANGED <<submitted, votes, deltaVoteList, voting, deltaProposeList, sourceMsg>>
  BY DEF SendDeltaVote, voteVars
<1>4. /\ \A c \in Correct, j \in Instance :
           voted'[c][j] = IF c = b /\ j = i THEN v ELSE voted[c][j]
      /\ \A c \in Correct : proposing'[c] = IF c = b THEN None ELSE proposing[c]
  BY <1>0 DEF SendDeltaVote, Inv, TypeOK
<1>5. ProposalKept'
  <2>1. \A m \in {} : m.type # "PROPOSE"
    OBVIOUS
  <2> HIDE DEF new
  <2> QED
    BY <1>2, <1>3, <2>1, ProposalsUntouched
<1>6. ProposalVoted'
  BY <1>0, <1>1, <1>3, <1>4 DEF KeptInv, ProposalVoted
<1>7. PlayedOnly'
  <2>1. \A m \in new : m.val \in Played
    BY DEF Msg
  <2> HIDE DEF new
  <2>2. \A c \in Correct : net'[c] \subseteq net[c] \cup new
    BY <1>2 DEF Transmit
  <2> QED
    BY <1>3, <2>1, <2>2 DEF KeptInv, PlayedOnly
<1>8. EnoughCounted'
  BY <1>3 DEF KeptInv, EnoughCounted, Ballots
<1>9. VoteKept'
  <2> SUFFICES ASSUME NEW a \in Correct, NEW c \in Correct, NEW j \in Instance,
                      voted'[c][j] # None, j \notin deltaVoteList[a]
               PROVE  VoteSeen(a, c, j)'
    BY <1>3 DEF VoteKept, VoteSeen
  <2>1. ASSUME NEW w \in Value, Msg("VOTE", c, j, w) \in net[a] \cup new
        PROVE  VoteSeen(a, c, j)'
    <3>1. ~Ignored(a, Msg("VOTE", c, j, w))'
      BY <1>3 DEF Ignored, Msg
    <3> HIDE DEF new
    <3>2. Msg("VOTE", c, j, w) \in net'[a]
      BY <1>2, <2>1, <3>1, TransmitKeeps
    <3> QED
      BY <3>2 DEF VoteSeen
  <2>2. CASE c = b /\ j = i
    BY <1>1, <2>1, <2>2
  <2>3. CASE ~(c = b /\ j = i)
    <3>1. VoteSeen(a, c, j)
      BY <1>4, <2>3 DEF KeptInv, VoteKept
    <3>2. ASSUME NEW w \in Played, c \in Ballots(a, j, w) PROVE VoteSeen(a, c, j)'
      BY <1>3, <3>2 DEF VoteSeen, Ballots
    <3> QED
      BY <1>3, <2>1, <3>1, <3>2 DEF VoteSeen
  <2> QED
    BY <2>2, <2>3
<1> QED
  BY <1>5, <1>6, <1>7, <1>8, <1>9 DEF KeptInv

\* The vote that a node takes in is the one at work.
LEMMA HandleVoteKept ==
  ASSUME KeptInv, Inv, NEW b \in Correct, NEW m \in Message, HandleDeltaVote(b, m)
  PROVE  KeptInv'
<1>1. Transmit(b, {m}, {}) /\ m.type = "VOTE" /\ voting[b] = None
  BY DEF HandleDeltaVote
<1>2. UNCHANGED <<submitted, deltaProposeList, votes, deltaVoteList, voted, proposing>>
  BY DEF HandleDeltaVote, proposeVars
<1>3. /\ \A c \in Correct : voting'[c] = IF c = b THEN m ELSE voting[c]
      /\ \A c \in Correct : sourceMsg'[c] = IF c = b THEN m.val ELSE sourceMsg[c]
      /\ m # None
  BY Forgeries DEF HandleDeltaVote, Inv, TypeOK
<1>4. ProposalKept'
  BY <1>1, <1>2, ProposalsUntouched
<1>5. ProposalVoted'
  BY <1>2 DEF KeptInv, ProposalVoted
<1>6. PlayedOnly'
  <2>1. m.val \in Played
    BY ReceivablePlayed DEF HandleDeltaVote, KeptInv
  <2>2. \A c \in Correct : net'[c] \subseteq net[c]
    BY <1>1 DEF Transmit
  <2> QED
    BY <1>3, <2>1, <2>2 DEF KeptInv, PlayedOnly
<1>7. EnoughCounted'
  BY <1>2 DEF KeptInv, EnoughCounted, Ballots
<1>8. VoteKept'
  <2> SUFFICES ASSUME NEW a \in Correct, NEW c \in Correct, NEW i \in Instance,
                      voted[c][i] # None, i \notin deltaVoteList[a]
               PROVE  VoteSeen(a, c, i)'
    BY <1>2 DEF VoteKept, VoteSeen
  <2>1. VoteSeen(a, c, i)
    BY DEF KeptInv, VoteKept
  <2>2. ASSUME NEW w \in Value, Msg("VOTE", c, i, w) \in net[a]
        PROVE  VoteSeen(a, c, i)'
    <3>1. CASE a = b /\ m = Msg("VOTE", c, i, w)
      BY <1>3, <3>1 DEF VoteSeen, Msg
    <3>2. CASE ~(a = b /\ m = Msg("VOTE", c, i, w))
      <4>1. ~Ignored(a, Msg("VOTE", c, i, w))'
        BY <1>2 DEF Ignored, Msg
      <4>2. Msg("VOTE", c, i, w) \in net'[a]
        BY <1>1, <2>2, <3>2, <4>1, TransmitKeeps
      <4> QED
        BY <4>2 DEF VoteSeen
    <3> QED
      BY <3>1, <3>2
  <2>3. ASSUME NEW w \in Played, c \in Ballots(a, i, w) PROVE VoteSeen(a, c, i)'
    BY <1>2, <2>3 DEF VoteSeen, Ballots
  <2>4. voting[a] # None => a # b
    BY <1>1
  <2> QED
    BY <1>3, <2>1, <2>2, <2>3, <2>4 DEF VoteSeen
<1> QED
  BY <1>4, <1>5, <1>6, <1>7, <1>8 DEF KeptInv

\* The vote at work is counted for whatever sourceMsg is by now, which is one of
\* the payloads played.
LEMMA CountVoteKept ==
  ASSUME KeptInv, Inv, NEW b \in Correct, CountVote(b)
  PROVE  KeptInv'
<1> DEFINE m == voting[b]
           v == sourceMsg[b]
           senders == votes[b][<<m.inst, v>>] \cup {m.from}
<1>1. /\ m # None /\ m \in Message /\ m.inst \in Instance /\ m.from \in Node
      /\ v \in Played /\ v \in Value /\ v # None
  BY Groups DEF CountVote, Inv, TypeOK, SourceSet, Message, KeptInv, PlayedOnly
<1>2. Transmit(b, {}, {})
  BY DEF CountVote
<1>3. UNCHANGED <<submitted, deltaProposeList, voted, proposing, sourceMsg>>
  BY DEF CountVote, proposeVars
<1>4. /\ votes' = [votes EXCEPT ![b][<<m.inst, v>>] = senders]
      /\ voting' = [voting EXCEPT ![b] = None]
  BY DEF CountVote
<1>5. \A c \in Correct, i \in Instance, w \in Value :
        Ballots(c, i, w)' = IF c = b /\ i = m.inst /\ w = v
                              THEN senders ELSE Ballots(c, i, w)
  BY <1>1, <1>4 DEF Inv, TypeOK, Ballots
<1>6. \A c \in Correct : voting'[c] = IF c = b THEN None ELSE voting[c]
  BY <1>4 DEF Inv, TypeOK
<1>7. /\ \A c \in Correct : deltaVoteList[c] \subseteq deltaVoteList'[c]
      /\ Cardinality(senders) >= SmallQuorum => m.inst \in deltaVoteList'[b]
  <2>1. \/ /\ ~(Cardinality(senders) >= SmallQuorum)
           /\ deltaVoteList' = deltaVoteList
        \/ deltaVoteList' = [deltaVoteList EXCEPT ![b] = @ \cup {m.inst}]
    BY DEF CountVote
  <2> DEFINE enough == Cardinality(senders) >= SmallQuorum
             counted == [deltaVoteList EXCEPT ![b] = @ \cup {m.inst}]
  <2>2. deltaVoteList \in [Correct -> SUBSET Instance]
    BY DEF Inv, TypeOK
  <2>3. m.inst \in counted[b] /\ \A c \in Correct : deltaVoteList[c] \subseteq counted[c]
    BY <2>2
  <2>4. (~enough /\ deltaVoteList' = deltaVoteList) \/ deltaVoteList' = counted
    BY <2>1
  <2>5. enough => m.inst \in deltaVoteList'[b]
    <3> HIDE DEF enough, counted
    <3> QED
      BY <2>3, <2>4
  <2>6. \A c \in Correct : deltaVoteList[c] \subseteq deltaVoteList'[c]
    <3> HIDE DEF enough, counted
    <3> QED
      BY <2>3, <2>4
  <2> QED
    BY <2>5, <2>6
<1>8. ProposalKept'
  BY <1>2, <1>3, ProposalsUntouched
<1>9. ProposalVoted'
  BY <1>3 DEF KeptInv, ProposalVoted
<1>10. PlayedOnly'
  BY <1>2, <1>3 DEF KeptInv, PlayedOnly, Transmit
<1>11. EnoughCounted'
  <2> SUFFICES ASSUME NEW c \in Correct, NEW i \in Instance, NEW w \in Value,
                      Cardinality(Ballots(c, i, w)') >= SmallQuorum
               PROVE  i \in deltaVoteList'[c]
    BY DEF EnoughCounted
  <2>1. CASE c = b /\ i = m.inst /\ w = v
    BY <1>5, <1>7, <2>1
  <2>2. CASE ~(c = b /\ i = m.inst /\ w = v)
    BY <1>5, <1>7, <2>2 DEF KeptInv, EnoughCounted
  <2> QED
    BY <2>1, <2>2
<1>12. VoteKept'
  <2> SUFFICES ASSUME NEW a \in Correct, NEW c \in Correct, NEW i \in Instance,
                      voted[c][i] # None, i \notin deltaVoteList'[a]
               PROVE  VoteSeen(a, c, i)'
    BY <1>3 DEF VoteKept, VoteSeen
  <2>1. VoteSeen(a, c, i) /\ i \notin deltaVoteList[a]
    BY <1>7 DEF KeptInv, VoteKept
  <2>2. ASSUME NEW w \in Value, Msg("VOTE", c, i, w) \in net[a]
        PROVE  VoteSeen(a, c, i)'
    <3>1. ~Ignored(a, Msg("VOTE", c, i, w))'
      BY DEF Ignored, Msg
    <3>2. Msg("VOTE", c, i, w) \in net'[a]
      BY <1>2, <2>2, <3>1, TransmitKeeps
    <3> QED
      BY <3>2 DEF VoteSeen
  <2>3. ASSUME NEW w \in Played, c \in Ballots(a, i, w) PROVE VoteSeen(a, c, i)'
    <3>1. c \in Ballots(a, i, w)'
      <4>1. w \in Value
        BY PlayedType
      <4>2. CASE a = b /\ i = m.inst /\ w = v
        BY <1>5, <2>3, <4>1, <4>2 DEF Ballots
      <4>3. CASE ~(a = b /\ i = m.inst /\ w = v)
        BY <1>5, <2>3, <4>1, <4>3
      <4> QED
        BY <4>2, <4>3
    <3> QED
      BY <3>1 DEF VoteSeen
  <2>4. ASSUME voting[a] # None, voting[a].from = c, voting[a].inst = i
        PROVE  VoteSeen(a, c, i)'
    <3>1. CASE a = b
      <4>1. PICK w \in Played : w = v
        BY <1>1
      <4>2. c \in Ballots(a, i, w)'
        BY <1>1, <1>5, <2>4, <3>1, <4>1
      <4> QED
        BY <4>2 DEF VoteSeen
    <3>2. CASE a # b
      BY <1>6, <2>4, <3>2 DEF VoteSeen
    <3> QED
      BY <3>1, <3>2
  <2> QED
    BY <2>1, <2>2, <2>3, <2>4 DEF VoteSeen
<1> QED
  BY <1>8, <1>9, <1>10, <1>11, <1>12 DEF KeptInv

LEMMA KeptStep == KeptInv /\ Inv /\ [Next]_vars => KeptInv'
<1> SUFFICES ASSUME KeptInv, Inv, [Next]_vars PROVE KeptInv'
  OBVIOUS
<1>1. CASE UNCHANGED vars
  BY <1>1 DEF vars, voteVars, proposeVars, KeptInv, PlayedOnly, ProposalKept, ProposalVoted,
              VoteKept, VoteSeen, EnoughCounted, Ballots
<1> QED
  BY <1>1, ProposeKept, HandleProposeKept, HandleVoteKept, SendVoteKept, CountVoteKept
  DEF Next, HandleDeltaMsg

\* However few votes each payload has, the correct nodes are too many for all of
\* them to be split below f + 1.
FewPayloads ==
  /\ IsFiniteSet(Played)
  /\ Cardinality(Correct) > Cardinality(Played) * FSize(Cardinality(Node))

LEMMA VotesSuffice ==
  ASSUME KeptInv, Inv, FewPayloads, Relay # {}, NEW b \in Correct, NEW i \in Instance,
         \A c \in Correct : \E w \in Played : c \in Ballots(b, i, w)
  PROVE  i \in deltaVoteList[b]
<1> SUFFICES ASSUME i \notin deltaVoteList[b] PROVE FALSE
  OBVIOUS
<1> DEFINE k == FSize(Cardinality(Node))
           g == [w \in Played |-> Ballots(b, i, w)]
           all == UNION {g[w] : w \in Played}
<1>1. k \in Nat /\ SmallQuorum = k + 1
  BY SmallQuorumType
<1>2. \A w \in Played : IsFiniteSet(g[w]) /\ Cardinality(g[w]) <= k
  <2> SUFFICES ASSUME NEW w \in Played
               PROVE  IsFiniteSet(Ballots(b, i, w)) /\ Cardinality(Ballots(b, i, w)) <= k
    OBVIOUS
  <2>1. w \in Value
    BY PlayedType
  <2>2. Ballots(b, i, w) \subseteq Node
    BY <2>1 DEF Ballots, Inv, TypeOK
  <2>3. IsFiniteSet(Ballots(b, i, w)) /\ Cardinality(Ballots(b, i, w)) \in Nat
    BY <2>2, Groups, FS_Subset, FS_CardinalityType
  <2>4. ~(Cardinality(Ballots(b, i, w)) >= SmallQuorum)
    BY <2>1 DEF KeptInv, EnoughCounted
  <2> HIDE DEF k
  <2> QED
    BY <1>1, <2>3, <2>4
<1>3. Correct \subseteq all
  OBVIOUS
<1>4. IsFiniteSet(Played)
  BY DEF FewPayloads
<1>5. IsFiniteSet(all) /\ Cardinality(all) <= Cardinality(Played) * k
  <2> HIDE DEF g, k
  <2> QED
    BY <1>1, <1>2, <1>4, UnionBound
<1>6. Cardinality(Correct) <= Cardinality(all) /\ IsFiniteSet(Correct)
  <2> HIDE DEF all
  <2> QED
    BY <1>3, <1>5, FS_Subset
<1>7. /\ Cardinality(Correct) \in Nat /\ Cardinality(all) \in Nat
      /\ Cardinality(Played) \in Nat
  BY <1>4, <1>5, <1>6, FS_CardinalityType
<1>8. Cardinality(Correct) > Cardinality(Played) * k
  BY DEF FewPayloads
<1>9. Cardinality(Played) * k \in Nat
  <2> HIDE DEF k
  <2> QED
    BY <1>1, <1>7
<1> HIDE DEF all, k
<1> QED
  BY <1>5, <1>6, <1>7, <1>8, <1>9

LEMMA DoneFromInv ==
  ASSUME KeptInv, Inv, FewPayloads, Relay # {}
  PROVE  DoneCounted
<1> SUFFICES ASSUME Done, NEW b \in Correct, NEW v \in Request, NEW i \in Instance,
                    i < NumReq[v]
             PROVE  i \in deltaVoteList[b]
  BY DEF DoneCounted
<1>1. PICK r \in Relay : v \in submitted[r]
  BY DEF Done
<1>2. \A c \in Correct : net[c] = {} /\ proposing[c] = None /\ voting[c] = None
  BY DEF Done
<1>3. i # None
  BY Forgeries
<1>4. \A c \in Correct : i \in deltaProposeList[c]
  BY <1>1, <1>2 DEF KeptInv, ProposalKept
<1>5. \A c \in Correct : voted[c][i] # None
  BY <1>2, <1>3, <1>4 DEF KeptInv, ProposalVoted
<1>6. \A c \in Correct : VoteSeen(b, c, i)
  BY <1>5 DEF KeptInv, VoteKept
<1>7. CASE i \notin deltaVoteList[b]
  <2>1. \A c \in Correct : \E w \in Played : c \in Ballots(b, i, w)
    BY <1>2, <1>6, <1>7 DEF VoteSeen
  <2> QED
    BY <2>1, VotesSuffice
<1> QED
  BY <1>7

\* When every request was proposed and every message handled, every node has
\* counted every instance: a proposal may be handled between the two halves of a
\* vote and have it counted for another payload, but no vote is lost, and among
\* the payloads that were played one has f + 1 votes of each instance
\* (HandleDeltaVote, delta.go).  With more payloads than FewPayloads allows
\* the votes may be split, and the instance is never counted.
THEOREM AllInstancesCounted ==
  ASSUME FewPayloads, Relay # {}
  PROVE  Spec => []DoneCounted
<1>1. Init => KeptInv
  BY KeptInit
<1>2. KeptInv /\ Inv => DoneCounted
  BY DoneFromInv
<1> QED
  BY <1>1, <1>2, KeptStep, InvInit, InvStep, PTL DEF Spec
=============================================================================
