--------------------------- MODULE SigGroup_proofs ---------------------------
(***************************************************************************)
(* Mode CrossSigGroup with any number of nodes in group B, of which any    *)
(* number may be silent, and any number of requests and instances.         *)
(***************************************************************************)
EXTENDS SigGroup, FiniteSetTheorems, TLAPS

(***************************************************************************)
(* The invariant                                                           *)
(***************************************************************************)

\* TypeOK, but for what node 4 proposes.
Types ==
  /\ started \subseteq Request
  /\ net \subseteq Message
  /\ votes \in [Epoch \X Request -> SUBSET Correct]
  /\ confirmTag \subseteq Epoch
  /\ checking \subseteq [rep : Message, cflag : BOOLEAN]
  /\ msgLocal \in [Correct -> Request \cup {None}]
  /\ reqNum \in [Correct -> Nat]
  /\ awaitingEpochs \in [Correct -> SUBSET Epoch]
  /\ awaitingEpochsMap \in [Correct -> SUBSET Epoch]
  /\ confirmedEpoch \in [Correct -> Nat]
  /\ groupCrossList \in [Correct -> [Epoch -> Request \cup {None}]]
  /\ ended \in [Correct -> BOOLEAN]

\* What a message on its way says is true.
NetSound ==
  \A m \in net :
    /\ m.node \in Correct
    /\ m.type = "CROSS" => m.val \in started /\ m.R < NumReq[m.val]
    /\ m.type = "REP" => Holds(m.node, m.R, m.val)
    /\ m.type = "CONFIRM" => Witnessed(m.R, m.val)

\* A node that is counted for an epoch and a request holds it.
VotesHold ==
  \A e \in Epoch, v \in Request : \A b \in votes[<<e, v>>] : Holds(b, e, v)

Confirmed(e) == \E v \in Request : Witnessed(e, v)

\* An epoch in awaitingEpochs is confirmed, and its node has a payload to store.
AwaitingConfirmed ==
  \A b \in Correct : \A e \in awaitingEpochs[b] : Confirmed(e) /\ msgLocal[b] # None

\* Epochs are stored in their order: a node has those below confirmedEpoch.
StoredInOrder ==
  \A b \in Correct :
    /\ 0 .. (confirmedEpoch[b] - 1) \subseteq Epoch
    /\ \A e \in Epoch : groupCrossList[b][e] # None <=> e < confirmedEpoch[b]

\* What a node waits for is what some request asks for.
TotalAsked ==
  \A b \in Correct : reqNum[b] = 0 \/ \E w \in Request : reqNum[b] = NumReq[w]

\* Node 4 proposes when its monitor ends.
ProposedAtEnd == (Proposer \in Correct /\ ended[Proposer]) \/ proposed = <<>>

Inv ==
  /\ Types
  /\ NetSound /\ VotesHold /\ AwaitingConfirmed
  /\ StoredInOrder /\ TotalAsked /\ ProposedAtEnd
  /\ StoredWitnessed /\ ProposedWitnessed
  /\ proposed \in Seq([height : Nat, val : Request])

LEMMA EpochType ==
  /\ Epoch \subseteq Nat
  /\ \A v \in Request : \A e \in 0 .. (NumReq[v] - 1) : e \in Epoch
  /\ \A v \in Request : NumReq[v] \in Nat \ {0}
BY Groups DEF Epoch

(***************************************************************************)
(* What is held stays held                                                 *)
(***************************************************************************)

LEMMA HoldsKept ==
  ASSUME started \subseteq started', \A m \in net' \ net : m.type # "CROSS" \/ m.val \notin started
  PROVE  \A b, e, v : Holds(b, e, v) => Holds(b, e, v)'
<1> SUFFICES ASSUME NEW b, NEW e, NEW v, Holds(b, e, v) PROVE Holds(b, e, v)'
  OBVIOUS
<1>1. Msg("CROSS", b, e, v).type = "CROSS" /\ Msg("CROSS", b, e, v).val = v
  BY DEF Msg
<1> QED
  BY <1>1 DEF Holds

LEMMA WitnessedKept ==
  ASSUME \A b, e, v : Holds(b, e, v) => Holds(b, e, v)'
  PROVE  \A e, v : Witnessed(e, v) => Witnessed(e, v)'
<1> SUFFICES ASSUME NEW e, NEW v, Witnessed(e, v) PROVE Witnessed(e, v)'
  OBVIOUS
<1> DEFINE H == {b \in Correct : Holds(b, e, v)}
           J == {b \in Correct : Holds(b, e, v)'}
<1>1. H \subseteq J /\ J \subseteq Correct /\ IsFiniteSet(Correct)
  BY Groups, FS_Subset
<1>2. IsFiniteSet(H) /\ IsFiniteSet(J)
  BY <1>1, FS_Subset
<1>3. Cardinality(H) <= Cardinality(J) /\ Cardinality(H) \in Int /\ Cardinality(J) \in Int
  BY <1>1, <1>2, FS_Subset, FS_CardinalityType
<1>4. SigGroupBQuorum(Cardinality(B)) \in Int
  BY Groups, FS_CardinalityType DEF SigGroupBQuorum, GoDiv
<1> QED
  BY <1>3, <1>4 DEF Witnessed

\* What does not touch group B keeps what is said of its nodes.
LEMMA NodesKept ==
  ASSUME Inv, \A e, v : Witnessed(e, v) => Witnessed(e, v)',
         UNCHANGED <<handlerVars, awaitVars, monitorVars>>
  PROVE  /\ AwaitingConfirmed' /\ StoredInOrder' /\ TotalAsked' /\ ProposedAtEnd'
         /\ StoredWitnessed' /\ ProposedWitnessed'
         /\ proposed' \in Seq([height : Nat, val : Request])
<1> USE DEF Inv, handlerVars, awaitVars, monitorVars
<1>1. AwaitingConfirmed'
  BY DEF AwaitingConfirmed, Confirmed
<1>2. StoredInOrder' /\ TotalAsked' /\ ProposedAtEnd'
  BY DEF StoredInOrder, TotalAsked, ProposedAtEnd
<1>3. StoredWitnessed'
  BY DEF StoredWitnessed
<1>4. ProposedWitnessed'
  BY DEF ProposedWitnessed
<1> QED
  BY <1>1, <1>2, <1>3, <1>4

(***************************************************************************)
(* Node 0                                                                  *)
(***************************************************************************)

LEMMA InvInit == Init => Inv
<1> SUFFICES ASSUME Init PROVE Inv
  OBVIOUS
<1>1. Types
  BY DEF Init, Types
<1>2. NetSound /\ VotesHold /\ AwaitingConfirmed /\ TotalAsked /\ ProposedAtEnd
  BY DEF Init, NetSound, VotesHold, AwaitingConfirmed, TotalAsked, ProposedAtEnd
<1>3. StoredInOrder /\ StoredWitnessed
  BY EpochType DEF Init, StoredInOrder, StoredWitnessed
<1>4. ProposedWitnessed /\ proposed \in Seq([height : Nat, val : Request])
  BY DEF Init, ProposedWitnessed
<1> QED
  BY <1>1, <1>2, <1>3, <1>4 DEF Inv

LEMMA StartInv ==
  ASSUME Inv, NEW w \in Request, StartSigCross(w)
  PROVE  Inv'
<1> DEFINE new == {Msg("CROSS", b, e, w) : b \in Correct, e \in 0 .. (NumReq[w] - 1)}
<1>1. /\ started' = started \cup {w} /\ net' = net \cup new /\ w \notin started
      /\ UNCHANGED <<votes, confirmTag, checking, handlerVars, awaitVars, monitorVars>>
  BY DEF StartSigCross
<1>2. \A m \in new : /\ m \in Message /\ m.type = "CROSS" /\ m.val = w /\ m.node \in Correct
                     /\ m.R < NumReq[w]
  BY Groups, EpochType DEF Msg, Message
<1> HIDE DEF new
<1>3. /\ \A b, e, v : Holds(b, e, v) => Holds(b, e, v)'
      /\ \A e, v : Witnessed(e, v) => Witnessed(e, v)'
  BY <1>1, <1>2, HoldsKept, WitnessedKept
<1>4. Types'
  BY <1>1, <1>2 DEF Inv, Types, handlerVars, awaitVars, monitorVars
<1>5. NetSound'
  BY <1>1, <1>2, <1>3 DEF Inv, NetSound
<1>6. VotesHold'
  BY <1>1, <1>3 DEF Inv, VotesHold
<1> QED
  BY <1>1, <1>3, <1>4, <1>5, <1>6, NodesKept DEF Inv

LEMMA RepInv ==
  ASSUME Inv, NEW m \in net, HandleGroupRep(m)
  PROVE  Inv'
<1>1. /\ m.type = "REP" /\ net' = net \ {m}
      /\ votes' = [votes EXCEPT ![<<m.R, m.val>>] = @ \cup {m.node}]
      /\ checking' = checking \cup {[rep |-> m, cflag |-> m.R \in confirmTag]}
      /\ UNCHANGED <<started, confirmTag, handlerVars, awaitVars, monitorVars>>
  BY DEF HandleGroupRep
<1>2. /\ m \in Message /\ m.node \in Correct /\ m.R \in Epoch /\ m.val \in Request
      /\ Holds(m.node, m.R, m.val)
  BY <1>1 DEF Inv, Types, NetSound, Message
<1>3. /\ \A b, e, v : Holds(b, e, v) => Holds(b, e, v)'
      /\ \A e, v : Witnessed(e, v) => Witnessed(e, v)'
  BY <1>1, HoldsKept, WitnessedKept
<1>4. Types'
  <2>1. votes' \in [Epoch \X Request -> SUBSET Correct]
    BY <1>1, <1>2 DEF Inv, Types
  <2>2. [rep |-> m, cflag |-> m.R \in confirmTag] \in [rep : Message, cflag : BOOLEAN]
    <3> DEFINE flag == m.R \in confirmTag
    <3>1. flag \in BOOLEAN
      <4>1. CASE m.R \in confirmTag
        BY <4>1
      <4>2. CASE m.R \notin confirmTag
        BY <4>2
      <4> QED
        BY <4>1, <4>2
    <3> HIDE DEF flag
    <3>2. [rep |-> m, cflag |-> flag] \in [rep : Message, cflag : BOOLEAN]
      BY <1>2, <3>1
    <3> QED
      BY <3>2 DEF flag
  <2>3. checking' \subseteq [rep : Message, cflag : BOOLEAN]
    BY <1>1, <2>2, Zenon DEF Inv, Types
  <2> QED
    BY <1>1, <2>1, <2>3 DEF Inv, Types, handlerVars, awaitVars, monitorVars
<1>5. NetSound'
  BY <1>1, <1>3 DEF Inv, NetSound
<1>6. VotesHold'
  <2> SUFFICES ASSUME NEW e \in Epoch, NEW v \in Request, NEW b \in votes'[<<e, v>>]
               PROVE  Holds(b, e, v)'
    BY DEF VotesHold
  <2>1. CASE b \in votes[<<e, v>>]
    BY <1>3, <2>1 DEF Inv, VotesHold
  <2>2. CASE b \notin votes[<<e, v>>]
    <3>1. e = m.R /\ v = m.val /\ b = m.node
      BY <1>1, <1>2, <2>2 DEF Inv, Types
    <3> QED
      BY <1>2, <1>3, <3>1
  <2> QED
    BY <2>1, <2>2
<1> QED
  BY <1>1, <1>3, <1>4, <1>5, <1>6, NodesKept DEF Inv

\* Enough votes for an epoch and a request are enough nodes that hold it.
LEMMA VotesWitness ==
  ASSUME Inv, NEW e \in Epoch, NEW v \in Request, Cardinality(votes[<<e, v>>]) >= BQuorum
  PROVE  Witnessed(e, v)
<1> DEFINE H == {b \in Correct : Holds(b, e, v)}
<1>1. votes[<<e, v>>] \subseteq H /\ H \subseteq Correct
  BY DEF Inv, Types, VotesHold
<1>2. IsFiniteSet(H) /\ IsFiniteSet(votes[<<e, v>>])
  BY <1>1, Groups, FS_Subset
<1>3. /\ Cardinality(votes[<<e, v>>]) <= Cardinality(H)
      /\ Cardinality(votes[<<e, v>>]) \in Int /\ Cardinality(H) \in Int
  BY <1>1, <1>2, FS_Subset, FS_CardinalityType
<1>4. SigGroupBQuorum(Cardinality(B)) \in Int
  BY Groups, FS_CardinalityType DEF SigGroupBQuorum, GoDiv
<1> QED
  BY <1>3, <1>4 DEF Witnessed, BQuorum

LEMMA CheckInv ==
  ASSUME Inv, NEW c \in checking, CheckGroupRep(c)
  PROVE  Inv'
<1> DEFINE e == c.rep.R
           v == c.rep.val
           new == {Msg("CONFIRM", b, e, v) : b \in Correct}
<1>1. /\ checking' = checking \ {c} /\ UNCHANGED <<started, votes, handlerVars, awaitVars, monitorVars>>
      /\ \/ MayConfirm(c) /\ confirmTag' = confirmTag \cup {e} /\ net' = net \cup new
         \/ confirmTag' = confirmTag /\ net' = net
  BY DEF CheckGroupRep
<1>2. e \in Epoch /\ v \in Request
  BY DEF Inv, Types, Message
<1>3. \A m \in new : /\ m \in Message /\ m.type = "CONFIRM" /\ m.node \in Correct
                     /\ m.R = e /\ m.val = v
  BY <1>2, Groups DEF Msg, Message
<1>4. MayConfirm(c) => Witnessed(e, v)
  BY <1>2, VotesWitness DEF MayConfirm
<1> HIDE DEF new
<1>5. /\ \A b, d, w : Holds(b, d, w) => Holds(b, d, w)'
      /\ \A d, w : Witnessed(d, w) => Witnessed(d, w)'
  <2>1. started \subseteq started' /\ \A m \in net' \ net : m.type # "CROSS"
    BY <1>1, <1>3
  <2> QED
    BY <2>1, HoldsKept, WitnessedKept
<1>6. Types'
  BY <1>1, <1>2, <1>3 DEF Inv, Types, handlerVars, awaitVars, monitorVars
<1>7. NetSound'
  <2> SUFFICES ASSUME NEW m \in net'
               PROVE  /\ m.node \in Correct
                      /\ m.type = "CROSS" => m.val \in started' /\ m.R < NumReq[m.val]
                      /\ m.type = "REP" => Holds(m.node, m.R, m.val)'
                      /\ m.type = "CONFIRM" => Witnessed(m.R, m.val)'
    BY DEF NetSound
  <2>1. CASE m \in net
    BY <1>1, <1>5, <2>1 DEF Inv, NetSound
  <2>2. CASE m \notin net
    <3>1. m \in new /\ Witnessed(e, v)
      BY <1>1, <1>4, <2>2
    <3> QED
      BY <1>3, <1>5, <3>1
  <2> QED
    BY <2>1, <2>2
<1>8. VotesHold'
  BY <1>1, <1>5 DEF Inv, VotesHold
<1> QED
  BY <1>1, <1>5, <1>6, <1>7, <1>8, NodesKept DEF Inv

(***************************************************************************)
(* Group B                                                                 *)
(***************************************************************************)

\* A node that has handled the CROSS holds the request for the epoch.
LEMMA CrossInv ==
  ASSUME Inv, NEW m \in net, HandleGroupCross(m)
  PROVE  Inv'
<1> DEFINE rep == Msg("REP", m.node, m.R, m.val)
<1>1. /\ m.type = "CROSS" /\ net' = (net \ {m}) \cup {rep}
      /\ msgLocal' = [msgLocal EXCEPT ![m.node] = m.val]
      /\ reqNum' = [reqNum EXCEPT ![m.node] = NumReq[m.val]]
      /\ UNCHANGED <<leaderVars, awaitVars, monitorVars>>
  BY DEF HandleGroupCross
<1>2. /\ m \in Message /\ m.node \in Correct /\ m.R \in Epoch /\ m.val \in Request
      /\ m.val \in started /\ m.R < NumReq[m.val] /\ NumReq[m.val] \in Nat
  BY <1>1, EpochType DEF Inv, Types, NetSound, Message
<1>3. /\ rep \in Message /\ rep.type = "REP" /\ rep.node = m.node /\ rep.R = m.R
      /\ rep.val = m.val
  BY <1>2, Groups DEF Msg, Message
<1>4. m = Msg("CROSS", m.node, m.R, m.val) /\ m # rep
  BY <1>1, <1>2, <1>3 DEF Msg, Message
<1>5. Holds(m.node, m.R, m.val)'
  <2>1. Msg("CROSS", m.node, m.R, m.val) \notin net'
    BY <1>1, <1>4
  <2> QED
    BY <1>1, <1>2, <2>1 DEF Holds, leaderVars
<1> HIDE DEF rep
<1>6. /\ \A b, e, v : Holds(b, e, v) => Holds(b, e, v)'
      /\ \A e, v : Witnessed(e, v) => Witnessed(e, v)'
  <2>1. started \subseteq started' /\ \A k \in net' \ net : k.type # "CROSS"
    BY <1>1, <1>3 DEF leaderVars
  <2> QED
    BY <2>1, HoldsKept, WitnessedKept
<1>7. Types'
  <2>1. msgLocal' \in [Correct -> Request \cup {None}] /\ reqNum' \in [Correct -> Nat]
    BY <1>1, <1>2 DEF Inv, Types
  <2> QED
    BY <1>1, <1>3, <2>1 DEF Inv, Types, leaderVars, awaitVars, monitorVars
<1>8. NetSound'
  <2> SUFFICES ASSUME NEW k \in net'
               PROVE  /\ k.node \in Correct
                      /\ k.type = "CROSS" => k.val \in started' /\ k.R < NumReq[k.val]
                      /\ k.type = "REP" => Holds(k.node, k.R, k.val)'
                      /\ k.type = "CONFIRM" => Witnessed(k.R, k.val)'
    BY DEF NetSound
  <2>1. CASE k \in net
    BY <1>1, <1>6, <2>1 DEF Inv, NetSound, leaderVars
  <2>2. CASE k = rep
    BY <1>2, <1>3, <1>5, <2>2
  <2> QED
    BY <1>1, <2>1, <2>2
<1>9. VotesHold'
  BY <1>1, <1>6 DEF Inv, VotesHold, leaderVars
<1>10. \A b \in Correct : /\ msgLocal'[b] = IF b = m.node THEN m.val ELSE msgLocal[b]
                          /\ reqNum'[b] = IF b = m.node THEN NumReq[m.val] ELSE reqNum[b]
  BY <1>1 DEF Inv, Types
<1>11. AwaitingConfirmed' /\ TotalAsked'
  <2>1. m.val # None
    BY <1>2, Groups
  <2>2. AwaitingConfirmed'
    BY <1>1, <1>6, <1>10, <2>1 DEF Inv, AwaitingConfirmed, Confirmed, awaitVars
  <2> QED
    BY <1>2, <1>10, <2>2 DEF Inv, TotalAsked
<1>12. StoredInOrder' /\ ProposedAtEnd' /\ proposed' \in Seq([height : Nat, val : Request])
  BY <1>1 DEF Inv, StoredInOrder, ProposedAtEnd, monitorVars
<1>13. StoredWitnessed' /\ ProposedWitnessed'
  BY <1>1, <1>6 DEF Inv, StoredWitnessed, ProposedWitnessed, monitorVars
<1> QED
  BY <1>7, <1>8, <1>9, <1>11, <1>12, <1>13 DEF Inv

LEMMA ConfirmInv ==
  ASSUME Inv, NEW m \in net, HandleGroupConfirm(m)
  PROVE  Inv'
<1> DEFINE b == m.node
<1>1. /\ m.type = "CONFIRM" /\ net' = net \ {m}
      /\ UNCHANGED <<leaderVars, handlerVars, monitorVars>>
      /\ \/ /\ msgLocal[b] = m.val
            /\ awaitingEpochs' = [awaitingEpochs EXCEPT ![b] = @ \cup {m.R}]
            /\ awaitingEpochsMap' = [awaitingEpochsMap EXCEPT ![b] = @ \cup {m.R}]
         \/ UNCHANGED awaitVars
  BY DEF HandleGroupConfirm
<1>2. b \in Correct /\ m.R \in Epoch /\ m.val \in Request /\ Witnessed(m.R, m.val)
  BY <1>1 DEF Inv, Types, NetSound, Message
<1>3. /\ \A c, e, v : Holds(c, e, v) => Holds(c, e, v)'
      /\ \A e, v : Witnessed(e, v) => Witnessed(e, v)'
  BY <1>1, HoldsKept, WitnessedKept DEF leaderVars
<1>4. Types'
  <2> DEFINE Sets(f) == f \in [Correct -> SUBSET Epoch]
  <2>0. /\ Sets(awaitingEpochs) /\ Sets([awaitingEpochs EXCEPT ![b] = @ \cup {m.R}])
        /\ Sets(awaitingEpochsMap) /\ Sets([awaitingEpochsMap EXCEPT ![b] = @ \cup {m.R}])
    BY <1>2 DEF Inv, Types
  <2> HIDE DEF Sets
  <2>1. Sets(awaitingEpochs')
    BY <1>1, <2>0 DEF awaitVars
  <2>2. Sets(awaitingEpochsMap')
    BY <1>1, <2>0 DEF awaitVars
  <2> QED
    BY <1>1, <2>1, <2>2 DEF Inv, Types, Sets, leaderVars, handlerVars, monitorVars
<1>5. NetSound' /\ VotesHold'
  BY <1>1, <1>3 DEF Inv, NetSound, VotesHold, leaderVars
<1>6. AwaitingConfirmed'
  <2> SUFFICES ASSUME NEW c \in Correct, NEW e \in awaitingEpochs'[c]
               PROVE  Confirmed(e)' /\ msgLocal'[c] # None
    BY DEF AwaitingConfirmed
  <2>1. CASE e \in awaitingEpochs[c]
    BY <1>1, <1>3, <2>1 DEF Inv, AwaitingConfirmed, Confirmed, handlerVars
  <2>2. CASE e \notin awaitingEpochs[c]
    <3>1. c = b /\ e = m.R /\ msgLocal[b] = m.val
      BY <1>1, <2>2 DEF Inv, Types, awaitVars
    <3>2. m.val # None
      BY <1>2, Groups
    <3>3. Witnessed(e, m.val)'
      BY <1>2, <1>3, <3>1
    <3> QED
      BY <1>1, <1>2, <3>1, <3>2, <3>3 DEF Confirmed, handlerVars
  <2> QED
    BY <2>1, <2>2
<1>7. StoredInOrder' /\ TotalAsked' /\ ProposedAtEnd'
      /\ proposed' \in Seq([height : Nat, val : Request])
  BY <1>1 DEF Inv, StoredInOrder, TotalAsked, ProposedAtEnd, monitorVars, handlerVars
<1>8. StoredWitnessed' /\ ProposedWitnessed'
  BY <1>1, <1>3 DEF Inv, StoredWitnessed, ProposedWitnessed, monitorVars
<1> QED
  BY <1>4, <1>5, <1>6, <1>7, <1>8 DEF Inv

\* When the payload of the next epoch is stored, as many are stored as there are
\* epochs up to it.
LEMMA StoredCount ==
  ASSUME Inv, NEW b \in Correct, confirmedEpoch[b] \in Epoch
  PROVE  Stored(b, confirmedEpoch[b]) = confirmedEpoch[b] + 1
<1> DEFINE e == confirmedEpoch[b]
<1>1. e \in Nat
  BY DEF Inv, Types
<1>2. {d \in Epoch : groupCrossList[b][d] # None} \cup {e} = 0 .. e
  <2>1. Epoch \subseteq Nat /\ 0 .. (e - 1) \subseteq Epoch
    BY EpochType DEF Inv, StoredInOrder
  <2>2. ASSUME NEW d \in Epoch PROVE groupCrossList[b][d] # None <=> d < e
    BY DEF Inv, StoredInOrder
  <2>3. ASSUME NEW d \in 0 .. e
        PROVE  d \in {x \in Epoch : groupCrossList[b][x] # None} \cup {e}
    BY <1>1, <2>1, <2>2, <2>3
  <2>4. ASSUME NEW d \in {x \in Epoch : groupCrossList[b][x] # None} \cup {e}
        PROVE  d \in 0 .. e
    BY <1>1, <2>1, <2>2, <2>4
  <2> QED
    BY <2>3, <2>4
<1>3. Cardinality(0 .. e) = e + 1
  BY <1>1, FS_Interval
<1> QED
  BY <1>2, <1>3 DEF Stored

LEMMA StoreInv ==
  ASSUME Inv, NEW b \in Correct, StoreEpoch(b)
  PROVE  Inv'
<1>0. PICK e \in Nat : e = confirmedEpoch[b]
  BY DEF Inv, Types
<1>1. e \in awaitingEpochs[b] /\ e \in Epoch /\ ~ended[b]
  BY <1>0 DEF StoreEpoch, AtHead, Inv, Types
<1>2. Confirmed(e) /\ msgLocal[b] \in Request /\ msgLocal[b] # None
  BY <1>1 DEF Inv, Types, AwaitingConfirmed
<1>3. Stored(b, e) = e + 1
  BY <1>0, <1>1, StoredCount
<1>4. /\ awaitingEpochs' = [awaitingEpochs EXCEPT ![b] = (@ \ Stale(b)) \ {e}]
      /\ awaitingEpochsMap' = [awaitingEpochsMap EXCEPT ![b] = @ \ {e}]
      /\ groupCrossList' = [groupCrossList EXCEPT ![b][e] = msgLocal[b]]
      /\ confirmedEpoch' = [confirmedEpoch EXCEPT ![b] = @ + 1]
      /\ UNCHANGED <<net, leaderVars, handlerVars>>
  BY <1>0 DEF StoreEpoch
<1>5. \/ /\ e + 1 = reqNum[b] /\ ended' = [ended EXCEPT ![b] = TRUE]
         /\ proposed' = IF b = Proposer
                          THEN proposed \o [i \in 1 .. (e + 1) |->
                                              [height |-> i, val |-> msgLocal[b]]]
                          ELSE proposed
      \/ UNCHANGED <<ended, proposed>>
  BY <1>0, <1>3 DEF StoreEpoch
<1>6. /\ \A c, d, v : Holds(c, d, v)' = Holds(c, d, v)
      /\ \A d, v : Witnessed(d, v)' = Witnessed(d, v)
  BY <1>4 DEF Holds, Witnessed, leaderVars
<1>7. Types'
  <2>1. /\ awaitingEpochs' \in [Correct -> SUBSET Epoch]
        /\ awaitingEpochsMap' \in [Correct -> SUBSET Epoch]
    BY <1>4 DEF Inv, Types
  <2>3. confirmedEpoch' \in [Correct -> Nat]
    BY <1>4 DEF Inv, Types
  <2>4. ended' \in [Correct -> BOOLEAN]
    BY <1>5 DEF Inv, Types
  <2>2. groupCrossList' \in [Correct -> [Epoch -> Request \cup {None}]]
    BY <1>2, <1>4 DEF Inv, Types
  <2> QED
    BY <1>4, <2>1, <2>2, <2>3, <2>4 DEF Inv, Types, leaderVars, handlerVars
<1>8. NetSound' /\ VotesHold'
  BY <1>4, <1>6 DEF Inv, NetSound, VotesHold, leaderVars
<1>9. AwaitingConfirmed'
  <2>1. \A c \in Correct : awaitingEpochs'[c] \subseteq awaitingEpochs[c]
    BY <1>4 DEF Inv, Types
  <2> QED
    BY <1>4, <1>6, <2>1 DEF Inv, AwaitingConfirmed, Confirmed, handlerVars
<1>10. /\ \A c \in Correct : confirmedEpoch'[c] = IF c = b THEN e + 1 ELSE confirmedEpoch[c]
       /\ \A c \in Correct, d \in Epoch :
            groupCrossList'[c][d] = IF c = b /\ d = e THEN msgLocal[b] ELSE groupCrossList[c][d]
  BY <1>0, <1>1, <1>4 DEF Inv, Types
<1>11. StoredInOrder'
  <2> SUFFICES ASSUME NEW c \in Correct
               PROVE  /\ 0 .. (confirmedEpoch'[c] - 1) \subseteq Epoch
                      /\ \A d \in Epoch : groupCrossList'[c][d] # None <=> d < confirmedEpoch'[c]
    BY DEF StoredInOrder
  <2>1. CASE c # b
    BY <1>10, <2>1 DEF Inv, StoredInOrder
  <2>2. CASE c = b
    <3>1. 0 .. (e - 1) \subseteq Epoch /\ confirmedEpoch'[c] = e + 1
      BY <1>0, <1>10, <2>2 DEF Inv, StoredInOrder
    <3>2. 0 .. (confirmedEpoch'[c] - 1) \subseteq Epoch
      BY <1>1, <3>1
    <3>3. ASSUME NEW d \in Epoch PROVE groupCrossList'[c][d] # None <=> d < e + 1
      <4>1. d \in Nat
        BY EpochType
      <4>2. CASE d = e
        BY <1>2, <1>10, <2>2, <4>2
      <4>3. CASE d # e
        BY <1>0, <1>10, <2>2, <4>1, <4>3 DEF Inv, StoredInOrder
      <4> QED
        BY <4>2, <4>3
    <3> QED
      BY <3>1, <3>2, <3>3
  <2> QED
    BY <2>1, <2>2
<1>12. TotalAsked'
  BY <1>4 DEF Inv, TotalAsked, handlerVars
<1>13. StoredWitnessed'
  <2> SUFFICES ASSUME NEW c \in Correct, NEW d \in Epoch, groupCrossList'[c][d] # None
               PROVE  Confirmed(d)
    BY <1>6 DEF StoredWitnessed, Confirmed
  <2> QED
    BY <1>2, <1>10 DEF Inv, StoredWitnessed, Confirmed
<1>14. CASE UNCHANGED proposed
  <2>1. ProposedAtEnd'
    BY <1>5, <1>14 DEF Inv, ProposedAtEnd, Types
  <2>2. ProposedWitnessed'
    BY <1>6, <1>14 DEF Inv, ProposedWitnessed
  <2> QED
    BY <1>7, <1>8, <1>9, <1>11, <1>12, <1>13, <1>14, <2>1, <2>2 DEF Inv
<1>15. CASE proposed' # proposed
  <2> DEFINE blocks == [i \in 1 .. (e + 1) |-> [height |-> i, val |-> msgLocal[b]]]
  <2>1. /\ b = Proposer /\ e + 1 = reqNum[b] /\ ended' = [ended EXCEPT ![b] = TRUE]
        /\ proposed = <<>> /\ proposed' = <<>> \o blocks
    BY <1>1, <1>5, <1>15 DEF Inv, ProposedAtEnd
  <2>2. blocks \in Seq([height : Nat, val : Request]) /\ Len(blocks) = e + 1
    BY <1>2
  <2>3. \A i \in 1 .. (e + 1) : blocks[i].height = i
    OBVIOUS
  <2> HIDE DEF blocks
  <2>4. proposed' = blocks
    BY <2>1, <2>2
  <2>5. ProposedAtEnd'
    BY <1>7, <2>1 DEF ProposedAtEnd, Inv, Types
  <2>6. PICK w \in Request : reqNum[b] = NumReq[w]
    BY <2>1 DEF Inv, TotalAsked
  <2>7. \A i \in 1 .. (e + 1) : Confirmed(i - 1)
    <3> SUFFICES ASSUME NEW i \in 1 .. (e + 1) PROVE Confirmed(i - 1)
      OBVIOUS
    <3>1. CASE i = e + 1
      BY <1>2, <3>1
    <3>2. CASE i # e + 1
      <4>1. i - 1 \in 0 .. (e - 1)
        BY <3>2
      <4>2. i - 1 \in Epoch /\ groupCrossList[b][i - 1] # None
        BY <1>0, <4>1 DEF Inv, StoredInOrder
      <4> QED
        BY <4>2 DEF Inv, StoredWitnessed, Confirmed
    <3> QED
      BY <3>1, <3>2
  <2>8. ProposedWitnessed'
    <3>1. Len(proposed') = NumReq[w] /\ DOMAIN proposed' = 1 .. (e + 1)
      BY <2>1, <2>2, <2>4, <2>6
    <3> QED
      BY <1>6, <2>3, <2>4, <2>7, <3>1 DEF ProposedWitnessed, Confirmed
  <2> QED
    BY <1>7, <1>8, <1>9, <1>11, <1>12, <1>13, <2>2, <2>4, <2>5, <2>8 DEF Inv
<1> QED
  BY <1>14, <1>15

LEMMA DropInv ==
  ASSUME Inv, NEW b \in Correct, DropStale(b)
  PROVE  Inv'
<1>1. /\ awaitingEpochs' = [awaitingEpochs EXCEPT ![b] = @ \ Stale(b)]
      /\ UNCHANGED <<net, leaderVars, handlerVars, awaitingEpochsMap, monitorVars>>
  BY DEF DropStale
<1>2. /\ \A c, d, v : Holds(c, d, v)' = Holds(c, d, v)
      /\ \A d, v : Witnessed(d, v)' = Witnessed(d, v)
  BY <1>1 DEF Holds, Witnessed, leaderVars
<1>3. Types'
  BY <1>1 DEF Inv, Types, leaderVars, handlerVars, monitorVars
<1>4. NetSound' /\ VotesHold'
  BY <1>1, <1>2 DEF Inv, NetSound, VotesHold, leaderVars
<1>5. AwaitingConfirmed'
  <2>1. \A c \in Correct : awaitingEpochs'[c] \subseteq awaitingEpochs[c]
    BY <1>1 DEF Inv, Types
  <2> QED
    BY <1>1, <1>2, <2>1 DEF Inv, AwaitingConfirmed, Confirmed, handlerVars
<1>6. StoredInOrder' /\ TotalAsked' /\ ProposedAtEnd'
      /\ proposed' \in Seq([height : Nat, val : Request])
  BY <1>1 DEF Inv, StoredInOrder, TotalAsked, ProposedAtEnd, monitorVars, handlerVars
<1>7. StoredWitnessed' /\ ProposedWitnessed'
  BY <1>1, <1>2 DEF Inv, StoredWitnessed, ProposedWitnessed, monitorVars
<1> QED
  BY <1>3, <1>4, <1>5, <1>6, <1>7 DEF Inv

LEMMA InvStep == Inv /\ [Next]_vars => Inv'
<1> SUFFICES ASSUME Inv, [Next]_vars PROVE Inv'
  OBVIOUS
<1>1. CASE UNCHANGED vars
  <2> USE <1>1 DEF vars, leaderVars, handlerVars, awaitVars, monitorVars
  <2>1. \A c, d, v : Holds(c, d, v)' = Holds(c, d, v)
    BY DEF Holds
  <2>2. \A d, v : Witnessed(d, v)' = Witnessed(d, v)
    BY <2>1 DEF Witnessed
  <2>3. Types' /\ NetSound' /\ VotesHold'
    BY <2>1, <2>2 DEF Inv, Types, NetSound, VotesHold
  <2> QED
    BY <2>2, <2>3, NodesKept DEF Inv
<1> QED
  BY <1>1, StartInv, RepInv, CheckInv, CrossInv, ConfirmInv, StoreInv, DropInv
  DEF Next, HandleGroupSigMessage, ConfirmStatusMonitor

\* Every variable has its type in every reachable state, for any number of nodes
\* and requests.
THEOREM SigGroupTypes == Spec => []TypeOK
<1>1. Inv => TypeOK
  BY DEF Inv, Types, TypeOK
<1> QED
  BY <1>1, InvInit, InvStep, PTL DEF Spec

\* Whatever the order of messages and halves of handlers, a node stores an epoch
\* only when a quorum of group B holds it for one request.
THEOREM StoredEpochsWitnessed == Spec => []StoredWitnessed
<1>1. Inv => StoredWitnessed
  BY DEF Inv
<1> QED
  BY <1>1, InvInit, InvStep, PTL DEF Spec

\* Node 4 proposes all the instances of a request, in their order and once, and
\* only when a quorum of group B holds each of them.
THEOREM ProposalsWitnessed == Spec => []ProposedWitnessed
<1>1. Inv => ProposedWitnessed
  BY DEF Inv
<1> QED
  BY <1>1, InvInit, InvStep, PTL DEF Spec
=============================================================================
