----------------------------- MODULE ADD_proofs -----------------------------
(***************************************************************************)
(* Dissemination with any number of nodes, requests and instances, in both *)
(* modes, with faulty nodes in both groups: up to t of them make up a      *)
(* CROSS, and up to f a SHARE.                                             *)
(***************************************************************************)
EXTENDS ADD, QuorumSizes_proofs, FiniteSetTheorems

(***************************************************************************)
(* The invariant                                                           *)
(***************************************************************************)

\* TypeOK, but for what a decoding gives.
Types ==
  /\ crossSent \in [Relay -> SUBSET Request]
  /\ net \in [Correct -> SUBSET Message]
  /\ panicked \subseteq Correct
  /\ votes \in [Correct -> [Instance -> SUBSET (A \cup B)]]
  /\ crossCompleteList \in [Correct -> [Instance -> Share \cup {None}]]
  /\ tShareList \in [Correct -> [Instance -> [Slot -> Share \cup {None}]]]
  /\ retries \in [Correct -> [Instance -> 0 .. MaxRetries]]
  /\ queued = [b \in Correct |-> [i \in Instance |-> queued[b][i]]]
  /\ localM = [b \in Correct |-> [i \in Instance |-> localM[b][i]]]

\* The nodes of A that run this code and relayed a request with instance i.
Relayers(i) == {a \in Relay : \E v \in crossSent[a] : i < NumReq[v]}
Relayed(i) == Relayers(i) # {}

\* A CROSS on its way is that of a node that relayed the instance, and a SHARE is
\* the one that its node passes on.
NetSound ==
  \A b \in Correct : \A m \in net[b] :
    /\ m.type = "CROSS" => m.from \in Relayers(m.inst)
    /\ m.type = "SHARE" => m.from \in Correct /\ crossCompleteList[m.from][m.inst] = m.share

\* Only those that relayed an instance, and faulty nodes, are counted for it.
VotesRelayed ==
  \A b \in Correct, i \in Instance : votes[b][i] \subseteq Relayers(i) \cup Forgers("CROSS")

\* Whoever passes a share on has the votes of a node that relayed the instance.
CompletesRelayed ==
  \A b \in Correct, i \in Instance : crossCompleteList[b][i] # None => Relayed(i)

\* The shares of a node that runs this code are the one that it passes on.
SharesPassedOn ==
  \A b \in Correct, i \in Instance, c \in Slot :
    tShareList[b][i][c] # None =>
      \/ c \in Forgers("SHARE")
      \/ c \in Correct /\ tShareList[b][i][c] = crossCompleteList[c][i]

\* What is queued, kept or tried again was relayed.
ResultsRelayed ==
  \A b \in Correct, i \in Instance : Has(b, i) \/ retries[b][i] > 0 => Relayed(i)

Inv ==
  Types /\ NetSound /\ VotesRelayed /\ CompletesRelayed /\ SharesPassedOn /\ ResultsRelayed

(***************************************************************************)
(* Types, and the quorums                                                  *)
(***************************************************************************)

LEMMA GroupTypes ==
  /\ IsFiniteSet(A) /\ IsFiniteSet(B) /\ IsFiniteSet(A \cup B) /\ A \cap B = {}
  /\ IsFiniteSet(Slot) /\ B \subseteq Slot /\ Slot \subseteq Int
  /\ Relay \subseteq A /\ Correct \subseteq B
  /\ Forgers("CROSS") \subseteq A \cup B /\ Forgers("SHARE") \subseteq A \cup B
  /\ (Relay \cup Correct) \cap (Forgers("CROSS") \cup Forgers("SHARE")) = {}
<1>1. NumA \in Nat /\ NumB \in Nat /\ NumA >= 4
  BY Groups
<1>2. IsFiniteSet(A) /\ IsFiniteSet(B) /\ IsFiniteSet(Slot)
  BY <1>1, FS_Interval DEF A, B, Slot
<1>3. IsFiniteSet(A \cup B)
  BY <1>2, FS_Union
<1>4. A \cap B = {} /\ B \subseteq Slot /\ Slot \subseteq Int
  BY <1>1 DEF A, B, Slot
<1>5. \A f \in Forged : f[2].from \in A \cup B /\ f[2].from \notin Relay \cup Correct
  BY Forgeries DEF Message
<1>6. /\ Forgers("CROSS") \subseteq A \cup B /\ Forgers("SHARE") \subseteq A \cup B
      /\ (Relay \cup Correct) \cap (Forgers("CROSS") \cup Forgers("SHARE")) = {}
  BY <1>5 DEF Forgers
<1> QED
  BY <1>2, <1>3, <1>4, <1>6, Groups

LEMMA InstanceType ==
  /\ Instance \subseteq Nat
  /\ \A v \in Value : NumReq[v] \in Nat \ {0}
  /\ \A v \in Value : \A i \in 0 .. (NumReq[v] - 1) : i \in Instance /\ i < NumReq[v]
BY Groups DEF Instance

LEMMA MessageFields ==
  ASSUME NEW m \in Message
  PROVE  /\ m.inst \in Instance /\ m.share \in Share /\ m.share # None
         /\ m.from \in A \cup B
BY Forgeries DEF Message

\* A message that is made up carries the number of one that makes it up.
LEMMA ForgedFields ==
  ASSUME NEW b, NEW m, <<b, m>> \in Forged
  PROVE  /\ m \in Message
         /\ m.type = "CROSS" => m.from \in Forgers("CROSS")
         /\ m.type = "SHARE" => m.from \in Forgers("SHARE")
<1> DEFINE f == <<b, m>>
<1>1. f \in Forged /\ f[2] = m
  OBVIOUS
<1> HIDE DEF f
<1>2. m \in Message
  BY <1>1, Forgeries
<1>3. /\ m.type = "CROSS" => m.from \in Forgers("CROSS")
      /\ m.type = "SHARE" => m.from \in Forgers("SHARE")
  BY <1>1 DEF Forgers
<1> QED
  BY <1>2, <1>3

\* What a handler is given is a message.
LEMMA Handled ==
  ASSUME Inv, NEW b \in Correct, NEW m \in Incoming(b)
  PROVE  m \in Message
BY Forgeries DEF Inv, Types, Incoming

\* More than t senders of a CROSS have not all made it up.
LEMMA CrossQuorumMet ==
  ASSUME NEW S \in SUBSET (A \cup B), NEW T, S \subseteq T \cup Forgers("CROSS"),
         Cardinality(S) >= CrossQuorum
  PROVE  T # {}
<1> DEFINE F == Forgers("CROSS")
<1>1. Cardinality(F) < CrossQuorum /\ CrossQuorum \in Int
  BY Groups, Forgeries DEF CrossQuorum, CrossSmallQuorum, GoDiv
<1>2. IsFiniteSet(S) /\ IsFiniteSet(F)
  BY GroupTypes, FS_Subset
<1>3. S \subseteq F => Cardinality(S) <= Cardinality(F)
  BY <1>2, FS_Subset
<1>4. Cardinality(S) \in Nat /\ Cardinality(F) \in Nat
  BY <1>2, FS_CardinalityType
<1>5. ~(S \subseteq F)
  BY <1>1, <1>3, <1>4
<1> QED
  BY <1>5

\* More than f shares have not all been made up.
LEMMA ShareQuorumMet ==
  ASSUME NEW list, GetLenByInt(list) > FSize(NumB)
  PROVE  \E c \in Slot \ Forgers("SHARE") : list[c] # None
<1> DEFINE S == {c \in Slot : list[c] # None}
           F == Forgers("SHARE") \cap Slot
<1>1. IsFiniteSet(S) /\ IsFiniteSet(F) /\ S \subseteq Slot
  BY GroupTypes, FS_Subset
<1>2. Cardinality(S) \in Nat /\ Cardinality(F) \in Nat
  BY <1>1, FS_CardinalityType
<1>3. Cardinality(F) <= FSize(NumB) /\ FSize(NumB) \in Nat
  BY Groups, Forgeries, FSizeBound
<1>4. Cardinality(S) > FSize(NumB)
  BY DEF GetLenByInt
<1>5. S \subseteq F => Cardinality(S) <= Cardinality(F)
  BY <1>1, FS_Subset
<1>6. ~(S \subseteq F)
  BY <1>2, <1>3, <1>4, <1>5
<1> QED
  BY <1>6

LEMMA TransmitType ==
  ASSUME NEW b, NEW got, NEW new \in [Correct -> SUBSET Message],
         net \in [Correct -> SUBSET Message], Transmit(b, got, new)
  PROVE  /\ net' \in [Correct -> SUBSET Message]
         /\ \A c \in Correct : net'[c] \subseteq net[c] \cup new[c]
BY DEF Transmit

(***************************************************************************)
(* The shares that are there, and what decoding them gives                 *)
(***************************************************************************)

\* The ranks of the senders whose shares are there number these shares from 1.
LEMMA PresentShares ==
  ASSUME NEW list \in [Slot -> Share \cup {None}]
  PROVE  LET there == {c \in Slot : list[c] # None}
             Rank(c) == Cardinality({d \in there : d <= c})
         IN  /\ IsFiniteSet(there) /\ Cardinality(there) \in Nat
             /\ \A c \in there : Rank(c) \in 1 .. Cardinality(there)
             /\ \A k \in 1 .. Cardinality(there) : \E c \in there : Rank(c) = k
             /\ \A c, d \in there : Rank(c) = Rank(d) => c = d
<1> DEFINE there == {c \in Slot : list[c] # None}
           Upto(c) == {d \in there : d <= c}
           n == Cardinality(there)
           f == [c \in there |-> Cardinality(Upto(c))]
<1>1. there \subseteq Slot /\ Slot \subseteq Int /\ IsFiniteSet(there)
  BY GroupTypes, FS_Subset
<1> HIDE DEF there
<1>2. n \in Nat /\ IsFiniteSet(1 .. n) /\ Cardinality(1 .. n) = n
  BY <1>1, FS_CardinalityType, FS_Interval
<1>3. \A c \in there : /\ IsFiniteSet(Upto(c)) /\ Cardinality(Upto(c)) \in Nat
                       /\ Cardinality(Upto(c)) <= n /\ Cardinality(Upto(c)) # 0
  <2> SUFFICES ASSUME NEW c \in there
               PROVE  /\ IsFiniteSet(Upto(c)) /\ Cardinality(Upto(c)) \in Nat
                      /\ Cardinality(Upto(c)) <= n /\ Cardinality(Upto(c)) # 0
    OBVIOUS
  <2>1. Upto(c) \in SUBSET there /\ c \in Upto(c)
    BY <1>1
  <2> HIDE DEF Upto
  <2> QED
    BY <1>1, <2>1, FS_Subset, FS_CardinalityType, FS_EmptySet
<1>4. ASSUME NEW c \in there, NEW d \in there, Cardinality(Upto(c)) = Cardinality(Upto(d)), c < d
      PROVE  FALSE
  <2>0. c \in Int /\ d \in Int
    BY <1>1
  <2>1. Upto(c) \in SUBSET Upto(d) /\ d \in Upto(d) /\ d \notin Upto(c)
    <3>1. \A e \in Upto(c) : e \in Upto(d)
      BY <1>1, <1>4, <2>0
    <3>2. d \in Upto(d) /\ d \notin Upto(c)
      BY <1>4, <2>0
    <3> HIDE DEF Upto
    <3> QED
      BY <3>1, <3>2
  <2> HIDE DEF Upto
  <2> QED
    BY <1>3, <1>4, <2>1, FS_Subset
<1>5. \A c, d \in there : Cardinality(Upto(c)) = Cardinality(Upto(d)) => c = d
  BY <1>1, <1>4
<1>6. \A c \in there : Cardinality(Upto(c)) \in 1 .. n
  BY <1>2, <1>3
<1> HIDE DEF Upto, n
<1>7. f \in Injection(there, 1 .. n)
  BY <1>5, <1>6 DEF Injection, IsInjective
<1>8. f \in Surjection(there, 1 .. n)
  <2> HIDE DEF f
  <2> QED
    BY <1>1, <1>2, <1>7, FS_Injection DEF n
<1>9. \A k \in 1 .. n : \E c \in there : Cardinality(Upto(c)) = k
  BY <1>8 DEF Surjection
<1> QED
  BY <1>1, <1>2, <1>5, <1>6, <1>9, Zenon DEF there, Upto, n

LEMMA PresentType ==
  ASSUME NEW list \in [Slot -> Share \cup {None}]
  PROVE  /\ Present(list) \in Seq(Share)
         /\ Len(Present(list)) = GetLenByInt(list) /\ GetLenByInt(list) \in Nat
<1> DEFINE there == {c \in Slot : list[c] # None}
           Rank(c) == Cardinality({d \in there : d <= c})
<1>1. /\ Cardinality(there) \in Nat
      /\ \A k \in 1 .. Cardinality(there) : \E c \in there : Rank(c) = k
  BY PresentShares
<1>2. \A c \in there : list[c] \in Share
  OBVIOUS
<1>3. Present(list) = [k \in 1 .. Cardinality(there) |-> list[CHOOSE c \in there : Rank(c) = k]]
  BY DEF Present
<1>4. GetLenByInt(list) = Cardinality(there)
  BY DEF GetLenByInt
<1> HIDE DEF there, Rank
<1>5. \A k \in 1 .. Cardinality(there) : list[CHOOSE c \in there : Rank(c) = k] \in Share
  BY <1>1, <1>2
<1> QED
  BY <1>1, <1>3, <1>4, <1>5

\* With four nodes in A the places are those of group B.
LEMMA SlotIsB ==
  ASSUME NumA = 4
  PROVE  Slot = B /\ GroupB = NumB
BY Groups DEF Slot, B, GroupB, GroupBByStartQuorum

\* When all shares are there, that of the first node of B is the first.
LEMMA PresentAll ==
  ASSUME NumA = 4, NEW list \in [Slot -> Share \cup {None}], \A c \in B : list[c] # None
  PROVE  Present(list) = [k \in 1 .. NumB |-> list[NumA + k - 1]] /\ GetLenByInt(list) = NumB
<1> DEFINE Rank(c) == Cardinality({d \in B : d <= c})
<1>0. NumA \in Nat /\ NumB \in Nat /\ B = NumA .. (NumA + NumB - 1)
  BY Groups DEF B
<1>1. {c \in Slot : list[c] # None} = B
  BY SlotIsB
<1>2. Cardinality(B) = NumB
  BY <1>0, FS_Interval
<1>3. \A c \in B : Rank(c) = c - NumA + 1
  <2> SUFFICES ASSUME NEW c \in B PROVE Rank(c) = c - NumA + 1
    OBVIOUS
  <2>1. {d \in B : d <= c} = NumA .. c
    BY <1>0
  <2>2. Cardinality(NumA .. c) = c - NumA + 1
    BY <1>0, FS_Interval
  <2> QED
    BY <2>1, <2>2
<1>4. Present(list) = [k \in 1 .. NumB |-> list[CHOOSE c \in B : Rank(c) = k]]
  <2> DEFINE Listed(S) == [k \in 1 .. Cardinality(S) |->
                            list[CHOOSE c \in S : Cardinality({d \in S : d <= c}) = k]]
  <2>1. Present(list) = Listed({c \in Slot : list[c] # None})
    BY DEF Present
  <2>2. Listed(B) = [k \in 1 .. NumB |-> list[CHOOSE c \in B : Rank(c) = k]]
    BY <1>2
  <2> HIDE DEF Listed
  <2> QED
    BY <1>1, <2>1, <2>2
<1> HIDE DEF Rank
<1>5. \A k \in 1 .. NumB : (CHOOSE c \in B : Rank(c) = k) = NumA + k - 1
  <2> SUFFICES ASSUME NEW k \in 1 .. NumB PROVE (CHOOSE c \in B : Rank(c) = k) = NumA + k - 1
    OBVIOUS
  <2>1. NumA + k - 1 \in B /\ \A c \in B : Rank(c) = k <=> c = NumA + k - 1
    BY <1>0, <1>3
  <2> QED
    BY <2>1
<1> QED
  BY <1>1, <1>2, <1>4, <1>5 DEF GetLenByInt

LEMMA DecodeType ==
  ASSUME NEW shares \in Seq(Share)
  PROVE  /\ Decode(shares) \in Value \cup {Nothing} \cup Seq(Share) /\ Decode(shares) # None
         /\ ADDDecode(shares) \subseteq Value \cup {Nothing} \cup Seq(Share)
<1>1. ASSUME NEW v \in Value, shares = [j \in 1 .. thresOEC |-> Encode(v)[j - 1]]
      PROVE  shares[1][1] \in Value
  <2>1. 1 \in 1 .. thresOEC /\ 0 \in 0 .. (NumB - 1)
    BY Groups, FSizeBound DEF thresOEC
  <2> QED
    BY <1>1, <2>1 DEF Encode
<1>2. Decode(shares) \in Value \cup {Nothing} \cup Seq(Share)
  BY <1>1 DEF Decode
<1> QED
  BY <1>2, Forgeries DEF ADDDecode

(***************************************************************************)
(* Every step keeps the invariant                                          *)
(***************************************************************************)

LEMMA InvInit == Init => Inv
<1> SUFFICES ASSUME Init PROVE Inv
  OBVIOUS
<1>1. /\ crossSent \in [Relay -> SUBSET Request] /\ net \in [Correct -> SUBSET Message]
      /\ panicked \subseteq Correct
      /\ votes \in [Correct -> [Instance -> SUBSET (A \cup B)]]
      /\ crossCompleteList \in [Correct -> [Instance -> Share \cup {None}]]
  BY DEF Init
<1>2. tShareList \in [Correct -> [Instance -> [Slot -> Share \cup {None}]]]
  BY DEF Init
<1>3. retries \in [Correct -> [Instance -> 0 .. MaxRetries]]
  BY DEF Init, MaxRetries
<1>4. /\ queued = [b \in Correct |-> [i \in Instance |-> queued[b][i]]]
      /\ localM = [b \in Correct |-> [i \in Instance |-> localM[b][i]]]
  BY DEF Init, InitADD
<1>5. Types
  BY <1>1, <1>2, <1>3, <1>4 DEF Types
<1>6. NetSound /\ VotesRelayed /\ CompletesRelayed /\ SharesPassedOn
  BY DEF Init, NetSound, VotesRelayed, CompletesRelayed, SharesPassedOn
<1>7. ResultsRelayed
  BY DEF Init, InitADD, ResultsRelayed, Has
<1> QED
  BY <1>5, <1>6, <1>7 DEF Inv

LEMMA DisperseInv ==
  ASSUME Inv, NEW a \in Relay, NEW v \in Request, Disperse(a, v)
  PROVE  Inv'
<1> DEFINE new == [b \in Correct |->
                    {Msg("CROSS", a, i, Encode(v)[b - NumA]) : i \in 0 .. (NumReq[v] - 1)}]
<1>1. /\ crossSent' = [crossSent EXCEPT ![a] = @ \cup {v}]
      /\ Transmit(None, {}, new)
      /\ UNCHANGED <<mode, panicked, crossVars, shareVars>>
  BY DEF Disperse
<1>2. v \in Value /\ a \in A /\ NumReq[v] \in Nat /\ NumA \in Nat /\ NumB \in Nat
  BY Groups
<1>3. \A b \in Correct : Encode(v)[b - NumA] \in Share
  <2> SUFFICES ASSUME NEW b \in Correct PROVE Encode(v)[b - NumA] \in Share
    OBVIOUS
  <2>1. b - NumA \in 0 .. (NumB - 1)
    BY <1>2, GroupTypes DEF B
  <2> QED
    BY <1>2, <2>1 DEF Encode, Share
<1>4. \A b \in Correct : \A m \in new[b] :
        /\ m \in Message /\ m.type = "CROSS" /\ m.from = a
        /\ m.inst \in Instance /\ m.inst < NumReq[v]
  BY <1>2, <1>3, InstanceType DEF Msg, Message
<1>5. new \in [Correct -> SUBSET Message]
  BY <1>4
<1> HIDE DEF new
<1>6. /\ net' \in [Correct -> SUBSET Message]
      /\ \A c \in Correct : net'[c] \subseteq net[c] \cup new[c]
  BY <1>1, <1>5, TransmitType DEF Inv, Types
<1>7. /\ crossSent' \in [Relay -> SUBSET Request]
      /\ \A r \in Relay : crossSent[r] \subseteq crossSent'[r]
      /\ v \in crossSent'[a]
  BY <1>1 DEF Inv, Types
<1>8. \A i : Relayers(i) \subseteq Relayers(i)' /\ (Relayed(i) => Relayed(i)')
  BY <1>7 DEF Relayers, Relayed
<1>9. Types'
  BY <1>1, <1>6, <1>7 DEF Inv, Types, crossVars, shareVars
<1>10. NetSound'
  <2> SUFFICES ASSUME NEW b \in Correct, NEW m \in net'[b]
               PROVE  /\ m.type = "CROSS" => m.from \in Relayers(m.inst)'
                      /\ m.type = "SHARE" => /\ m.from \in Correct
                                             /\ crossCompleteList'[m.from][m.inst] = m.share
    BY DEF NetSound
  <2>1. CASE m \in net[b]
    BY <1>1, <1>8, <2>1 DEF Inv, NetSound, crossVars
  <2>2. CASE m \in new[b]
    BY <1>4, <1>7, <2>2 DEF Relayers
  <2> QED
    BY <1>6, <2>1, <2>2
<1>11. VotesRelayed' /\ CompletesRelayed'
  BY <1>1, <1>8 DEF Inv, VotesRelayed, CompletesRelayed, crossVars
<1>12. SharesPassedOn'
  BY <1>1 DEF Inv, SharesPassedOn, crossVars, shareVars
<1>13. ResultsRelayed'
  BY <1>1, <1>8 DEF Inv, ResultsRelayed, Has, shareVars
<1> QED
  BY <1>9, <1>10, <1>11, <1>12, <1>13 DEF Inv

LEMMA CountCrossInv ==
  ASSUME Inv, NEW b \in Correct, NEW m \in Message, CountCross(b, m)
  PROVE  Inv'
<1> DEFINE i == m.inst
           senders == votes[b][i] \cup {m.from}
           share == [c \in Correct |-> {Msg("SHARE", b, i, m.share)}]
<1>1. /\ m.type = "CROSS" /\ Receivable(b, m)
      /\ votes' = [votes EXCEPT ![b][i] = senders]
      /\ UNCHANGED <<crossSent, panicked, shareVars>>
      /\ \/ /\ Cardinality(senders) >= CrossQuorum /\ crossCompleteList[b][i] = None
            /\ crossCompleteList' = [crossCompleteList EXCEPT ![b][i] = m.share]
            /\ Transmit(b, {m}, share)
         \/ /\ UNCHANGED crossCompleteList
            /\ Transmit(b, {m}, NoMessage)
  BY DEF CountCross, Complete
<1>2. i \in Instance /\ m.share \in Share /\ m.share # None /\ m.from \in A \cup B /\ b \in B
  BY <1>1, MessageFields, GroupTypes
<1>3. m.from \in Relayers(i) \cup Forgers("CROSS")
  BY <1>1, ForgedFields DEF Receivable, Inv, NetSound
<1>4. senders \subseteq Relayers(i) \cup Forgers("CROSS") /\ senders \subseteq A \cup B
  BY <1>2, <1>3 DEF Inv, Types, VotesRelayed
<1>5. Cardinality(senders) >= CrossQuorum => Relayed(i)
  <2> HIDE DEF senders
  <2> QED
    BY <1>4, CrossQuorumMet DEF Relayed
<1>6. /\ share \in [Correct -> SUBSET Message] /\ NoMessage \in [Correct -> SUBSET Message]
      /\ \A c \in Correct : \A k \in share[c] :
           k.type = "SHARE" /\ k.from = b /\ k.inst = i /\ k.share = m.share
      /\ \A c \in Correct : NoMessage[c] = {}
  BY <1>2 DEF Msg, Message, NoMessage
<1> HIDE DEF share, senders
<1>7. net' \in [Correct -> SUBSET Message]
  BY <1>1, <1>6, TransmitType DEF Inv, Types
<1>8. \A c \in Correct : \A k \in net'[c] :
        \/ k \in net[c]
        \/ /\ k.type = "SHARE" /\ k.from = b /\ k.inst = i /\ k.share = m.share
           /\ crossCompleteList' = [crossCompleteList EXCEPT ![b][i] = m.share]
  BY <1>1, <1>6, TransmitType DEF Inv, Types
<1>9. crossCompleteList' \in [Correct -> [Instance -> Share \cup {None}]]
  <2> DEFINE full == [crossCompleteList EXCEPT ![b][i] = m.share]
  <2>1. full \in [Correct -> [Instance -> Share \cup {None}]]
    BY <1>2 DEF Inv, Types
  <2>2. crossCompleteList' = full \/ crossCompleteList' = crossCompleteList
    BY <1>1
  <2> HIDE DEF full
  <2> QED
    BY <2>1, <2>2 DEF Inv, Types
<1>10. \A c \in Correct, j \in Instance :
         /\ crossCompleteList[c][j] # None => crossCompleteList'[c][j] = crossCompleteList[c][j]
         /\ crossCompleteList'[c][j] # None => crossCompleteList[c][j] # None \/ Relayed(j)
  <2>1. CASE /\ Relayed(i) /\ crossCompleteList[b][i] = None
             /\ crossCompleteList' = [crossCompleteList EXCEPT ![b][i] = m.share]
    BY <1>2, <2>1 DEF Inv, Types
  <2>2. CASE crossCompleteList' = crossCompleteList
    BY <2>2
  <2> QED
    BY <1>1, <1>5, <2>1, <2>2
<1>11. votes' \in [Correct -> [Instance -> SUBSET (A \cup B)]]
  BY <1>1, <1>2, <1>4 DEF Inv, Types
<1>12. \A c \in Correct, j \in Instance :
         votes'[c][j] = IF c = b /\ j = i THEN senders ELSE votes[c][j]
  BY <1>1, <1>2 DEF Inv, Types
<1>13. \A j : Relayers(j)' = Relayers(j) /\ Relayed(j)' = Relayed(j)
  BY <1>1 DEF Relayers, Relayed
<1>14. Types'
  BY <1>1, <1>7, <1>9, <1>11 DEF Inv, Types, shareVars
<1>15. NetSound'
  <2> SUFFICES ASSUME NEW c \in Correct, NEW k \in net'[c]
               PROVE  /\ k.type = "CROSS" => k.from \in Relayers(k.inst)'
                      /\ k.type = "SHARE" => /\ k.from \in Correct
                                             /\ crossCompleteList'[k.from][k.inst] = k.share
    BY DEF NetSound
  <2>1. CASE k \in net[c]
    <3>1. k \in Message
      BY <2>1 DEF Inv, Types
    <3> QED
      BY <1>10, <1>13, <2>1, <3>1, MessageFields DEF Inv, NetSound
  <2>2. CASE k \notin net[c]
    <3>1. /\ k.type = "SHARE" /\ k.from = b /\ k.inst = i /\ k.share = m.share
          /\ crossCompleteList' = [crossCompleteList EXCEPT ![b][i] = m.share]
      BY <1>8, <2>2
    <3>2. crossCompleteList'[b][i] = m.share
      BY <1>2, <3>1 DEF Inv, Types
    <3> QED
      BY <3>1, <3>2
  <2> QED
    BY <2>1, <2>2
<1>16. VotesRelayed' /\ CompletesRelayed'
  BY <1>4, <1>10, <1>12, <1>13 DEF Inv, VotesRelayed, CompletesRelayed
<1>17. SharesPassedOn'
  BY <1>1, <1>10 DEF Inv, SharesPassedOn, shareVars
<1>18. ResultsRelayed'
  BY <1>1, <1>13 DEF Inv, ResultsRelayed, Has, shareVars
<1> QED
  BY <1>14, <1>15, <1>16, <1>17, <1>18 DEF Inv

\* StartQuorum sees as many nodes as group B has, or more.
LEMMA GroupBSize ==
  /\ GroupB \in Nat \ {0} /\ NumB <= GroupB
  /\ FSize(NumB) \in Nat /\ FSize(GroupB) \in Nat /\ FSize(NumB) <= FSize(GroupB)
<1>1. GroupB \in Nat \ {0} /\ NumB \in Nat \ {0} /\ NumB <= GroupB
  BY Groups DEF GroupB, GroupBByStartQuorum
<1> QED
  BY <1>1, FSizeBound, FSizeMonotone

\* A panic stops one node and changes nothing else.
LEMMA PanicInv ==
  ASSUME Inv, NEW b \in Correct, NEW m, PanicOnInsert(b, m)
  PROVE  Inv'
<1>1. \A i : Relayers(i)' = Relayers(i) /\ Relayed(i)' = Relayed(i)
  BY DEF PanicOnInsert, Relayers, Relayed
<1>2. Types' /\ NetSound' /\ VotesRelayed' /\ CompletesRelayed'
  BY <1>1 DEF PanicOnInsert, crossVars, shareVars, Inv, Types, NetSound, VotesRelayed,
              CompletesRelayed
<1>3. SharesPassedOn' /\ ResultsRelayed'
  BY <1>1 DEF PanicOnInsert, crossVars, shareVars, Inv, SharesPassedOn, ResultsRelayed, Has
<1> QED
  BY <1>2, <1>3 DEF Inv

\* What HandleShare and ADDHandleShare have in common: the list that b decodes
\* from, and the instance it does that for.
ListAfter(b, m) == [tShareList[b][m.inst] EXCEPT ![m.from] = m.share]

LEMMA ListInv ==
  ASSUME Inv, NEW b \in Correct, NEW m \in Message, m.type = "SHARE", Receivable(b, m),
         m.from \in Slot
  PROVE  /\ ListAfter(b, m) \in [Slot -> Share \cup {None}]
         /\ \A c \in Slot : ListAfter(b, m)[c] # None =>
              \/ c \in Forgers("SHARE")
              \/ c \in Correct /\ ListAfter(b, m)[c] = crossCompleteList[c][m.inst]
         /\ GetLenByInt(ListAfter(b, m)) > FSize(NumB) => Relayed(m.inst)
<1>1. m.inst \in Instance /\ m.share \in Share /\ m.from \in Slot
  BY MessageFields
<1>2. tShareList[b][m.inst] \in [Slot -> Share \cup {None}]
  BY <1>1 DEF Inv, Types
<1>3. \/ m.from \in Forgers("SHARE")
      \/ m.from \in Correct /\ m.share = crossCompleteList[m.from][m.inst]
  BY ForgedFields DEF Receivable, Inv, NetSound
<1>4. ListAfter(b, m) \in [Slot -> Share \cup {None}]
  BY <1>1, <1>2 DEF ListAfter
<1>5. \A c \in Slot : ListAfter(b, m)[c] # None =>
        \/ c \in Forgers("SHARE")
        \/ c \in Correct /\ ListAfter(b, m)[c] = crossCompleteList[c][m.inst]
  <2>1. \A c \in Slot : ListAfter(b, m)[c] = IF c = m.from THEN m.share ELSE tShareList[b][m.inst][c]
    BY <1>1, <1>2 DEF ListAfter
  <2> QED
    BY <1>1, <1>3, <2>1 DEF Inv, SharesPassedOn
<1>6. ASSUME GetLenByInt(ListAfter(b, m)) > FSize(NumB) PROVE Relayed(m.inst)
  <2>1. PICK c \in Slot \ Forgers("SHARE") : ListAfter(b, m)[c] # None
    BY <1>6, ShareQuorumMet
  <2>2. c \in Correct /\ crossCompleteList[c][m.inst] # None
    BY <1>5, <2>1
  <2> QED
    BY <1>1, <2>2 DEF Inv, CompletesRelayed
<1> QED
  BY <1>4, <1>5, <1>6

\* What a step that only handles shares must show.
LEMMA SharesKept ==
  ASSUME Inv, NEW b, NEW got, Transmit(b, got, NoMessage), UNCHANGED <<crossSent, crossVars>>
  PROVE  /\ net' \in [Correct -> SUBSET Message]
         /\ NetSound' /\ VotesRelayed' /\ CompletesRelayed'
         /\ \A i : Relayed(i)' = Relayed(i)
<1>1. NoMessage \in [Correct -> SUBSET Message] /\ \A c \in Correct : NoMessage[c] = {}
  BY DEF NoMessage
<1>2. /\ net' \in [Correct -> SUBSET Message]
      /\ \A c \in Correct : net'[c] \subseteq net[c]
  BY <1>1, TransmitType DEF Inv, Types
<1>3. \A i : Relayers(i)' = Relayers(i) /\ Relayed(i)' = Relayed(i)
  BY DEF Relayers, Relayed
<1>4. NetSound'
  BY <1>2, <1>3 DEF Inv, NetSound, crossVars
<1>5. VotesRelayed' /\ CompletesRelayed'
  BY <1>3 DEF Inv, VotesRelayed, CompletesRelayed, crossVars
<1> QED
  BY <1>2, <1>3, <1>4, <1>5

LEMMA HandleShareInv ==
  ASSUME Inv, NEW b \in Correct, NEW m \in Message, HandleShare(b, m), ~PanicOnInsert(b, m)
  PROVE  Inv'
<1> DEFINE i == m.inst
           list == ListAfter(b, m)
<1>1. /\ m.type = "SHARE" /\ Receivable(b, m) /\ m.from \in Slot
      /\ tShareList' = [tShareList EXCEPT ![b][i] = list]
      /\ UNCHANGED <<crossSent, panicked, crossVars, localM>>
      /\ Transmit(b, {m}, NoMessage)
  BY DEF HandleShare, ListAfter
<1>2. \/ /\ GetLenByInt(list) = thresOEC
         /\ \E payload : queued' = [queued EXCEPT ![b][i] = payload]
         /\ \E n \in {MaxRetries, retries[b][i]} : retries' = [retries EXCEPT ![b][i] = n]
      \/ UNCHANGED <<retries, queued>>
  BY DEF HandleShare, ListAfter, AddItem
<1>3. /\ list \in [Slot -> Share \cup {None}]
      /\ \A c \in Slot : list[c] # None =>
           c \in Forgers("SHARE") \/ (c \in Correct /\ list[c] = crossCompleteList[c][i])
      /\ GetLenByInt(list) > FSize(NumB) => Relayed(i)
  <2>1. m.type = "SHARE" /\ Receivable(b, m) /\ m.from \in Slot
    BY <1>1
  <2>2. ListAfter(b, m) \in [Slot -> Share \cup {None}]
    BY <2>1, ListInv
  <2>3. \A c \in Slot : ListAfter(b, m)[c] # None =>
          c \in Forgers("SHARE") \/ (c \in Correct /\ ListAfter(b, m)[c] = crossCompleteList[c][m.inst])
    BY <2>1, ListInv
  <2>4. GetLenByInt(ListAfter(b, m)) > FSize(NumB) => Relayed(m.inst)
    BY <2>1, ListInv
  <2> QED
    BY <2>2, <2>3, <2>4
<1> HIDE DEF list
<1>4. GetLenByInt(list) = thresOEC => Relayed(i)
  <2>1. FSize(NumB) \in Nat
    BY Groups, FSizeBound
  <2> QED
    BY <1>3, <2>1 DEF thresOEC
<1>5. i \in Instance
  BY MessageFields
<1>6. /\ net' \in [Correct -> SUBSET Message]
      /\ NetSound' /\ VotesRelayed' /\ CompletesRelayed'
      /\ \A j : Relayed(j)' = Relayed(j)
  BY <1>1, SharesKept
<1>7. /\ tShareList' \in [Correct -> [Instance -> [Slot -> Share \cup {None}]]]
      /\ \A c \in Correct, j \in Instance :
           tShareList'[c][j] = IF c = b /\ j = i THEN list ELSE tShareList[c][j]
  BY <1>1, <1>3, <1>5 DEF Inv, Types
<1>8. retries' \in [Correct -> [Instance -> 0 .. MaxRetries]]
  <2>1. ASSUME NEW n \in {MaxRetries, retries[b][i]},
               retries' = [retries EXCEPT ![b][i] = n]
        PROVE  retries' \in [Correct -> [Instance -> 0 .. MaxRetries]]
    BY <1>5, <2>1 DEF Inv, Types, MaxRetries
  <2>2. CASE UNCHANGED retries
    BY <2>2 DEF Inv, Types
  <2> QED
    BY <1>2, <2>1, <2>2
<1>9. queued' = [c \in Correct |-> [j \in Instance |-> queued'[c][j]]]
  <2>1. CASE UNCHANGED queued
    BY <2>1 DEF Inv, Types
  <2>2. ASSUME NEW payload, queued' = [queued EXCEPT ![b][i] = payload]
        PROVE  queued' = [c \in Correct |-> [j \in Instance |-> queued'[c][j]]]
    BY <1>5, <2>2 DEF Inv, Types
  <2> QED
    BY <1>2, <2>1, <2>2
<1>10. Types'
  BY <1>1, <1>6, <1>7, <1>8, <1>9 DEF Inv, Types, crossVars
<1>11. SharesPassedOn'
  BY <1>1, <1>3, <1>7 DEF Inv, SharesPassedOn, crossVars
<1>12. ResultsRelayed'
  <2> SUFFICES ASSUME NEW c \in Correct, NEW j \in Instance, ~Relayed(j)
               PROVE  ~Has(c, j)' /\ ~(retries'[c][j] > 0)
    BY <1>6 DEF ResultsRelayed
  <2>1. ~Has(c, j) /\ ~(retries[c][j] > 0)
    BY DEF Inv, ResultsRelayed
  <2>2. queued'[c][j] = queued[c][j] /\ retries'[c][j] = retries[c][j]
    <3>1. CASE UNCHANGED <<retries, queued>>
      BY <3>1
    <3>2. ASSUME NEW payload, NEW n, c # b \/ j # i,
                 queued' = [queued EXCEPT ![b][i] = payload],
                 retries' = [retries EXCEPT ![b][i] = n]
          PROVE  queued'[c][j] = queued[c][j] /\ retries'[c][j] = retries[c][j]
      <4>1. retries'[c][j] = retries[c][j]
        BY <1>5, <3>2 DEF Inv, Types
      <4>2. queued'[c][j] = queued[c][j]
        BY <1>5, <3>2 DEF Inv, Types
      <4> QED
        BY <4>1, <4>2
    <3> QED
      BY <1>2, <1>4, <3>1, <3>2, Zenon
  <2> QED
    BY <1>1, <2>1, <2>2 DEF Has
<1> QED
  BY <1>6, <1>10, <1>11, <1>12 DEF Inv

LEMMA ADDHandleShareInv ==
  ASSUME Inv, NEW b \in Correct, NEW m \in Message, ADDHandleShare(b, m), ~PanicOnInsert(b, m)
  PROVE  Inv'
<1> DEFINE i == m.inst
           list == ListAfter(b, m)
<1>1. /\ m.type = "SHARE" /\ Receivable(b, m)
      /\ UNCHANGED <<crossSent, panicked, crossVars, retries, queued>>
      /\ Transmit(b, {m}, NoMessage)
  BY DEF ADDHandleShare, shareVars
<1>2. \/ UNCHANGED <<tShareList, localM>>
      \/ /\ m.from \in Slot
         /\ tShareList' = [tShareList EXCEPT ![b][i] = list]
         /\ \E payload \in IF GetLenByInt(list) > SQuorumSize(GroupB)
                              THEN ADDDecode(Present(list)) ELSE {Nothing} :
              localM' = [localM EXCEPT ![b][i] = IF payload = Nothing THEN @ ELSE payload]
  BY DEF ADDHandleShare, ListAfter, shareVars
<1>3. m.from \in Slot =>
      /\ list \in [Slot -> Share \cup {None}]
      /\ \A c \in Slot : list[c] # None =>
           c \in Forgers("SHARE") \/ (c \in Correct /\ list[c] = crossCompleteList[c][i])
      /\ GetLenByInt(list) > FSize(NumB) => Relayed(i)
  <2> SUFFICES ASSUME m.from \in Slot
               PROVE  /\ list \in [Slot -> Share \cup {None}]
                      /\ \A c \in Slot : list[c] # None =>
                           \/ c \in Forgers("SHARE")
                           \/ c \in Correct /\ list[c] = crossCompleteList[c][i]
                      /\ GetLenByInt(list) > FSize(NumB) => Relayed(i)
    OBVIOUS
  <2>1. m.type = "SHARE" /\ Receivable(b, m)
    BY <1>1
  <2>2. ListAfter(b, m) \in [Slot -> Share \cup {None}]
    BY <2>1, ListInv
  <2>3. \A c \in Slot : ListAfter(b, m)[c] # None =>
          c \in Forgers("SHARE") \/ (c \in Correct /\ ListAfter(b, m)[c] = crossCompleteList[c][m.inst])
    BY <2>1, ListInv
  <2>4. GetLenByInt(ListAfter(b, m)) > FSize(NumB) => Relayed(m.inst)
    BY <2>1, ListInv
  <2> QED
    BY <2>2, <2>3, <2>4
<1> HIDE DEF list
<1>4. i \in Instance
  BY MessageFields
<1>5. \/ localM' = localM
      \/ Relayed(i) /\ \E payload : localM' = [localM EXCEPT ![b][i] = payload]
  <2>1. CASE UNCHANGED localM
    BY <2>1
  <2>2. CASE GetLenByInt(list) > SQuorumSize(GroupB) /\ m.from \in Slot
    <3>1. FSize(NumB) \in Nat /\ FSize(GroupB) \in Nat /\ FSize(NumB) <= FSize(GroupB)
      BY GroupBSize
    <3>2. IsFiniteSet({c \in Slot : list[c] # None})
      BY GroupTypes, FS_Subset
    <3>3. GetLenByInt(list) \in Nat
      BY <3>2, FS_CardinalityType DEF GetLenByInt
    <3>4. Relayed(i)
      BY <1>3, <2>2, <3>1, <3>3 DEF SQuorumSize
    <3> QED
      BY <1>2, <3>4
  <2>3. CASE ~(GetLenByInt(list) > SQuorumSize(GroupB)) /\ ~UNCHANGED localM
    <3>1. localM' = [localM EXCEPT ![b][i] = @]
      BY <1>2, <2>3
    <3>2. [localM EXCEPT ![b][i] = @] = localM
      BY <1>4 DEF Inv, Types
    <3> QED
      BY <3>1, <3>2
  <2>4. UNCHANGED localM \/ m.from \in Slot
    BY <1>2
  <2> QED
    BY <2>1, <2>2, <2>3, <2>4
<1>6. /\ net' \in [Correct -> SUBSET Message]
      /\ NetSound' /\ VotesRelayed' /\ CompletesRelayed'
      /\ \A j : Relayed(j)' = Relayed(j)
  BY <1>1, SharesKept
<1>7. tShareList' \in [Correct -> [Instance -> [Slot -> Share \cup {None}]]] /\ SharesPassedOn'
  <2>1. CASE UNCHANGED tShareList
    BY <1>1, <2>1 DEF Inv, Types, SharesPassedOn, crossVars
  <2>2. CASE m.from \in Slot /\ tShareList' = [tShareList EXCEPT ![b][i] = list]
    <3>1. /\ tShareList' \in [Correct -> [Instance -> [Slot -> Share \cup {None}]]]
          /\ \A c \in Correct, j \in Instance :
               tShareList'[c][j] = IF c = b /\ j = i THEN list ELSE tShareList[c][j]
      BY <1>3, <1>4, <2>2 DEF Inv, Types
    <3> QED
      BY <1>1, <1>3, <2>2, <3>1 DEF Inv, SharesPassedOn, crossVars
  <2>3. \/ UNCHANGED tShareList
        \/ m.from \in Slot /\ tShareList' = [tShareList EXCEPT ![b][i] = list]
    BY <1>2
  <2> QED
    BY <2>1, <2>2, <2>3
<1>8. localM' = [c \in Correct |-> [j \in Instance |-> localM'[c][j]]]
  <2>1. CASE UNCHANGED localM
    BY <2>1 DEF Inv, Types
  <2>2. ASSUME NEW payload, localM' = [localM EXCEPT ![b][i] = payload]
        PROVE  localM' = [c \in Correct |-> [j \in Instance |-> localM'[c][j]]]
    BY <1>4, <2>2 DEF Inv, Types
  <2> QED
    BY <1>5, <2>1, <2>2
<1>9. Types'
  BY <1>1, <1>6, <1>7, <1>8 DEF Inv, Types, crossVars
<1>10. ResultsRelayed'
  <2> SUFFICES ASSUME NEW c \in Correct, NEW j \in Instance, ~Relayed(j)
               PROVE  ~Has(c, j)' /\ ~(retries'[c][j] > 0)
    BY <1>6 DEF ResultsRelayed
  <2>1. ~Has(c, j) /\ ~(retries[c][j] > 0)
    BY DEF Inv, ResultsRelayed
  <2>2. localM'[c][j] = localM[c][j]
    <3>1. ASSUME NEW payload, c # b \/ j # i, localM' = [localM EXCEPT ![b][i] = payload]
          PROVE  localM'[c][j] = localM[c][j]
      BY <1>4, <3>1 DEF Inv, Types
    <3> QED
      BY <1>5, <3>1
  <2> QED
    BY <1>1, <2>1, <2>2 DEF Has
<1> QED
  BY <1>6, <1>7, <1>9, <1>10 DEF Inv

LEMMA OECAgainInv ==
  ASSUME Inv, NEW b \in Correct, NEW i \in Instance, OECAgain(b, i)
  PROVE  Inv'
<1>1. /\ retries[b][i] > 0
      /\ UNCHANGED <<crossSent, net, panicked, crossVars, tShareList, localM>>
      /\ \E n \in {retries[b][i] - 1, 0} : retries' = [retries EXCEPT ![b][i] = n]
      /\ \/ UNCHANGED queued
         \/ \E payload : queued' = [queued EXCEPT ![b][i] = payload]
  BY DEF OECAgain, AddItem
<1>2. Relayed(i) /\ retries[b][i] \in 0 .. MaxRetries /\ MaxRetries \in Nat
  BY <1>1 DEF Inv, Types, ResultsRelayed, MaxRetries
<1>3. \A j : Relayers(j)' = Relayers(j) /\ Relayed(j)' = Relayed(j)
  BY <1>1 DEF Relayers, Relayed
<1>4. retries' \in [Correct -> [Instance -> 0 .. MaxRetries]]
  <2>1. ASSUME NEW n \in {retries[b][i] - 1, 0}
        PROVE  [retries EXCEPT ![b][i] = n] \in [Correct -> [Instance -> 0 .. MaxRetries]]
    <3>1. n \in 0 .. MaxRetries
      BY <1>1, <1>2
    <3> QED
      BY <3>1 DEF Inv, Types
  <2> QED
    BY <1>1, <2>1
<1>5. queued' = [c \in Correct |-> [j \in Instance |-> queued'[c][j]]]
  <2>1. CASE UNCHANGED queued
    BY <2>1 DEF Inv, Types
  <2>2. ASSUME NEW payload, queued' = [queued EXCEPT ![b][i] = payload]
        PROVE  queued' = [c \in Correct |-> [j \in Instance |-> queued'[c][j]]]
    BY <2>2 DEF Inv, Types
  <2> QED
    BY <1>1, <2>1, <2>2
<1>6. Types'
  BY <1>1, <1>4, <1>5 DEF Inv, Types, crossVars
<1>7. NetSound' /\ VotesRelayed' /\ CompletesRelayed' /\ SharesPassedOn'
  BY <1>1, <1>3
     DEF Inv, NetSound, VotesRelayed, CompletesRelayed, SharesPassedOn, crossVars
<1>8. ResultsRelayed'
  <2> SUFFICES ASSUME NEW c \in Correct, NEW j \in Instance, ~Relayed(j)
               PROVE  ~Has(c, j)' /\ ~(retries'[c][j] > 0)
    BY <1>3 DEF ResultsRelayed
  <2>1. ~Has(c, j) /\ ~(retries[c][j] > 0)
    BY DEF Inv, ResultsRelayed
  <2>2. queued'[c][j] = queued[c][j] /\ retries'[c][j] = retries[c][j]
    <3>1. c # b \/ j # i
      BY <1>2
    <3>2. retries'[c][j] = retries[c][j]
      BY <1>1, <3>1 DEF Inv, Types
    <3>3. ASSUME NEW payload, queued' = [queued EXCEPT ![b][i] = payload]
          PROVE  queued'[c][j] = queued[c][j]
      BY <3>1, <3>3 DEF Inv, Types
    <3> QED
      BY <1>1, <3>2, <3>3
  <2> QED
    BY <1>1, <2>1, <2>2 DEF Has
<1> QED
  BY <1>6, <1>7, <1>8 DEF Inv

LEMMA Invariance == Spec => []Inv
<1>1. Inv /\ [Next]_vars => Inv'
  <2> SUFFICES ASSUME Inv, [Next]_vars PROVE Inv'
    OBVIOUS
  <2>1. ASSUME NEW a \in Relay, NEW v \in Request, SendCross(a, v) \/ ADDSendCross(a, v)
        PROVE  Inv'
    BY <2>1, DisperseInv DEF SendCross, ADDSendCross
  <2>2. ASSUME NEW b \in Correct, NEW m \in Message,
               HandleAddCross(b, m) \/ HandleShare(b, m) \/ ADDHandleADDMsg(b, m)
        PROVE  Inv'
    BY <2>2, CountCrossInv, HandleShareInv, ADDHandleShareInv, PanicInv
       DEF HandleAddCross, ADDHandleADDMsg, ADDHandleAddCross
  <2>3. ASSUME NEW b \in Correct, NEW i \in Instance, OECAgain(b, i) PROVE Inv'
    BY <2>3, OECAgainInv
  <2>4. CASE UNCHANGED vars
    <3>1. \A i : Relayers(i)' = Relayers(i) /\ Relayed(i)' = Relayed(i)
      BY <2>4 DEF vars, Relayers, Relayed
    <3>2. Types' /\ NetSound' /\ VotesRelayed' /\ CompletesRelayed'
      BY <2>4, <3>1
         DEF vars, crossVars, shareVars, Inv, Types, NetSound, VotesRelayed, CompletesRelayed
    <3>3. SharesPassedOn' /\ ResultsRelayed'
      BY <2>4, <3>1
         DEF vars, crossVars, shareVars, Inv, SharesPassedOn, ResultsRelayed, Has
    <3> QED
      BY <3>2, <3>3 DEF Inv
  <2> QED
    BY <2>1, <2>2, <2>3, <2>4, Handled DEF Next
<1> QED
  BY <1>1, InvInit, PTL DEF Spec

(***************************************************************************)
(* What is queued and kept                                                 *)
(***************************************************************************)

\* The rest of TypeOK.
ResultTypes ==
  /\ mode \in {"CrossRA", "CrossABC"}
  /\ GlobalTotalEpoch \in [Correct -> Nat]
  /\ \A b \in Correct, i \in Instance :
       /\ queued[b][i] \in Value \cup {Nothing, None} \cup Seq(Share)
       /\ localM[b][i] \in Value \cup {None} \cup Seq(Share)

\* AddItem gives an instance what it has none of.
LEMMA AddItemEffect ==
  ASSUME Inv, NEW b \in Correct, NEW i \in Instance, NEW payload, AddItem(b, i, payload)
  PROVE  \A c \in Correct, j \in Instance :
           /\ queued'[c][j] \in {queued[c][j], payload}
           /\ queued[c][j] # None => queued'[c][j] = queued[c][j]
           /\ payload # None => queued'[b][i] # None
<1>1. queued = [c \in Correct |-> [j \in Instance |-> queued[c][j]]]
  BY DEF Inv, Types
<1>2. queued' = [queued EXCEPT ![b][i] = IF @ = None THEN payload ELSE @]
  BY DEF AddItem
<1>3. queued' = [c \in Correct |-> [j \in Instance |->
                   IF c = b /\ j = i /\ queued[b][i] = None THEN payload ELSE queued[c][j]]]
  BY <1>1, <1>2
<1> QED
  BY <1>3

LEMMA ResultTypesStep == Inv /\ ResultTypes /\ [Next]_vars => ResultTypes'
<1> SUFFICES ASSUME Inv, ResultTypes, [Next]_vars PROVE ResultTypes'
  OBVIOUS
<1> USE DEF ResultTypes
<1>1. ASSUME NEW a \in Relay, NEW v \in Request, SendCross(a, v) \/ ADDSendCross(a, v)
      PROVE  ResultTypes'
  BY <1>1 DEF SendCross, ADDSendCross, Disperse, crossVars, shareVars
<1>2. ASSUME NEW b \in Correct, NEW m \in Message, HandleAddCross(b, m) \/ ADDHandleAddCross(b, m)
      PROVE  ResultTypes'
  <2>1. UNCHANGED <<mode, queued, localM>>
    BY <1>2 DEF HandleAddCross, ADDHandleAddCross, CountCross, shareVars
  <2>2. NumReq[m.share[1]] \in Nat
    <3>1. m.share \in Share
      BY MessageFields
    <3>2. m.share[1] \in Value
      BY <3>1 DEF Share
    <3> QED
      BY <3>2, Groups
  <2>3. \E n \in Nat : GlobalTotalEpoch' = [GlobalTotalEpoch EXCEPT ![b] = n]
    BY <1>2, <2>2 DEF HandleAddCross, ADDHandleAddCross
  <2> QED
    BY <2>1, <2>3
<1>3. ASSUME NEW b \in Correct, NEW m \in Message, HandleShare(b, m) PROVE ResultTypes'
  <2>0. CASE PanicOnInsert(b, m)
    BY <2>0 DEF PanicOnInsert, crossVars, shareVars
  <2> SUFFICES ASSUME ~PanicOnInsert(b, m) PROVE ResultTypes'
    BY <2>0
  <2>1. /\ m.type = "SHARE" /\ Receivable(b, m) /\ m.from \in Slot
        /\ UNCHANGED <<mode, GlobalTotalEpoch, localM>>
        /\ AddItem(b, m.inst, Decode(Present(ListAfter(b, m)))) \/ UNCHANGED queued
    BY <1>3 DEF HandleShare, ListAfter, crossVars
  <2>2. Decode(Present(ListAfter(b, m))) \in Value \cup {Nothing} \cup Seq(Share) /\ m.inst \in Instance
    BY <2>1, ListInv, PresentType, DecodeType, MessageFields
  <2>3. \A c \in Correct, j \in Instance :
          queued'[c][j] \in {queued[c][j], Decode(Present(ListAfter(b, m)))}
    BY <2>1, <2>2, AddItemEffect
  <2> QED
    BY <2>1, <2>2, <2>3
<1>4. ASSUME NEW b \in Correct, NEW m \in Message, ADDHandleShare(b, m) PROVE ResultTypes'
  <2>0. CASE UNCHANGED <<mode, GlobalTotalEpoch, queued, localM>>
    BY <2>0
  <2> SUFFICES ASSUME ~UNCHANGED <<mode, GlobalTotalEpoch, queued, localM>> PROVE ResultTypes'
    BY <2>0
  <2>1. /\ m.type = "SHARE" /\ Receivable(b, m) /\ m.from \in Slot
        /\ UNCHANGED <<mode, GlobalTotalEpoch, queued>>
        /\ \/ UNCHANGED localM
           \/ \E payload \in ADDDecode(Present(ListAfter(b, m))) \cup {Nothing} :
                localM' = [localM EXCEPT ![b][m.inst] = IF payload = Nothing THEN @ ELSE payload]
    BY <1>4 DEF ADDHandleShare, ListAfter, PanicOnInsert, crossVars, shareVars
  <2>2. /\ ADDDecode(Present(ListAfter(b, m))) \subseteq Value \cup {Nothing} \cup Seq(Share)
        /\ m.inst \in Instance
    BY <2>1, ListInv, PresentType, DecodeType, MessageFields
  <2>3. ASSUME NEW payload \in Value \cup {Nothing} \cup Seq(Share),
               localM' = [localM EXCEPT ![b][m.inst] = IF payload = Nothing THEN @ ELSE payload]
        PROVE  \A c \in Correct, j \in Instance : localM'[c][j] \in Value \cup {None} \cup Seq(Share)
    <3>1. \A c \in Correct, j \in Instance :
            \/ localM'[c][j] = localM[c][j]
            \/ payload # Nothing /\ localM'[c][j] = payload
      BY <2>2, <2>3 DEF Inv, Types
    <3> QED
      BY <3>1
  <2>4. \A c \in Correct, j \in Instance : localM'[c][j] \in Value \cup {None} \cup Seq(Share)
    BY <2>1, <2>2, <2>3
  <2> QED
    BY <2>1, <2>4
<1>5. ASSUME NEW b \in Correct, NEW i \in Instance, OECAgain(b, i) PROVE ResultTypes'
  <2>1. /\ UNCHANGED <<mode, GlobalTotalEpoch, localM>>
        /\ AddItem(b, i, Present(tShareList[b][i])) \/ UNCHANGED queued
    BY <1>5 DEF OECAgain, crossVars
  <2>2. tShareList[b][i] \in [Slot -> Share \cup {None}]
    BY DEF Inv, Types
  <2>3. Present(tShareList[b][i]) \in Seq(Share)
    BY <2>2, PresentType
  <2>4. \A c \in Correct, j \in Instance :
          queued'[c][j] \in {queued[c][j], Present(tShareList[b][i])}
    BY <2>1, AddItemEffect
  <2> QED
    BY <2>1, <2>3, <2>4
<1>6. CASE UNCHANGED vars
  BY <1>6 DEF vars, crossVars, shareVars
<1> QED
  BY <1>1, <1>2, <1>3, <1>4, <1>5, <1>6, Handled DEF Next, ADDHandleADDMsg

LEMMA ResultTypesInvariant == Spec => [](Inv /\ ResultTypes)
<1>1. Init => ResultTypes
  BY DEF Init, InitADD, ResultTypes
<1>2. Inv /\ ResultTypes /\ [Next]_vars => ResultTypes'
  BY ResultTypesStep
<1> QED
  BY <1>1, <1>2, Invariance, PTL DEF Spec

(***************************************************************************)
(* Mode CrossRA: no share is lost                                          *)
(***************************************************************************)

\* The votes of all of Relay make a quorum: no more than t nodes are silent.
AtWork == Cardinality(Relay) >= CrossQuorum

\* What a node of A relayed is on its way to each node of B, or counted.
CrossKept ==
  \A b \in Correct, a \in Relay, v \in Request : \A i \in 0 .. (NumReq[v] - 1) :
    v \in crossSent[a] =>
      Msg("CROSS", a, i, Encode(v)[b - NumA]) \in net[b] \/ a \in votes[b][i]

\* A node with a quorum of votes has passed its share on.
QuorumsComplete ==
  \A b \in Correct, i \in Instance :
    Cardinality(votes[b][i]) >= CrossQuorum => crossCompleteList[b][i] # None

\* A share passed on is on its way to each node of B, or there.
ShareKept ==
  mode = "CrossRA" => \A b, c \in Correct, i \in Instance : crossCompleteList[c][i] # None =>
    \/ Msg("SHARE", c, i, crossCompleteList[c][i]) \in net[b]
    \/ tShareList[b][i][c] # None

\* A node with enough shares has queued the instance.
EnoughQueued ==
  mode = "CrossRA" => \A b \in Correct, i \in Instance :
    GetLenByInt(tShareList[b][i]) >= thresOEC => queued[b][i] # None

NothingLost == CrossKept /\ QuorumsComplete /\ ShareKept /\ EnoughQueued

LEMMA TransmitKeeps ==
  ASSUME NEW b, NEW got, NEW new, Transmit(b, got, new), NEW c \in Correct
  PROVE  /\ \A m \in net[c] : m \in net'[c] \/ (c = b /\ m \in got)
         /\ new[c] \subseteq net'[c]
BY DEF Transmit

LEMMA MsgFields ==
  ASSUME NEW t, NEW n, NEW i, NEW s, NEW m, m = Msg(t, n, i, s)
  PROVE  m.type = t /\ m.from = n /\ m.inst = i /\ m.share = s
BY DEF Msg

LEMMA LostInit == Init => NothingLost
<1> SUFFICES ASSUME Init PROVE NothingLost
  OBVIOUS
<1>1. CrossKept /\ ShareKept
  BY DEF Init, CrossKept, ShareKept
<1>2. QuorumsComplete
  <2>1. /\ Cardinality(Forgers("CROSS")) \in Nat /\ Cardinality(Forgers("CROSS")) < CrossQuorum
        /\ CrossQuorum \in Int
    <3>1. IsFiniteSet(Forgers("CROSS"))
      BY GroupTypes, FS_Subset
    <3> QED
      BY <3>1, Groups, Forgeries, FS_CardinalityType DEF CrossQuorum, CrossSmallQuorum, GoDiv
  <2>2. ~(Cardinality({}) >= CrossQuorum)
    BY <2>1, FS_EmptySet
  <2> QED
    BY <2>2 DEF Init, QuorumsComplete
<1>3. EnoughQueued
  <2>1. \A b \in Correct, i \in Instance : GetLenByInt(tShareList[b][i]) = 0
    <3> SUFFICES ASSUME NEW b \in Correct, NEW i \in Instance
                 PROVE  GetLenByInt(tShareList[b][i]) = 0
      OBVIOUS
    <3>1. {c \in Slot : tShareList[b][i][c] # None} = {}
      BY DEF Init
    <3> QED
      BY <3>1, FS_EmptySet DEF GetLenByInt
  <2>2. ~(0 >= thresOEC)
    BY Groups, FSizeBound DEF thresOEC
  <2> QED
    BY <2>1, <2>2 DEF EnoughQueued
<1> QED
  BY <1>1, <1>2, <1>3 DEF NothingLost

LEMMA DisperseLost ==
  ASSUME Inv, NothingLost, NEW a \in Relay, NEW v \in Request, Disperse(a, v)
  PROVE  NothingLost'
<1> DEFINE new == [b \in Correct |->
                    {Msg("CROSS", a, i, Encode(v)[b - NumA]) : i \in 0 .. (NumReq[v] - 1)}]
<1>1. /\ crossSent' = [crossSent EXCEPT ![a] = @ \cup {v}]
      /\ Transmit(None, {}, new)
      /\ UNCHANGED <<mode, votes, crossCompleteList, tShareList, queued>>
  BY DEF Disperse, crossVars, shareVars
<1>2. \A b \in Correct : \A i \in 0 .. (NumReq[v] - 1) :
        Msg("CROSS", a, i, Encode(v)[b - NumA]) \in new[b]
  OBVIOUS
<1> HIDE DEF new
<1>3. \A b \in Correct : net[b] \subseteq net'[b] /\ new[b] \subseteq net'[b]
  BY <1>1, TransmitKeeps
<1>4. CrossKept'
  <2> SUFFICES ASSUME NEW b \in Correct, NEW c \in Relay, NEW w \in Request,
                      NEW i \in 0 .. (NumReq[w] - 1), w \in crossSent'[c]
               PROVE  Msg("CROSS", c, i, Encode(w)[b - NumA]) \in net'[b] \/ c \in votes'[b][i]
    BY DEF CrossKept
  <2>1. w \in crossSent[c] \/ (c = a /\ w = v)
    BY <1>1 DEF Inv, Types
  <2>2. CASE w \in crossSent[c]
    BY <1>1, <1>3, <2>2 DEF NothingLost, CrossKept
  <2>3. CASE c = a /\ w = v
    BY <1>2, <1>3, <2>3
  <2> QED
    BY <2>1, <2>2, <2>3
<1>5. ShareKept'
  BY <1>1, <1>3 DEF NothingLost, ShareKept
<1>6. QuorumsComplete' /\ EnoughQueued'
  BY <1>1 DEF NothingLost, QuorumsComplete, EnoughQueued
<1> QED
  BY <1>4, <1>5, <1>6 DEF NothingLost

LEMMA CountCrossLost ==
  ASSUME Inv, NothingLost, NEW b \in Correct, NEW m \in Message, CountCross(b, m)
  PROVE  NothingLost'
<1> DEFINE i == m.inst
           senders == votes[b][i] \cup {m.from}
           share == [c \in Correct |-> {Msg("SHARE", b, i, m.share)}]
<1>1. /\ m.type = "CROSS"
      /\ votes' = [votes EXCEPT ![b][i] = senders]
      /\ UNCHANGED <<mode, crossSent, tShareList, queued>>
      /\ \/ /\ crossCompleteList[b][i] = None
            /\ crossCompleteList' = [crossCompleteList EXCEPT ![b][i] = m.share]
            /\ Transmit(b, {m}, share)
         \/ /\ Cardinality(senders) >= CrossQuorum => crossCompleteList[b][i] # None
            /\ UNCHANGED crossCompleteList
            /\ Transmit(b, {m}, NoMessage)
  BY DEF CountCross, Complete, shareVars
<1>2. i \in Instance /\ m.share # None
  BY MessageFields
<1>3. \A c \in Correct : Msg("SHARE", b, i, m.share) \in share[c]
  OBVIOUS
<1>4. \A c \in Correct, j \in Instance :
        votes'[c][j] = IF c = b /\ j = i THEN senders ELSE votes[c][j]
  BY <1>1, <1>2 DEF Inv, Types
<1> HIDE DEF share
<1>5. \A c \in Correct : \A k \in net[c] : k \in net'[c] \/ (c = b /\ k = m)
  BY <1>1, TransmitKeeps
<1>6. \/ /\ crossCompleteList[b][i] = None
         /\ \A c \in Correct : Msg("SHARE", b, i, m.share) \in net'[c]
         /\ \A c \in Correct, j \in Instance :
              crossCompleteList'[c][j] = IF c = b /\ j = i THEN m.share ELSE crossCompleteList[c][j]
      \/ /\ Cardinality(senders) >= CrossQuorum => crossCompleteList[b][i] # None
         /\ UNCHANGED crossCompleteList
  <2>1. CASE /\ crossCompleteList[b][i] = None
             /\ crossCompleteList' = [crossCompleteList EXCEPT ![b][i] = m.share]
             /\ Transmit(b, {m}, share)
    <3>1. \A c \in Correct : Msg("SHARE", b, i, m.share) \in net'[c]
      BY <1>3, <2>1, TransmitKeeps
    <3>2. \A c \in Correct, j \in Instance :
            crossCompleteList'[c][j] = IF c = b /\ j = i THEN m.share ELSE crossCompleteList[c][j]
      BY <1>2, <2>1 DEF Inv, Types
    <3> QED
      BY <2>1, <3>1, <3>2
  <2> QED
    BY <1>1, <2>1
<1>7. CrossKept'
  <2> SUFFICES ASSUME NEW c \in Correct, NEW a \in Relay, NEW v \in Request,
                      NEW j \in 0 .. (NumReq[v] - 1), v \in crossSent'[a]
               PROVE  Msg("CROSS", a, j, Encode(v)[c - NumA]) \in net'[c] \/ a \in votes'[c][j]
    BY DEF CrossKept
  <2>1. j \in Instance
    BY InstanceType, Groups
  <2>2. Msg("CROSS", a, j, Encode(v)[c - NumA]) \in net[c] \/ a \in votes[c][j]
    BY <1>1 DEF NothingLost, CrossKept
  <2>3. Msg("CROSS", a, j, Encode(v)[c - NumA]) = m => a = m.from /\ j = i
    BY MsgFields
  <2> QED
    BY <1>4, <1>5, <2>1, <2>2, <2>3
<1> HIDE DEF senders
<1>8. QuorumsComplete'
  BY <1>2, <1>4, <1>6 DEF NothingLost, QuorumsComplete
<1>9. ShareKept'
  <2> SUFFICES ASSUME mode = "CrossRA", NEW c \in Correct, NEW d \in Correct, NEW j \in Instance,
                      crossCompleteList'[d][j] # None
               PROVE  \/ Msg("SHARE", d, j, crossCompleteList'[d][j]) \in net'[c]
                      \/ tShareList[c][j][d] # None
    BY <1>1 DEF ShareKept
  <2>1. CASE crossCompleteList'[d][j] = crossCompleteList[d][j]
    <3>1. \/ Msg("SHARE", d, j, crossCompleteList[d][j]) \in net[c]
          \/ tShareList[c][j][d] # None
      BY <2>1 DEF NothingLost, ShareKept
    <3>2. Msg("SHARE", d, j, crossCompleteList[d][j]) # m
      BY <1>1, MsgFields
    <3> QED
      BY <1>5, <2>1, <3>1, <3>2
  <2>2. CASE crossCompleteList'[d][j] # crossCompleteList[d][j]
    <3>1. d = b /\ j = i /\ crossCompleteList'[d][j] = m.share
          /\ Msg("SHARE", b, i, m.share) \in net'[c]
      BY <1>6, <2>2
    <3> QED
      BY <3>1
  <2> QED
    BY <2>1, <2>2
<1>10. EnoughQueued'
  BY <1>1 DEF NothingLost, EnoughQueued
<1> QED
  BY <1>7, <1>8, <1>9, <1>10 DEF NothingLost

\* Handling shares leaves the votes, and every CROSS that is on its way.
LEMMA VotesLost ==
  ASSUME NothingLost, NEW b, NEW m, m.type = "SHARE", Transmit(b, {m}, NoMessage),
         UNCHANGED <<crossSent, crossVars>>
  PROVE  CrossKept' /\ QuorumsComplete'
<1>1. CrossKept'
  <2> SUFFICES ASSUME NEW c \in Correct, NEW a \in Relay, NEW v \in Request,
                      NEW j \in 0 .. (NumReq[v] - 1), v \in crossSent'[a]
               PROVE  Msg("CROSS", a, j, Encode(v)[c - NumA]) \in net'[c] \/ a \in votes'[c][j]
    BY DEF CrossKept
  <2>1. Msg("CROSS", a, j, Encode(v)[c - NumA]) \in net[c] \/ a \in votes[c][j]
    BY DEF NothingLost, CrossKept
  <2>2. Msg("CROSS", a, j, Encode(v)[c - NumA]) # m
    BY MsgFields
  <2>3. \A k \in net[c] : k # m => k \in net'[c]
    BY TransmitKeeps
  <2> QED
    BY <2>1, <2>2, <2>3 DEF crossVars
<1> QED
  BY <1>1 DEF NothingLost, QuorumsComplete, crossVars

\* A share adds at most one to the count, so the threshold is not jumped.
LEMMA HandleShareLost ==
  ASSUME Inv, NothingLost, NEW b \in Correct, NEW m \in Message, HandleShare(b, m), ~PanicOnInsert(b, m)
  PROVE  NothingLost'
<1> DEFINE i == m.inst
           list == ListAfter(b, m)
           old == tShareList[b][i]
<1>1. /\ m.type = "SHARE" /\ Receivable(b, m) /\ m.from \in Slot
      /\ tShareList' = [tShareList EXCEPT ![b][i] = list]
      /\ UNCHANGED <<mode, crossSent, crossVars>>
      /\ Transmit(b, {m}, NoMessage)
      /\ \/ GetLenByInt(list) = thresOEC /\ AddItem(b, i, Decode(Present(list)))
         \/ GetLenByInt(list) # thresOEC /\ UNCHANGED queued
  BY DEF HandleShare, ListAfter
<1>2. i \in Instance /\ m.share # None /\ m.from \in Slot
  BY <1>1, MessageFields
<1>3. list \in [Slot -> Share \cup {None}] /\ old \in [Slot -> Share \cup {None}]
  BY <1>1, <1>2, ListInv DEF Inv, Types
<1>4. \A c \in Slot : list[c] = IF c = m.from THEN m.share ELSE old[c]
  BY <1>2, <1>3 DEF ListAfter
<1>5. Decode(Present(list)) # None
  BY <1>3, PresentType, DecodeType
<1> HIDE DEF list
<1>6. \A c \in Correct, j \in Instance :
        tShareList'[c][j] = IF c = b /\ j = i THEN list ELSE tShareList[c][j]
  BY <1>1, <1>2 DEF Inv, Types
<1>7. CrossKept' /\ QuorumsComplete'
  BY <1>1, VotesLost
<1>8. ShareKept'
  <2> SUFFICES ASSUME mode = "CrossRA", NEW c \in Correct, NEW d \in Correct, NEW j \in Instance,
                      crossCompleteList[d][j] # None
               PROVE  \/ Msg("SHARE", d, j, crossCompleteList[d][j]) \in net'[c]
                      \/ tShareList'[c][j][d] # None
    BY <1>1 DEF ShareKept, crossVars
  <2>1. \/ Msg("SHARE", d, j, crossCompleteList[d][j]) \in net[c]
        \/ tShareList[c][j][d] # None
    BY DEF NothingLost, ShareKept
  <2>2. \/ Msg("SHARE", d, j, crossCompleteList[d][j]) \in net'[c]
        \/ c = b /\ Msg("SHARE", d, j, crossCompleteList[d][j]) = m
        \/ tShareList[c][j][d] # None
    BY <1>1, <2>1, TransmitKeeps
  <2>3. d \in Slot
    BY GroupTypes
  <2>4. Msg("SHARE", d, j, crossCompleteList[d][j]) = m => d = m.from /\ j = i
    BY MsgFields
  <2> QED
    BY <1>2, <1>4, <1>6, <2>2, <2>3, <2>4
<1>9. EnoughQueued'
  <2> SUFFICES ASSUME mode = "CrossRA", NEW c \in Correct, NEW j \in Instance,
                      GetLenByInt(tShareList'[c][j]) >= thresOEC
               PROVE  queued'[c][j] # None
    BY <1>1 DEF EnoughQueued
  <2>1. queued[c][j] # None => queued'[c][j] # None
    BY <1>1, <1>2, AddItemEffect
  <2>2. CASE c # b \/ j # i
    BY <1>6, <2>1, <2>2 DEF NothingLost, EnoughQueued
  <2>3. CASE c = b /\ j = i
    <3> DEFINE S == {d \in Slot : old[d] # None}
    <3>1. {d \in Slot : list[d] # None} = S \cup {m.from}
      BY <1>2, <1>4
    <3>2. IsFiniteSet(S)
      BY GroupTypes, FS_Subset
    <3>3. GetLenByInt(list) <= GetLenByInt(old) + 1
      <4>1. Cardinality(S \cup {m.from}) <= Cardinality(S) + 1 /\ Cardinality(S) \in Nat
        <5> HIDE DEF S
        <5>1. Cardinality(S) \in Nat
          BY <3>2, FS_CardinalityType
        <5>2. Cardinality(S \cup {m.from}) =
                IF m.from \in S THEN Cardinality(S) ELSE Cardinality(S) + 1
          BY <3>2, FS_AddElement
        <5> QED
          BY <5>1, <5>2
      <4> QED
        BY <3>1, <4>1 DEF GetLenByInt
    <3>4. GetLenByInt(list) \in Nat /\ GetLenByInt(old) \in Nat
      BY <1>3, PresentType
    <3>5. thresOEC \in Nat
      BY Groups, FSizeBound DEF thresOEC
    <3>6. CASE GetLenByInt(list) = thresOEC
      BY <1>1, <1>2, <1>5, <2>3, <3>6, AddItemEffect
    <3>7. CASE GetLenByInt(list) # thresOEC
      <4>1. GetLenByInt(old) >= thresOEC
        BY <1>6, <2>3, <3>3, <3>4, <3>5, <3>7
      <4> QED
        BY <2>1, <2>3, <4>1 DEF NothingLost, EnoughQueued
    <3> QED
      BY <3>6, <3>7
  <2> QED
    BY <2>2, <2>3
<1> QED
  BY <1>7, <1>8, <1>9 DEF NothingLost

LEMMA PanicLost ==
  ASSUME NothingLost, NEW b, NEW m, PanicOnInsert(b, m)
  PROVE  NothingLost'
BY DEF PanicOnInsert, crossVars, shareVars, NothingLost, CrossKept, QuorumsComplete, ShareKept,
       EnoughQueued

LEMMA LostStep == Inv /\ NothingLost /\ [Next]_vars => NothingLost'
<1> SUFFICES ASSUME Inv, NothingLost, [Next]_vars PROVE NothingLost'
  OBVIOUS
<1>1. ASSUME NEW a \in Relay, NEW v \in Request, SendCross(a, v) \/ ADDSendCross(a, v)
      PROVE  NothingLost'
  BY <1>1, DisperseLost DEF SendCross, ADDSendCross
<1>2. ASSUME NEW b \in Correct, NEW m \in Message, HandleAddCross(b, m) \/ ADDHandleAddCross(b, m)
      PROVE  NothingLost'
  BY <1>2, CountCrossLost DEF HandleAddCross, ADDHandleAddCross
<1>3. ASSUME NEW b \in Correct, NEW m \in Message, HandleShare(b, m) PROVE NothingLost'
  BY <1>3, HandleShareLost, PanicLost
<1>4. ASSUME NEW b \in Correct, NEW m \in Message, ADDHandleShare(b, m) PROVE NothingLost'
  <2>0. CASE PanicOnInsert(b, m)
    BY <2>0, PanicLost
  <2> SUFFICES ASSUME ~PanicOnInsert(b, m) PROVE NothingLost'
    BY <2>0
  <2>1. /\ mode = "CrossABC" /\ mode' = mode /\ m.type = "SHARE"
        /\ Transmit(b, {m}, NoMessage) /\ UNCHANGED <<crossSent, crossVars>>
    BY <1>4 DEF ADDHandleShare
  <2>2. CrossKept' /\ QuorumsComplete'
    BY <2>1, VotesLost
  <2> QED
    BY <2>1, <2>2 DEF NothingLost, ShareKept, EnoughQueued
<1>5. ASSUME NEW b \in Correct, NEW i \in Instance, OECAgain(b, i) PROVE NothingLost'
  <2>1. /\ UNCHANGED <<mode, crossSent, net, crossVars, tShareList>>
        /\ AddItem(b, i, Present(tShareList[b][i])) \/ UNCHANGED queued
    BY <1>5 DEF OECAgain
  <2>2. \A c \in Correct, j \in Instance : queued[c][j] # None => queued'[c][j] # None
    BY <2>1, AddItemEffect
  <2> QED
    BY <2>1, <2>2
       DEF NothingLost, CrossKept, QuorumsComplete, ShareKept, EnoughQueued, crossVars
<1>6. CASE UNCHANGED vars
  BY <1>6 DEF vars, crossVars, shareVars, NothingLost, CrossKept, QuorumsComplete, ShareKept,
              EnoughQueued
<1> QED
  BY <1>1, <1>2, <1>3, <1>4, <1>5, <1>6, Handled DEF Next, ADDHandleADDMsg

\* When nothing is on its way every running node has the votes of all of Relay and
\* the shares of all running nodes.
LEMMA AllQueued ==
  ASSUME AtWork, Inv, NothingLost
  PROVE  EveryNodeQueues
<1> SUFFICES ASSUME Idle, mode = "CrossRA", Cardinality(Running) > 2 * FSize(NumB),
                    NEW b \in Running, NEW v \in Request,
                    NEW i \in Instance, i < NumReq[v]
             PROVE  queued[b][i] # None
  BY DEF EveryNodeQueues
<1>1. i \in 0 .. (NumReq[v] - 1)
  BY InstanceType, Groups
<1>0. Running \subseteq Correct
  BY DEF Running
<1>2. ASSUME NEW c \in Running PROVE crossCompleteList[c][i] # None
  <2>1. Relay \subseteq votes[c][i]
    BY <1>0, <1>1 DEF NothingLost, CrossKept, Idle
  <2>2. votes[c][i] \subseteq A \cup B
    BY <1>0 DEF Inv, Types
  <2>3. IsFiniteSet(votes[c][i]) /\ IsFiniteSet(Relay)
    BY <2>2, GroupTypes, FS_Subset
  <2>4. /\ Cardinality(Relay) <= Cardinality(votes[c][i])
        /\ Cardinality(Relay) \in Nat /\ Cardinality(votes[c][i]) \in Nat
    BY <2>1, <2>3, FS_Subset, FS_CardinalityType
  <2>5. CrossQuorum \in Int
    BY Groups DEF CrossQuorum, CrossSmallQuorum, GoDiv
  <2>6. Cardinality(votes[c][i]) >= CrossQuorum
    BY <2>4, <2>5 DEF AtWork
  <2> QED
    BY <1>0, <2>6 DEF NothingLost, QuorumsComplete
<1>3. \A c \in Running : tShareList[b][i][c] # None
  BY <1>0, <1>2 DEF NothingLost, ShareKept, Idle
<1>4. GetLenByInt(tShareList[b][i]) >= thresOEC
  <2> DEFINE S == {c \in Slot : tShareList[b][i][c] # None}
  <2>1. Running \subseteq S /\ IsFiniteSet(S)
    BY <1>0, <1>3, GroupTypes, FS_Subset
  <2>2. Cardinality(Running) <= Cardinality(S) /\ Cardinality(S) \in Nat /\ Cardinality(Running) \in Nat
    <3> HIDE DEF S
    <3> QED
      BY <2>1, FS_Subset, FS_CardinalityType
  <2>3. FSize(NumB) \in Nat
    BY Groups, FSizeBound DEF thresOEC
  <2> QED
    BY <2>2, <2>3 DEF GetLenByInt, thresOEC
<1> QED
  BY <1>0, <1>4 DEF NothingLost, EnoughQueued

(***************************************************************************)
(* Mode CrossABC: all shares are decoded                                   *)
(***************************************************************************)

\* Corrected decoding gives back payloads, which no padding spoils.
NotPadded ==
  \A shares \in Undecodable, v \in Value :
    Cardinality(InPlace(shares, v)) < Len(shares) - Correctable(shares)

\* The shares of a payload that stand in a list where they belong.
Sound(list, v) == {c \in B : list[c] = Encode(v)[c - NumA]}

\* The shares of all nodes, of which all but f are those of v, decode.
LEMMA FullListDecodes ==
  ASSUME NumA = 4, NEW list \in [Slot -> Share \cup {None}], NEW v \in Value,
         \A c \in B : list[c] # None, Cardinality(Sound(list, v)) >= NumB - FSize(NumB),
         NotPadded, NumB >= 2
  PROVE  /\ GetLenByInt(list) > SQuorumSize(GroupB)
         /\ None \notin ADDDecode(Present(list)) /\ Nothing \notin ADDDecode(Present(list))
<1> DEFINE shares == Present(list)
           places == InPlace(shares, v)
<1>0. NumA \in Nat /\ NumB \in Nat /\ B = NumA .. (NumA + NumB - 1)
  BY Groups DEF B
<1>1. shares = [k \in 1 .. NumB |-> list[NumA + k - 1]] /\ GetLenByInt(list) = NumB
  BY PresentAll
<1>2. shares \in Seq(Share) /\ Len(shares) = NumB
  BY <1>1, PresentType
<1>3. FSize(NumB) \in Nat /\ 3 * FSize(NumB) < NumB /\ NumB <= 3 * FSize(NumB) + 3
  BY Groups, FSizeBound
<1>4. GetLenByInt(list) > SQuorumSize(GroupB)
  BY <1>0, <1>1, <1>3, SlotIsB DEF SQuorumSize
<1> HIDE DEF shares
<1>5. Cardinality(places) = Cardinality(Sound(list, v))
  <2> DEFINE f == [j \in places |-> NumA + j - 1]
  <2>1. places = {j \in 1 .. NumB : list[NumA + j - 1] = Encode(v)[j - 1]}
    BY <1>1, <1>2 DEF InPlace
  <2>2. \A j \in places : NumA + j - 1 \in Sound(list, v)
    BY <1>0, <2>1 DEF Sound
  <2>3. \A c \in Sound(list, v) : \E j \in places : NumA + j - 1 = c
    <3> SUFFICES ASSUME NEW c \in Sound(list, v) PROVE \E j \in places : NumA + j - 1 = c
      OBVIOUS
    <3>1. /\ c - NumA + 1 \in 1 .. NumB /\ NumA + (c - NumA + 1) - 1 = c
          /\ (c - NumA + 1) - 1 = c - NumA
      BY <1>0 DEF Sound
    <3>2. c - NumA + 1 \in places
      BY <2>1, <3>1 DEF Sound
    <3> QED
      BY <3>1, <3>2
  <2>4. places \subseteq Int /\ IsFiniteSet(places)
    <3>1. places \in SUBSET (1 .. NumB)
      BY <2>1
    <3>2. IsFiniteSet(1 .. NumB) /\ 1 .. NumB \subseteq Int
      BY <1>0, FS_Interval
    <3> HIDE DEF places
    <3> QED
      BY <3>1, <3>2, FS_Subset
  <2> HIDE DEF places
  <2>5. f \in Bijection(places, Sound(list, v))
    <3>1. \A j, k \in places : NumA + j - 1 = NumA + k - 1 => j = k
      BY <1>0, <2>4
    <3>2. f \in [places -> Sound(list, v)]
      BY <2>2
    <3>3. f \in Injection(places, Sound(list, v))
      BY <3>1, <3>2 DEF Injection, IsInjective
    <3>4. f \in Surjection(places, Sound(list, v))
      BY <2>3, <3>2 DEF Surjection
    <3> QED
      BY <3>3, <3>4 DEF Bijection
  <2> HIDE DEF f
  <2> QED
    BY <2>4, <2>5, FS_Bijection DEF ExistsBijection
<1>6. Cardinality(Sound(list, v)) \in Nat
  BY GroupTypes, FS_Subset, FS_CardinalityType DEF Sound
<1>7. Cardinality(places) >= Len(shares) - Correctable(shares)
  <2>1. Correctable(shares) = (NumB - (FSize(NumB) + 1)) \div 2
    BY <1>2, SlotIsB DEF Correctable, SQuorumSize
  <2>2. Correctable(shares) \in Int /\ Correctable(shares) >= FSize(NumB)
    BY <1>0, <1>3, <2>1
  <2> QED
    BY <1>0, <1>2, <1>3, <1>5, <1>6, <2>2
<1>8. shares \notin Undecodable
  <2>1. Cardinality(places) \in Int /\ Len(shares) - Correctable(shares) \in Int
    BY <1>0, <1>2, <1>3, <1>5, <1>6, SlotIsB DEF Correctable, SQuorumSize
  <2> QED
    BY <1>7, <2>1 DEF NotPadded
<1>9. ADDDecode(shares) \subseteq Value
  BY <1>7, <1>8 DEF ADDDecode
<1> QED
  BY <1>4, <1>9, Forgeries DEF shares

LEMMA FullInit == Init => FullDecodes
<1> SUFFICES ASSUME Init, NEW b \in Correct, NEW i \in Instance,
                    \A c \in B : tShareList[b][i][c] # None
             PROVE  FALSE
  BY DEF FullDecodes
<1>1. NumA \in B
  BY Groups DEF B
<1> QED
  BY <1>1, GroupTypes DEF Init

LEMMA FullStep ==
  ASSUME NumA = 4, NotPadded, NumB >= 2, Inv, FullDecodes, [Next]_vars
  PROVE  FullDecodes'
<1>1. CASE UNCHANGED <<mode, tShareList, localM>>
  BY <1>1 DEF FullDecodes
<1>2. ASSUME NEW b \in Correct, NEW m \in Message, HandleShare(b, m) PROVE FullDecodes'
  BY <1>2 DEF HandleShare, PanicOnInsert, shareVars, FullDecodes
<1>3. ASSUME NEW b \in Correct, NEW m \in Message, ADDHandleShare(b, m) PROVE FullDecodes'
  <2> DEFINE i == m.inst
             list == ListAfter(b, m)
  <2>1. /\ m.type = "SHARE" /\ Receivable(b, m) /\ mode' = mode
        /\ \/ UNCHANGED <<tShareList, localM>>
           \/ /\ localM[b][i] = None /\ m.from \in Slot
              /\ tShareList' = [tShareList EXCEPT ![b][i] = list]
              /\ \E payload \in IF GetLenByInt(list) > SQuorumSize(GroupB)
                                   THEN ADDDecode(Present(list)) ELSE {Nothing} :
                   localM' = [localM EXCEPT ![b][i] = IF payload = Nothing THEN @ ELSE payload]
    BY <1>3 DEF ADDHandleShare, ListAfter, PanicOnInsert, shareVars
  <2>2. i \in Instance
    BY MessageFields
  <2>3. m.from \in Slot => list \in [Slot -> Share \cup {None}]
    BY <2>1, ListInv
  <2> HIDE DEF list
  <2>4. CASE UNCHANGED <<tShareList, localM>>
    BY <1>1, <2>1, <2>4
  <2>5. CASE m.from \in Slot /\ tShareList' = [tShareList EXCEPT ![b][i] = list]
    <3> SUFFICES ASSUME mode = "CrossABC", NEW c \in Correct, NEW j \in Instance, NEW v \in Value,
                        Cardinality(Sound(tShareList'[c][j], v)) >= NumB - FSize(NumB),
                        \A d \in B : tShareList'[c][j][d] # None
                 PROVE  localM'[c][j] # None
      BY <2>1 DEF FullDecodes, Sound
    <3>1. tShareList'[c][j] = IF c = b /\ j = i THEN list ELSE tShareList[c][j]
      BY <2>2, <2>5 DEF Inv, Types
    <3>2. CASE ~(c = b /\ j = i)
      <4>1. localM[c][j] # None
        BY <3>1, <3>2 DEF FullDecodes, Sound
      <4>2. ASSUME NEW p, localM' = [localM EXCEPT ![b][i] = p] PROVE localM'[c][j] = localM[c][j]
        BY <2>2, <3>2, <4>2 DEF Inv, Types
      <4>3. localM' = localM \/ \E p : localM' = [localM EXCEPT ![b][i] = p]
        BY <2>1
      <4> QED
        BY <4>1, <4>2, <4>3
    <3>3. CASE c = b /\ j = i
      <4>1. /\ GetLenByInt(list) > SQuorumSize(GroupB)
            /\ None \notin ADDDecode(Present(list)) /\ Nothing \notin ADDDecode(Present(list))
        BY <2>3, <2>5, <3>1, <3>3, FullListDecodes
      <4>2. CASE UNCHANGED localM /\ tShareList' = tShareList
        BY <1>1, <2>1, <4>2 DEF FullDecodes, Sound
      <4>3. ASSUME NEW p \in ADDDecode(Present(list)),
                   localM' = [localM EXCEPT ![b][i] = IF p = Nothing THEN @ ELSE p]
            PROVE  localM'[b][i] # None
        <5>1. p # Nothing /\ p # None
          BY <4>1
        <5>2. localM' = [localM EXCEPT ![b][i] = p]
          BY <4>3, <5>1
        <5>3. localM'[b][i] = p
          BY <2>2, <5>2 DEF Inv, Types
        <5> QED
          BY <5>1, <5>3
      <4> QED
        BY <2>1, <3>3, <4>1, <4>2, <4>3
    <3> QED
      BY <3>2, <3>3
  <2> QED
    BY <2>1, <2>4, <2>5
<1>4. ASSUME NEW a \in Relay, NEW v \in Request, SendCross(a, v) \/ ADDSendCross(a, v)
      PROVE  FullDecodes'
  BY <1>1, <1>4 DEF SendCross, ADDSendCross, Disperse, shareVars
<1>5. ASSUME NEW b \in Correct, NEW m \in Message, HandleAddCross(b, m) \/ ADDHandleAddCross(b, m)
      PROVE  FullDecodes'
  BY <1>1, <1>5 DEF HandleAddCross, ADDHandleAddCross, CountCross, shareVars
<1>6. ASSUME NEW b \in Correct, NEW i \in Instance, OECAgain(b, i) PROVE FullDecodes'
  BY <1>1, <1>6 DEF OECAgain
<1>7. CASE UNCHANGED vars
  BY <1>1, <1>7 DEF vars, shareVars
<1> QED
  BY <1>2, <1>3, <1>4, <1>5, <1>6, <1>7, Handled DEF Next, ADDHandleADDMsg

(***************************************************************************)
(* The properties                                                          *)
(***************************************************************************)

\* Nothing reaches the broadcast or HotStuff that no node of A relayed, for
\* groups of any size, in both modes, though up to t nodes of both groups make up
\* CROSS messages and up to f of them shares.
THEOREM DisseminatedRelayed == Spec => []InstanceRelayed
<1>1. Inv => InstanceRelayed
  BY DEF Inv, ResultsRelayed, Relayed, Relayers, InstanceRelayed
<1> QED
  BY <1>1, Invariance, PTL

\* All nodes have the same share of a node that runs this code, as it passes on
\* one share for an instance.
THEOREM CorrectSharesAgree == Spec => []SharesAgree
<1>1. Inv => SharesAgree
  <2> SUFFICES ASSUME Inv, NEW b \in Correct, NEW c \in Correct, NEW d \in Correct,
                      NEW i \in Instance
               PROVE  \/ tShareList[b][i][d] \in {None, tShareList[c][i][d]}
                      \/ tShareList[c][i][d] = None
    BY DEF SharesAgree
  <2>1. d \in Slot /\ d \notin Forgers("SHARE")
    BY GroupTypes
  <2> QED
    BY <2>1 DEF Inv, SharesPassedOn
<1> QED
  BY <1>1, Invariance, PTL

\* Every variable keeps its type; what a decoding gives is a payload, nothing, or
\* a sequence of shares.
THEOREM TypeCorrect == Spec => []TypeOK
<1>1. Inv /\ ResultTypes => TypeOK
  BY DEF Inv, Types, ResultTypes, TypeOK
<1> QED
  BY <1>1, ResultTypesInvariant, PTL

\* While t + 1 nodes of A and 2f + 1 of B are at work, every instance of every
\* request reaches the queue of every node of B that no share has made panic,
\* whatever the others send.
THEOREM SharesSuffice ==
  ASSUME AtWork
  PROVE  Spec => []EveryNodeQueues
<1>1. Inv /\ NothingLost /\ [Next]_vars => NothingLost'
  BY LostStep
<1>2. Inv /\ NothingLost => EveryNodeQueues
  BY AllQueued
<1> QED
  BY <1>1, <1>2, LostInit, Invariance, PTL DEF Spec

\* A node of B with the shares of all nodes has decoded them, though f be wrong,
\* unless the padding of a payload spoils its own decoding.  One node alone,
\* which has no share on top of f + 1, never decodes, and a larger group A leaves the
\* threshold of StartQuorum larger than f + 1.
THEOREM AllSharesDecode ==
  ASSUME NumA = 4, NotPadded, NumB >= 2
  PROVE  Spec => []FullDecodes
<1>1. Inv /\ FullDecodes /\ [Next]_vars => FullDecodes'
  BY FullStep
<1> QED
  BY <1>1, FullInit, Invariance, PTL DEF Spec
=============================================================================
