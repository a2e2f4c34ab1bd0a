-------------------------------- MODULE ADD --------------------------------
(***************************************************************************)
(* Asynchronous data dissemination, the first half of modes CrossRA and    *)
(* CrossABC when Add = 1: a node of group A cuts a request into one share  *)
(* for each node of group B, every node of B passes its share on to all of *)
(* B, and a node that holds enough shares decodes them.  In CrossRA it     *)
(* queues the hash of the result for the broadcast that module RA models;  *)
(* in CrossABC it keeps the result, and node 4 proposes its hash to        *)
(* HotStuff.  The code has two copies of this, which differ in how many    *)
(* shares they decode, and when.                                           *)
(* Sources: add/add.go, add/handler.go (CrossRA), consensus/add.go         *)
(* (CrossABC), utils/map.go (IntMulByteMap), reedsolomon/reedsolomon.go.   *)
(*                                                                         *)
(* The handlers run one after the other (BatchProcessMessages), or each in *)
(* a goroutine (CrossABC), and under one lock; OECAgain runs beside them   *)
(* and takes no lock.  A message is one gRPC call: in any order, never     *)
(* retried.                                                                *)
(*                                                                         *)
(* No handler looks at the group of a sender, so a faulty node of either   *)
(* group may send any message.  A share's place in a list is the number of *)
(* its sender less 4, and a share of nodes 0 to 3 ends the process of the  *)
(* node that stores it.                                                    *)
(***************************************************************************)
EXTENDS QuorumSizes, Sequences, FiniteSets

CONSTANTS
  NumA, NumB,   \* the sizes of the groups
  Relay,        \* the nodes of A that run this code and stay up
  Correct,      \* the nodes of B that run this code and stay up until it panics
  Value,        \* request payloads, as Decode returns them: without the bytes
                \* that its two paddings take off
  Request,      \* those of Value that clients submit
  NumReq,       \* the number of instances a request asks for (field R)
  Forged,       \* what faulty nodes of both groups make up: pairs of a receiver
                \* and a message
  Undecodable,  \* sequences of shares whose decoding ends in a padding byte
                \* larger than its length
  Nothing,      \* what a failed Decode returns, nil
  None          \* "not yet"

\* Node numbers as autoConfig.bash assigns them: first group A, then group B.
A == 0 .. (NumA - 1)
B == NumA .. (NumA + NumB - 1)

\* Two finite groups, with at least the four nodes in A that HandleShare subtracts.
ASSUME Groups ==
  /\ NumA \in Nat \ (0 .. 3) /\ NumB \in Nat \ {0}
  /\ Relay \subseteq A /\ Correct \subseteq B
  /\ Request \subseteq Value /\ NumReq \in [Value -> Nat \ {0}]

Instance == UNION {0 .. (NumReq[v] - 1) : v \in Value}

\* maxRetries of OECAgain
MaxRetries == 5

CrossQuorum == CrossSmallQuorum(NumA)

\* The size of group B that the StartQuorum of InitHotStuff computes in CrossABC.
GroupB == GroupBByStartQuorum(NumA + NumB)

\* The senders whose shares have a place in a list.
Slot == 4 .. (NumA + NumB - 1)

\* The variants named ...Variant are mistakes the code could have made; runs
\* are repeated with them to show that the properties notice.

\* The shares it takes to decode a payload, in CrossRA.  The variants ask for
\* one more, and for one alone.
thresOECVariant == 2 * FSize(NumB) + 2
thresOECVariant2 == 1
thresOEC == 2 * FSize(NumB) + 1

\* A share: the payload it is cut from, and its number.
Share == Value \X (0 .. (NumB - 1))

\* The shares of a payload, numbered from 0.  The variant numbers them from 1.
EncodeVariant(v) == [j \in 0 .. (NumB - 1) |-> <<v, j + 1>>]
Encode(v) == [j \in 0 .. (NumB - 1) |-> <<v, j>>]

\* Decode numbers the shares that are there from 0, whosever they are, and
\* interpolates.  Only the first shares of one payload, in their places, give
\* that payload back; what other shares give is none of the payloads, and
\* stands here as the sequence of the shares.
Decode(shares) ==
  IF shares \in Undecodable THEN Nothing
  ELSE IF \E v \in Value : shares = [j \in 1 .. thresOEC |-> Encode(v)[j - 1]]
         THEN shares[1][1]
         ELSE shares

\* In CrossABC a payload is cut for f + 1 shares, and the shares there are, which
\* are at least one more, are decoded with correction of errors: half as many
\* as there are shares to spare.  What other shares give is not known: nothing,
\* or none of the payloads.  The variant corrects no error.
CorrectableVariant(shares) == 0
Correctable(shares) == (Len(shares) - SQuorumSize(GroupB)) \div 2

InPlace(shares, v) == {j \in 1 .. Len(shares) : shares[j] = Encode(v)[j - 1]}

ADDDecode(shares) ==
  LET sent == {v \in Value :
                 Cardinality(InPlace(shares, v)) >= Len(shares) - Correctable(shares)}
  IN  IF shares \in Undecodable THEN {Nothing}
      ELSE IF sent # {} THEN sent ELSE {Nothing, shares}

Message ==
  [type : {"CROSS", "SHARE"}, from : A \cup B, inst : Instance, share : Share]

\* The nodes that make up messages of type t.
Forgers(t) == {f[2].from : f \in {g \in Forged : g[2].type = t}}

\* Nodes that run this code make nothing up.  Of the others, at most t make up a
\* CROSS, and at most f a SHARE that has a place: both are counted whichever group
\* they come from.
ASSUME Forgeries ==
  /\ None \notin Share \cup Value \cup {Nothing} \cup Seq(Share) /\ Nothing \notin Value
  /\ Forged \subseteq {f \in Correct \X Message : f[2].from \notin Relay \cup Correct}
  /\ Cardinality(Forgers("CROSS")) < CrossQuorum
  /\ Cardinality(Forgers("SHARE") \cap Slot) <= FSize(NumB)

Msg(t, n, i, s) == [type |-> t, from |-> n, inst |-> i, share |-> s]

VARIABLES
  mode,               \* the mode all nodes run in
  crossSent,          \* the requests each A node has relayed
  net,                \* the messages still on their way to each B node
  panicked,           \* the B nodes whose process a share has ended
  votes,              \* quorum.buffer: senders of CROSS by instance
  crossCompleteList,  \* the share passed on for each instance, or None
  tShareList,         \* the shares received, by instance and sender, or None
  retries,            \* the attempts OECAgain has left for each instance
  GlobalTotalEpoch,   \* Round of the last CROSS handled; addtotalEpoch of
                      \* CrossABC, that of the first
  queued,             \* what crossMsgQueue was first given for each instance, or None
  localM              \* the payload kept for each instance, or None; node 4 has
                      \* called StartHotStuff for those it has

crossVars == <<votes, crossCompleteList, GlobalTotalEpoch>>
shareVars == <<tShareList, retries, queued, localM>>
vars == <<mode, crossSent, net, panicked, crossVars, shareVars>>

\* InitADD of CrossABC
InitADD == localM = [b \in Correct |-> [i \in Instance |-> None]]

Init ==
  /\ mode \in {"CrossRA", "CrossABC"}
  /\ crossSent = [a \in Relay |-> {}]
  /\ net = [b \in Correct |-> {}]
  /\ panicked = {}
  /\ votes = [b \in Correct |-> [i \in Instance |-> {}]]
  /\ crossCompleteList = [b \in Correct |-> [i \in Instance |-> None]]
  /\ tShareList = [b \in Correct |-> [i \in Instance |-> [c \in Slot |-> None]]]
  /\ retries = [b \in Correct |-> [i \in Instance |-> 0]]
  /\ GlobalTotalEpoch = [b \in Correct |-> 0]
  /\ queued = [b \in Correct |-> [i \in Instance |-> None]]
  /\ InitADD

\* A message that b can be given next: one in flight, or one a faulty node makes up.
Receivable(b, m) == b \notin panicked /\ (m \in net[b] \/ <<b, m>> \in Forged)

\* All that b may be given at some time or other.
Incoming(b) == net[b] \cup {f[2] : f \in Forged}

\* b receives the messages got, and each node c of B is sent new[c].
Transmit(b, got, new) ==
  net' = [c \in Correct |-> (net[c] \ (IF c = b THEN got ELSE {})) \cup new[c]]

NoMessage == [c \in Correct |-> {}]

(***************************************************************************)
(* Group A                                                                 *)
(***************************************************************************)

\* Every node of B is sent its share, once for each instance.
Disperse(a, v) ==
  /\ v \notin crossSent[a]
  /\ crossSent' = [crossSent EXCEPT ![a] = @ \cup {v}]
  /\ Transmit(None, {}, [b \in Correct |->
       {Msg("CROSS", a, i, Encode(v)[b - NumA]) : i \in 0 .. (NumReq[v] - 1)}])
  /\ UNCHANGED <<mode, panicked, crossVars, shareVars>>

SendCross(a, v) == mode = "CrossRA" /\ Disperse(a, v)
ADDSendCross(a, v) == mode = "CrossABC" /\ Disperse(a, v)

(***************************************************************************)
(* Group B                                                                 *)
(***************************************************************************)

\* A share is passed on once for an instance.  The variant passes on every CROSS
\* beyond the quorum.
CompleteVariant(b, i) == FALSE
Complete(b, i) == crossCompleteList[b][i] # None

\* Votes are counted by instance alone; the CROSS that completes the quorum
\* is the one whose share is passed on.
CountCross(b, m) ==
  LET senders == votes[b][m.inst] \cup {m.from}
      complete == Cardinality(senders) >= CrossQuorum /\ ~Complete(b, m.inst)
  IN
  /\ m.type = "CROSS"
  /\ Receivable(b, m)
  /\ votes' = [votes EXCEPT ![b][m.inst] = senders]
  /\ UNCHANGED <<mode, crossSent, panicked, shareVars>>
  /\ \/ /\ complete
        /\ crossCompleteList' = [crossCompleteList EXCEPT ![b][m.inst] = m.share]
        /\ Transmit(b, {m}, [c \in Correct |-> {Msg("SHARE", b, m.inst, m.share)}])
     \/ /\ ~complete
        /\ UNCHANGED crossCompleteList
        /\ Transmit(b, {m}, NoMessage)

HandleAddCross(b, m) ==
  /\ mode = "CrossRA"
  /\ CountCross(b, m)
  /\ GlobalTotalEpoch' = [GlobalTotalEpoch EXCEPT ![b] = NumReq[m.share[1]]]

ADDHandleAddCross(b, m) ==
  /\ mode = "CrossABC"
  /\ CountCross(b, m)
  /\ GlobalTotalEpoch' = [GlobalTotalEpoch EXCEPT
                            ![b] = IF @ = 0 THEN NumReq[m.share[1]] ELSE @]

\* The shares in a list that are there, by the number of their senders.
Present(list) ==
  LET there == {c \in Slot : list[c] # None}
      Rank(c) == Cardinality({d \in there : d <= c})
  IN  [k \in 1 .. Cardinality(there) |-> list[CHOOSE c \in there : Rank(c) = k]]

\* How many shares of a list are there.
GetLenByInt(list) == Cardinality({c \in Slot : list[c] # None})

\* IntMulByteMap.Insert with a negative number: there is no such place, in an old
\* list or a new one, and nothing recovers.
PanicOnInsert(b, m) ==
  /\ m.from \notin Slot
  /\ panicked' = panicked \cup {b}
  /\ UNCHANGED <<mode, crossSent, net, crossVars, shareVars>>

\* AddItem skips an instance that was ever queued.
AddItem(b, i, payload) ==
  queued' = [queued EXCEPT ![b][i] = IF @ = None THEN payload ELSE @]

\* Decoding is tried when the count is the threshold, not above it.  When it
\* fails OECAgain is started, and the hash of nothing is queued all the same.
HandleShare(b, m) ==
  LET list == [tShareList[b][m.inst] EXCEPT ![m.from] = m.share]
      shares == Present(list)
      enough == GetLenByInt(list) = thresOEC
  IN
  /\ mode = "CrossRA" /\ m.type = "SHARE"
  /\ Receivable(b, m)
  /\ \/ PanicOnInsert(b, m)
     \/ /\ m.from \in Slot
        /\ tShareList' = [tShareList EXCEPT ![b][m.inst] = list]
        /\ UNCHANGED <<mode, crossSent, panicked, crossVars, localM>>
        /\ Transmit(b, {m}, NoMessage)
        /\ \/ /\ enough
              /\ AddItem(b, m.inst, Decode(shares))
              /\ retries' = [retries EXCEPT
                   ![b][m.inst] = IF Decode(shares) = Nothing THEN MaxRetries ELSE @]
           \/ /\ ~enough
              /\ UNCHANGED <<retries, queued>>

\* In CrossABC every share that comes on top of f + 1 is a reason to decode them,
\* until that succeeds.
ADDHandleShare(b, m) ==
  LET list == [tShareList[b][m.inst] EXCEPT ![m.from] = m.share]
      shares == Present(list)
  IN
  /\ mode = "CrossABC" /\ m.type = "SHARE"
  /\ Receivable(b, m)
  /\ \/ /\ localM[b][m.inst] # None
        /\ UNCHANGED <<mode, crossSent, panicked, crossVars, shareVars>>
        /\ Transmit(b, {m}, NoMessage)
     \/ localM[b][m.inst] = None /\ PanicOnInsert(b, m)
     \/ /\ localM[b][m.inst] = None /\ m.from \in Slot
        /\ tShareList' = [tShareList EXCEPT ![b][m.inst] = list]
        /\ \E payload \in IF GetLenByInt(list) > SQuorumSize(GroupB)
                             THEN ADDDecode(shares) ELSE {Nothing} :
             localM' = [localM EXCEPT
                          ![b][m.inst] = IF payload = Nothing THEN @ ELSE payload]
        /\ UNCHANGED <<mode, crossSent, panicked, crossVars, retries, queued>>
        /\ Transmit(b, {m}, NoMessage)

\* One attempt of OECAgain.  With the same shares it fails again; with more of
\* them it may give something, which AddItem skips, as HandleShare has queued
\* the instance.
OECAgain(b, i) ==
  /\ b \notin panicked
  /\ retries[b][i] > 0
  /\ \/ /\ retries' = [retries EXCEPT ![b][i] = @ - 1]
        /\ UNCHANGED queued
     \/ /\ Len(Present(tShareList[b][i])) > thresOEC
        /\ AddItem(b, i, Present(tShareList[b][i]))
        /\ retries' = [retries EXCEPT ![b][i] = 0]
  /\ UNCHANGED <<mode, crossSent, net, panicked, crossVars, tShareList, localM>>

(***************************************************************************)
(* The specification                                                       *)
(***************************************************************************)

ADDHandleADDMsg(b, m) == ADDHandleAddCross(b, m) \/ ADDHandleShare(b, m)

Next ==
  \/ \E a \in Relay, v \in Request : SendCross(a, v) \/ ADDSendCross(a, v)
  \/ \E b \in Correct : \E m \in Incoming(b) :
       HandleAddCross(b, m) \/ HandleShare(b, m) \/ ADDHandleADDMsg(b, m)
  \/ \E b \in Correct, i \in Instance : OECAgain(b, i)

Spec == Init /\ [][Next]_vars

(***************************************************************************)
(* Properties                                                              *)
(***************************************************************************)

\* Every variable has the type its declaration in the source says.
TypeOK ==
  /\ mode \in {"CrossRA", "CrossABC"}
  /\ crossSent \in [Relay -> SUBSET Request]
  /\ net \in [Correct -> SUBSET Message]
  /\ panicked \subseteq Correct
  /\ votes \in [Correct -> [Instance -> SUBSET (A \cup B)]]
  /\ crossCompleteList \in [Correct -> [Instance -> Share \cup {None}]]
  /\ tShareList \in [Correct -> [Instance -> [Slot -> Share \cup {None}]]]
  /\ retries \in [Correct -> [Instance -> 0 .. MaxRetries]]
  /\ GlobalTotalEpoch \in [Correct -> Nat]
  /\ \A b \in Correct, i \in Instance :
       /\ queued[b][i] \in Value \cup {Nothing, None} \cup Seq(Share)
       /\ localM[b][i] \in Value \cup {None} \cup Seq(Share)

\* A node has an instance to broadcast or to propose.
Has(b, i) == queued[b][i] # None \/ localM[b][i] # None

\* A node queues or keeps an instance only if a node of A that runs this code
\* relayed a request that has it, whatever the faulty nodes of both groups send.
InstanceRelayed ==
  \A b \in Correct, i \in Instance : Has(b, i) =>
    \E a \in Relay : \E v \in crossSent[a] : i < NumReq[v]

\* Two nodes never decode with different shares of one node that runs this
\* code, whatever requests compete for the instance.
SharesAgree ==
  \A b, c, d \in Correct, i \in Instance :
    \/ tShareList[b][i][d] \in {None, tShareList[c][i][d]}
    \/ tShareList[c][i][d] = None

Running == Correct \ panicked

\* Nothing that a node that runs this code has sent, or will send, is on its way.
Idle ==
  /\ \A a \in Relay : crossSent[a] = Request
  /\ \A b \in Running : net[b] = {}

\* In CrossRA every instance of a request reaches the queue of every node that is
\* still running, as long as 2f + 1 are, though all others be silent.
EveryNodeQueues ==
  Idle /\ mode = "CrossRA" /\ Cardinality(Running) > 2 * FSize(NumB) =>
    \A b \in Running, v \in Request, i \in Instance : i < NumReq[v] => queued[b][i] # None

\* In CrossABC a node that has the shares of all nodes has decoded them, in
\* whatever order they came, and though f of them be wrong.
FullDecodes ==
  mode = "CrossABC" => \A b \in Correct, i \in Instance, v \in Value :
    Cardinality({c \in B : tShareList[b][i][c] = Encode(v)[c - NumA]}) >= NumB - FSize(NumB)
      /\ (\A c \in B : tShareList[b][i][c] # None)
    => localM[b][i] # None

\* "Decode the shares to reconstruct the original message": what is queued was relayed.
Reconstructs ==
  \A b \in Correct, i \in Instance :
    queued[b][i] # None => \E a \in Relay : queued[b][i] \in crossSent[a]
=============================================================================
