# TLA+ models of XRBC

XRBC is a cross-consensus reliable broadcast: the nodes of group A (shard 0) each hold a
client request and hand it to the nodes of group B (shard 1), who must agree on it. The
repository has five modes that do this in different ways. This directory models them,
checks the models with TLC and proves theorems about them with TLAPS. Source paths below
are relative to `src/src/`.

## The system

| component | state | operations | interacts with |
|---|---|---|---|
| RA, mode CrossRA (`broadcast/ra/`) | message buffer, CROSS/ECHO/READY votes, queue of instances to start, status of each instance, delivered set, totals | `SendCross` (A); `HandleCross`, `HandleSend`, `HandleEcho`, `HandleReady`, `StartRBC`, `Deliver` (B) | the monitor calls `SendCross`; votes go to package `quorum` |
| ADD (`add/` for CrossRA, `consensus/add.go` for CrossABC) | shares by instance, completed CROSS, decoded payloads | `SendCross`, `HandleAddCross`, `HandleShare`, `OECAgain` | ends in RA's queue, or starts HotStuff |
| CrossABC (`consensus/cross.go`, `CrossABC.go`) | CROSS votes, queue of node 4; blocks, certificates, votes, heights | `XHandleCross`, `ReadyStartHotStuff`; `StartHotStuff`, `HandleQCByteMsg`, `ProcessQCInfo`, `ProcessQCInfoCheck` | the queue starts HotStuff |
| CrossSigGroup (`consensus/CrossSigGroup.go`) | payload, REP votes, confirmed epochs | `HandleGroupCross`, `HandleGroupRep`, `HandleGroupConfirm`, `ConfirmStatusMonitor` | starts HotStuff on node 4 |
| DeltaBA (`consensus/delta.go`) | proposals and votes by instance, total | `SendDeltaPropose`, `HandleDeltaPropose`, `HandleDeltaVote`, `StartBA` | both groups vote |
| Quorum (`quorum/`) | `n`, `f`, `quorum`, `squorum`; vote buffers and certificates | `StartQuorum`, `StartDeltaQuorum`, `Add`, the `Check...` functions | every protocol |
| Start-up (`consensus/def.go`, `CrossBA.go`, `communication/receiver/`) | mode, sizes | `StartReceiver`, `StartHandler`, `StartProcessing` | calls the `Init` functions of a mode |
| Requests (`consensus/queue.go`, `events.go`) | queue of client requests | `Append`, `GrabWtihMaxLenAndClear`, `RequestMonitor` | filled by the receiver, drained into `StartProcessing` |
| Communication (`communication/`) | connections, failures counted for each node, nodes taken for dead | `MACBroadcast`, `SendToNode`, `ByteSend`, `NotLive`, `SetLive` | one goroutine and one gRPC call for each message |
| Client (`client/`, `communication/clientsender/`) | a wait group | `BroadcastRequest`, `SendRequest` | writes to every node of A |
| Threshold PRF (`cryptolib/threshprf/`) | keys and shares in files | dealer, share, proof, verification, combination | meant for the common coin |
| Sets, maps, queues (`utils/`) | locked maps and sets, `EpochMsgQueue` | insert, pop, length | every protocol |
| View change, CrossSig, common coin, database, configuration, messages, other cryptography, logging | | | see *Not modelled* |

What is hard in it:

- **Concurrency.** In mode CrossRA a node of B handles its messages one after the other
  in `BatchProcessMessages`, while `ReadyStartRBC` starts instances in a second
  goroutine. In the other modes the receiver handles every message in a goroutine of its
  own, and handlers share package variables (`sourceMsg`, `msg_local`, `confirmTag`,
  `curBlock`), some without a lock. Every message is sent by a goroutine of its own too,
  and all of these share one error variable.
- **Messages.** Every message is one gRPC call: there is no order between two messages,
  a failed call is not retried, and nothing asks again for a message that came too early
  to be of use.
- **Failures.** The thresholds are made for t = (|A| - 1) / 3 faulty nodes in A and f =
  (|B| - 1) / 3 in B. No handler looks at the group of a sender, so a faulty node can
  also send what only the other group is to send, and is counted for it. A node that
  could not be reached often enough is no longer sent to. Nodes keep nothing over a
  restart: the database is written and never read.
- **Shared thresholds.** Four variables of package `quorum` serve all protocols; several
  `Init` functions set them one after the other, and the size of group A is a constant
  of the code.

What makes each component correct: RA must deliver one request for an instance,
everywhere, and only one that a correct A node relayed, and must finish; the thresholds
must make quorums meet in a correct node and stay within reach of the correct nodes; ADD
must decode what A relayed; CrossABC must queue and certify each height once, and
deliver in order; CrossSigGroup must confirm only what a quorum of B holds, and end;
DeltaBA must count an instance only once f + 1 nodes voted in it; the sender must not
lose messages while nothing fails, nor take a node for dead too early; the client must
return; any K shares must give one value. `PROJECT.json` lists under "hazards" where in
the code each of these is at risk.

## Modules

| module | models | extends |
|---|---|---|
| `QuorumSizes` | the formulas of `quorum/quorum.go`, with Go's division | |
| `QuorumStart` | which `Init` function sets the thresholds last, for every mode | `QuorumSizes` |
| `RA` | mode CrossRA, both groups | `QuorumSizes` |
| `XRBC` | abstract: what cross-consensus broadcast promises group B | |
| `ADD` | both copies of the dissemination of shares (`Add` = 1) | `QuorumSizes` |
| `Chain` | abstract: what HotStuff promises the nodes that follow | |
| `HotStuff` | blocks, votes and certificates in group B | `QuorumSizes`, `Chain` |
| `CrossABC` | CROSS votes and the queue of node 4, on top of HotStuff | `HotStuff` |
| `SigGroup` | mode CrossSigGroup | `QuorumSizes` |
| `Delta` | mode DeltaBA | `QuorumSizes` |
| `Transport` | the sender of one replica | |
| `Replica` | one replica from start-up to what it sends: clients, queue, monitor | `QuorumStart`, `Transport` |
| `ThreshPRF` | the threshold PRF | |
| `MC...` | the constants of the runs | the module they are named after |
| `..._proofs` | the theorems | the module they are named after |

### RA

State and code correspond as follows: `buffer`, `bufferc`, `bufferd` are the vote
buffers of the same names in package `quorum` (sets of senders by instance and payload,
since tags and hashes are taken to be injective); `crossMsgQueue` and `order` are the
two fields of `EpochMsgQueue`; `epochStatus`, `delivered`, `tEpoch`, `GlobalTotalEpoch`
and `xDelivered` are the package's variables. `net` is what the network and
`messageBuffer` hold for a node, `msgs` what was ever sent, and `crossSent` remembers
what group A relayed.

A handler is one action, because `BatchProcessMessages` runs handlers one after the
other. The second goroutine is two actions: `StartRBC` pops the queue, copies the total
and broadcasts SEND; `MarkCross` is the last statement of the Go function, which stores
`STATUS_CROSS`. Handlers may run between the two. `STATUS_READY` never outlives the
handler that sets it and has no value of its own.

Every message has a copy for each receiver. A copy can be handled at any time or never:
loss is the behaviour where it stays in `net`. `Ignored` names the copies that can no
longer have an effect; they leave `net`, which keeps the state space small and loses no
behaviour, as handling them would change nothing that is read afterwards. Nodes in
`Relay` and `Correct` run the code. `Forged` lists what the faulty nodes of either group
may send, to anyone and at any time; all others are silent (crashed). A forged message
is of any kind, whatever the group of its sender; the hash of an ECHO or READY is a
field of its own and need not fit the instance, and the `Round` of a CROSS need not fit
the request. What no message can do in the model is name another node as its sender: the
MAC is to prevent that, though `VerifyMAC` does not look at the id it is given.

What the handlers count from whom bounds the faults that the properties survive
(`FaultBounds`). CROSS is counted from both groups, so at most t nodes of both together
may lie. A faulty node of A that sends ECHOs votes in B without being one of its |B|
nodes: two quorums of ECHOs may then have one more faulty node in common and there is
one more vote, so it uses up two of the f faults. With |B| = 4, where f = 1, a single
faulty node of A can make two nodes of B deliver different requests. The code's own
bounds, t and f for each group apart, are thus not enough.

Two promises are weaker than one would expect, because the code is. A SEND is echoed
whoever sent it, so a faulty node can have a request delivered that nobody relayed:
DeliverIntegrity excepts what was forged in a SEND (`SpuriousSends`). And an ECHO or
READY that names instance i but carries the hash of instance j moves i on the quorum of
j: for such an i (`Misnamed`) Agreement still says that no two requests get a quorum of
ECHOs, but not that what was delivered has one, and RA implements XRBC for the other
instances only (`OwnHash`).

### XRBC

The abstract specification has three variables: the requests relayed, the decision of
each instance, and what each node has delivered. What is delivered was relayed by group
A, or is in `Spurious`, which a faulty node has broadcast itself. `Deliver` fixes the
decision of an instance at its first delivery and requires it of all later ones. RA
implements it under the mapping `XR` at the end of `RA.tla`: the decision of an instance
is the request that a node which delivered it holds a quorum of ECHOs for.

### ADD

With `Add` = 1 a node of A sends each node of B its Reed-Solomon share only
(`SendCross`). A node of B that has CROSS votes from t + 1 nodes, of whatever group,
passes the share of the last of them on to all of B (`HandleAddCross`), and one with
enough shares decodes them (`HandleShare`). The two copies differ: in CrossRA decoding
is tried when the number of shares is exactly 2f + 1, the hash of the result, even of a
failure, goes to `crossMsgQueue`, and a failure starts `OECAgain`; in CrossABC
(`ADDHandleShare`) decoding is tried with every share above f + 1 until it succeeds, and
the result is kept in `localM`. The variable `mode` says which copy runs.

Both handlers hold one lock; `OECAgain`, a goroutine, takes none and is an action for
each attempt. `votes`, `crossCompleteList`, `tShareList`, `localM` and
`GlobalTotalEpoch` are the variables of the code; `retries` is the loop counter of
`OECAgain`; `queued` is the item that `AddItem` accepted for an instance, as what it is
the hash of. `decodeList` is read and never written, so its check always fails and is
left out. A share is a payload and a number. `Decode` does what the function does: it
closes the gaps and numbers the shares anew, so only shares in their own places decode
to the payload, and any others to something that is no payload. Which of these end in an
invalid padding, so that decoding fails, depends on the bytes: the constant
`Undecodable` lists them. `ADDDecode` may give any payload that enough of the shares
fit, as the error correction of the second copy does. `Forged` lists the CROSS and
shares that faulty nodes of either group make up, and to whom they send them.

A share is stored at the number of its sender less 4. For one of the nodes 0 to 3 there
is no such place, and `IntMulByteMap.Insert` panics, which nothing recovers
(`PanicOnInsert`): the node that handled the share has stopped (`panicked`).
EveryNodeQueues therefore speaks of the nodes still running, as long as they are 2f + 1.
If group A has more than 4 nodes, those from number 4 on have places, too (`Slot`), and
share the bound f on wrong shares with the nodes of B (`Forgeries`). FullDecodes is
checked and proved for the 4 nodes the code assumes.

### HotStuff and CrossABC

A height stands for the hash of its block. `awaitingBlocks`, `deliveredHeight`,
`curBlock`, `lockedBlock` and `committedBlocks` are the variables of `CrossABC.go`; a
certified block is its height and whether the hashes of the two blocks below it were at
hand when it was made. `votes` and `prepared` are the certificate of package `quorum`
and the marks of node 4. `HandleQCByteMsg` stores, delivers and votes in one action. The
goroutines it spawns are actions of their own (`ProcessQCInfo`, `ProcessQCInfoCheck`),
and two where the code decides before it takes a lock or after it has let it go
(`AdoptBlock`, `Jump`). The proposer delivers height 2 when it is certified, without
looking at the order, and files `lockedBlock` under the height of the certificate: the
properties about order are therefore about the nodes that follow. `Chain` says what
those are promised: each height is proposed and certified once, delivered in order,
committed only when certified, and neither is taken back. `ImplementsChain` states it of
HotStuff, with `prepared` for the certified heights. Of node 4 the last part is false: a
block it has committed is overwritten when another is filed under its height.

How many votes a certificate takes depends on which `Init` function came last
(`SizeOfB`). In mode CrossABC with `Add` = 1 that is `InitHotStuff`, which counts both
groups: `StartQuorum` takes 4 away, and what remains is the quorum of group B if A has 4
nodes. With `Add` = 0 it is `InitCROSS`, which counts group B alone, so that the 4 nodes
taken away are missing: a certificate takes the quorum of |B| - 4 nodes. That is a
single vote for up to 5 nodes, and two for 7, where the quorum of group B is five.
CertifiedByQuorum states both (`VotesBehind`); a certificate says that a majority of B
has voted with `Add` = 1 only. What else is said of HotStuff does not rest on the
threshold: a height is certified once because node 4 marks it, and no node of B makes up
a vote.

`CrossABC` composes this with what says which heights are proposed: `XHandleCross`, in
three actions because the handlers share `sourceMsg` without a lock, the queue, and the
goroutine that takes from it. It has `Add` = 0. `Faulty` nodes, of either group, may
send CROSS that they make up. The checks of the length of the queue, of the votes and of
the order are one step with the append (`AddMessageToCrossABCMsgQueue`); its comment
says why that makes no difference, but for requests that ask for different numbers of
instances. Its `ABCSpec` replaces the free choice of heights in `HotStuff!Spec` by the
queue.

### SigGroup

Node 0 of group A sends every instance (`StartSigCross`), counts the REPs and confirms
an epoch that a quorum of B has answered. `HandleGroupRep` is two actions, as it reads
`confirmTag` and sets it later: an epoch may be confirmed twice. `ConfirmStatusMonitor`
takes the epochs in order and stores `msg_local` for each; on node 4 it then proposes
all of them. A CONFIRM whose hash is not that of `msg_local` is dropped, which is why a
node may wait for ever: `AcceptedEnds` speaks of the confirmations a node has accepted.

### Delta

Each handler is two actions, one that sets `sourceMsg` and one that uses it, because the
PROPOSE and the VOTE handler run under different locks and share that variable. `voted`
remembers for what a node voted. `Forged` lists what faulty nodes send.

### Transport and Replica

A goroutine of `ByteSend` is a record of what it sends, to whom and where it is; each
access to a shared map or to the package variable `err` is an action. Its call gets
through, fails because the receiver has crashed, or times out, in which case it may
still have got through. `counted` and `failed` are history variables. `connection` is
the set of nodes taken for dead.

`Replica` is one replica of either group: the Init functions (actions of `QuorumStart`),
then clients that write to every node of A and wait, the queue, `RequestMonitor`, and
the answers of group B, all going through `Transport`. `RequestMonitor` empties the
queue and starts its first request: `dropped` is the rest.

### ThreshPRF

A point of the curve stands for its logarithm, in a group of prime order `Q` with more
elements than there are participants; the digest of a proof is a constant `Digest`
without collisions (assumption `Hash`): an idealisation, as SHA-256 has collisions,
though nobody knows one. A course deals the keys, lets participants publish shares with
proofs, and a user verify, store and combine them. The loops of `Gen_key_dealer`,
`Compute_Lagrangeinter` and `Compute_prf_from_shares` are sums and products over sets of
participants: they reduce modulo the order at every turn, the model once, which is the
same. The shares are those of participants that run the code.

### QuorumStart

A behaviour is the start of one replica: `StartHandler` calls the `Init` functions of
the mode one by one, and each may set the thresholds. `DecisionQuorum` and
`WitnessQuorum` are what the handlers of the mode compare with afterwards.

## Runs

| run | instance | shows |
|---|---|---|
| `RA_safety` | 4 A nodes (1 relay), 4 B nodes (2 run the code, 1 lies, 1 is silent), 2 requests for one instance | TypeOK, Agreement, EchoOnce, SendIntegrity, DeliverIntegrity, StatusMonotone, and that RA implements XRBC |
| `RA_liveness` | 4 B nodes (one silent), fairness | Started, EchoQuorumDelivers |
| `RA_termination` | 2 B nodes, fairness, no fault | **violated**: Termination |
| `ADD_shares` | both modes, 4 B nodes, a liar in each group, shares that fail to decode and one that ends a node | TypeOK, InstanceRelayed, SharesAgree, EveryNodeQueues, FullDecodes |
| `ADD_order` | 4 B nodes, no fault | **violated**: Reconstructs |
| `SigGroup_confirm` | 3 B nodes (one silent), 3 instances, fairness | StoredWitnessed, ProposedWitnessed, AcceptedEnds |
| `Delta_votes` | 4 nodes, one of which proposes a payload nobody submitted | InstanceVoted, DoneCounted |
| `HotStuff_blocks` | 2 B nodes, `Add` = 1; heights 1 to 3 in any order, or 5 to 9 in their order | CertifiedByQuorum, FollowersInOrder, FollowersDeliver, ImplementsChain |
| `CrossABC_queue` | 2 relays, 7 B nodes (4 silent), `Add` = 0, a request for 2 instances | QueueFresh, CertifiedByQuorum, OneCertificate, AllDelivered |
| `ThreshPRF_values` | a group of order 5, threshold 2 of 3, two inputs | OneValue, KeysInterpolate, ProofsVerify, ProofsBind |
| `Replica_front` | starts with 1 to 100 B nodes; then a replica of either group in each mode, 2 clients, one crash or timeout | QuorumsMeet, WitnessCorrect, QuorumReachable, BlacklistEarned, Reliable, OnePlace, ClientsReturn, FirstServed |
| `Transport_blacklist` | 3 nodes, 3 messages, one timeout or crash | **violated**: BlacklistFailed |

The violated runs are disagreements between the code and what it says of itself:

- **Termination.** `StartRBC` broadcasts SEND and then marks the instance
  (`broadcast/ra/rbc.go:208-209`), and `HandleSend` drops a SEND of an instance that is
  not marked. A node that handles all SENDs first never echoes and never delivers, with
  no fault and no loss. The check that a comment at `rbc.go:182` describes is commented
  out.
- **Reconstructs.** The shares a node holds are numbered by their rank among those that
  came, not by their senders (`add/add.go:346-354`,
  `cryptolib/reedsolomon/reedsolomon.go:100`). Unless the first 2f + 1 of them are those
  of the first 2f + 1 nodes, they decode to something nobody sent, and its hash goes to
  RA: an ordering of messages without any fault.
- **BlacklistFailed.** A goroutine that sends stores its error in the package variable
  `err` and reads it back in the next statement
  (`communication/sender/sender.go:147-148`). A call of another goroutine may fail in
  between, and then the failure is counted for a node that was reached; often enough,
  and that node gets no more messages.

Two more were met on the way. `autoE2.bash` configures 16 A and 31 B nodes, and
`StartQuorum` subtracts 4 for group A whatever its size, so the quorum of 29 is more
than the 21 nodes that are left when f fail. With `Add` = 0, `InitCROSS` passes the size
of group B to `StartQuorum`, which subtracts 4 again (`consensus/cross.go:530`): with 31
B nodes, quorums then may meet in faulty nodes only, and a certificate of HotStuff takes
the quorum of 27 nodes. `QuorumStart` models both. `Replica_front` and the theorems
about thresholds leave groups A of other sizes than 4 out; `CrossABC` with `Add` = 0 is
in both, but neither QuorumsMeet nor WitnessCorrect speaks of it. For HotStuff and
`CrossABC`, CertifiedByQuorum says how many votes are left.

`CHECK_DEADLOCK FALSE` is set everywhere: each protocol ends when all messages are
handled.

### Bounds

Where nothing else is said the constants are the only bounds and no action is cut off by
a counter.

- *Sizes.* Group A of RA, ADD and CrossABC has 4 nodes, the number `StartQuorum`
  assumes, so t = 1 and two CROSS votes are a quorum. With 4 B nodes f = 1 and a quorum
  is 3; with 2 nodes f = 0 and a quorum is 2, which is enough where the question is
  about the order of steps within a node. `HotStuff_blocks` has 2 nodes in B and
  `CrossABC_queue` 7 with `Add` = 0, so a certificate takes two votes in both.
- *Liars of RA.* In `RA_safety` node 4 of B sends CROSS, ECHO and READY of its own
  making to anyone (all CROSS and ECHO, READY for one request), and a SEND for one
  request; it takes the one fault that |A| = |B| = 4 leaves room for, so no node of A
  lies there. Larger groups, liars in A, and hashes of another instance (the run has one
  instance) are left to the theorems, which have them all.
- *Data.* Two requests for the same instance are the smallest conflict, two or three
  instances the smallest number in which order matters; three heights are what a
  certificate looks back over.
- *Commits.* A block is committed when a later proposal carries a certificate that found
  two blocks below it undelivered, which needs a gap at the bottom (here heights 1 to 4)
  and five heights for two commits. `AboveGap` keeps this small: these heights are
  proposed in their order, each when the last is certified, and node 4 has one goroutine
  of each kind at work. It does not bound the goroutines of the follower; the theorem
  needs none of it.
- *ADD.* Two forgers: node 6 sends its share to all, and a CROSS to node 4 as if it were
  of group A; node 2, of group A, sends node 4 a share, which ends node 4 if it is
  handled. Decoding of what is there without node 6 fails, so `OECAgain` runs.
- *Faults.* `MaxFaults` bounds crashes and timeouts together in `Transport`, and is 1;
  `MaxLimit` stands for the code's `maxLimit` and is 0, which makes a node be taken for
  dead after two failures. One crash fails every message to a node, so this is reached.
- *Replica.* `MaxSent` bounds the messages that a replica of each group sends, two of
  group A and four of group B; `Served` are the configurations that go on after the
  start, those with 4 B nodes. All the others are explored up to the start, which covers
  every remainder modulo 6 many times.
- *ThreshPRF.* The order 5 is the smallest prime above the number of participants;
  `Secret` and `Nonce` are subsets of the scalars. The theorems cover every prime order.

Symmetry is used in the two runs about sending, over what the configuration treats
alike, and in none with a liveness or refinement property.

### Fairness

`RA!FairSpec`: `ReadyStartRBC` and `BatchProcessMessages` loop for ever and a batch is
handled in order, so each enabled start, mark and handler step of a message in `net` is
eventually taken; relays process their requests. It says that messages between nodes
that run the code are not lost, which gRPC gives while connections hold (`Reliable`
shows it of the sender), and nothing about messages from faulty nodes.

`SigGroup!FairSpec`: node 0 sends its requests, some message on its way is handled, a
goroutine between its two steps goes on, and `ConfirmStatusMonitor`, which waits on a
condition variable, goes on when it was signalled.

Elsewhere "in the end" is said as an invariant of the states in which nothing is on its
way (EveryNodeQueues, DoneCounted, FollowersDeliver, AllDelivered, FirstServed): it
needs no fairness, and says what holds if everything gets through.

## Proofs

All theorems are for every value of the constants that the named assumptions allow: any
number of nodes, requests and instances.

| module | theorem | statement |
|---|---|---|
| `QuorumSizes_proofs` | `QuorumSizeSound` | two quorums share more than f nodes, the n - f correct ones are a quorum |
| `RA_proofs` | `TypeCorrect` | `Spec => []TypeOK` |
| | `StatusNeverGoesBack` | `Spec => StatusMonotone` |
| | `EchoedOnce` | `Spec => [](EchoOnce /\ EchoMarked)` |
| | `DeliveryAgreement` | `Spec => []Agreement` |
| | `SendsRelayed` | `Spec => []SendIntegrity` |
| | `DeliveriesRelayed` | `Spec => []DeliverIntegrity` |
| | `RefinesXRBC` | `Spec => ImplementsXRBC` |
| `ADD_proofs` | `DisseminatedRelayed` | `Spec => []InstanceRelayed` |
| | `CorrectSharesAgree` | `Spec => []SharesAgree` |
| | `TypeCorrect` | `Spec => []TypeOK` |
| | `SharesSuffice` | `Spec => []EveryNodeQueues` if t + 1 nodes of A are at work |
| | `AllSharesDecode` | `Spec => []FullDecodes` if A has four nodes, B two or more, and no payload is spoiled by its padding |
| `SigGroup_proofs` | `SigGroupTypes` | `Spec => []TypeOK` |
| | `StoredEpochsWitnessed` | `Spec => []StoredWitnessed` |
| | `ProposalsWitnessed` | `Spec => []ProposedWitnessed` |
| `Delta_proofs` | `DeltaTypes` | `Spec => []TypeOK` |
| | `CountedInstancesVoted` | `Spec => []InstanceVoted` |
| | `AllInstancesCounted` | `Spec => []DoneCounted` if a request is proposed and the votes cannot be split below f + 1 |
| `CrossABC_proofs` | `HotStuffCertificates` | `Spec => [](CertifiedByQuorum /\ OneCertificate)` |
| | `FollowersKeepOrder` | `Spec => []FollowersInOrder` |
| | `FollowersCatchUp` | `Spec => []FollowersDeliver` |
| | `RefinesChain` | `Spec => ImplementsChain` |
| | `ABCCertificates` | the same of `ABCSpec` |
| | `QueueStaysFresh` | `ABCSpec => []QueueFresh` |
| | `ProposalsRelayed` | `ABCSpec => []InstanceRelayed` |
| | `ABCDelivers` | `ABCSpec => []AllDelivered` if group A is at work on one request |
| `Replica_proofs` | `SenderTypes` | `TransportSpec => [](TransportTypeOK /\ Accounted)` |
| | `BlacklistNeverEarly` | `TransportSpec => []BlacklistEarned` |
| | `NothingLost` | `TransportSpec => []Reliable` |
| | `FittingQuorumsMeet` | `ReplicaSpec => []QuorumsMeet` if every configuration `Fits` |
| | `FittingWitnessCorrect` | `ReplicaSpec => []WitnessCorrect`, likewise |
| | `FittingQuorumReachable` | `ReplicaSpec => []QuorumReachable`, likewise |
| | `ClientsNeverHang` | `ReplicaSpec => []ClientsReturn` |
| | `RequestsInOnePlace` | `ReplicaSpec => []OnePlace` |
| | `RequestsServed` | `ReplicaSpec => []FirstServed` |
| | `ReplicaBlacklistNeverEarly` | `ReplicaSpec => []BlacklistEarned` |
| | `ReplicaNothingLost` | `ReplicaSpec => []Reliable` |
| | `ReplicaTypes` | `ReplicaSpec => [](ReplicaTypeOK /\ TransportTypeOK)` |
| `ThreshPRF_proofs` | `FilesInductive` | `Spec => []IInv` |
| | `PRFOneValue` | `Spec => []OneValue` |
| | `PRFKeysInterpolate` | `Spec => []KeysInterpolate` |
| | `PRFProofsVerify` | `Spec => []ProofsVerify` |
| | `PRFProofsBind` | `Spec => []ProofsBind` |

**Thresholds.** `QuorumSizeSound` is arithmetic over n >= 1 with f = (n - 1) / 3.
`Replica_proofs` lifts it to started replicas: after the start, the thresholds are those
of the number of voters that the last Init function counted (`Sized`), if every
configuration `Fits`: the A group has 4 nodes, and CrossSigGroup has 3f + 1 >= 4 nodes
in B. Where `InitCROSS` counts group B four short, the thresholds are too low to meet,
but not too high to reach (`FourShortReachable`).

**RA** rests on `Groups` (the sets are finite and disjoint, nodes that run the code
forge nothing) and `FaultBounds` (|A| >= 4, at most t nodes of both groups lie, and
those in B with twice those in A are at most f). The invariants are strengthened in
layers, each proved inductive on top of those before:

1. `StartOnce`: an instance waits in the queue at most once, is in `order` once it does,
   and is IDLE until it is marked. It gives StatusMonotone, as `MarkCross` then always
   finds status IDLE.
2. `EchoMarked`: a node that has sent an ECHO for an instance is past STATUS_CROSS. With
   StatusMonotone it gives EchoOnce.
3. `Authentic`: a message in `net` from a node that runs the code was sent by it.
   `EchoesCounted`: a counted ECHO of such a node was sent.
4. `DeliveredWithQuorum`: a delivered instance has a quorum of ECHOs at that node.
5. Agreement: two quorums among the nodes of B and the faulty ones of A share a node
   that is not faulty (`QuorumIntersection`), so one that runs the code, and it echoed
   once.
6. `VotesCounted`, `QueueRelayed`, `EchoesRelayed`: a counted CROSS vote of a relay was
   sent, so what is queued, started and echoed was relayed, or is a forged SEND; a CROSS
   quorum has a relay in it (`CrossQuorumCorrect`).
7. Refinement: the decision of an instance never changes once made (`DecisionStable`),
   and each step maps to `AcceptRequest`, `Deliver` or a stutter (`AbstractStep`).

**ADD** rests on `Groups` (|A| >= 4) and `Forgeries` (at most t nodes of both groups
make up CROSS, at most f of those with a place make up shares). The invariant says that
a message on its way is true of its sender (`NetSound`), that only relays of an instance
and liars are counted for it (`VotesRelayed`), so that whoever completes a CROSS quorum
has the vote of a relay (`CompletesRelayed`), that a share of a correct node is the one
it completed with (`SharesPassedOn`), and that what is queued, kept or retried has more
than f shares and so one of a correct node (`ResultsRelayed`).

That nothing is lost is a chain of facts, each "on its way or counted": what a node of A
relayed (`CrossKept`), the share a node passes on when its votes are a quorum
(`QuorumsComplete`, `ShareKept`), and the queue once 2f + 1 shares are there
(`EnoughQueued`). In a state without messages they say that every instance is queued
(`SharesSuffice`); the hypothesis `AtWork` is that t + 1 relays are at work, as with
fewer no CROSS quorum need be reached, and EveryNodeQueues itself asks for 2f + 1 nodes
of B that are running. FullDecodes is inductive beside the shares that agree: all shares
but f are those of one payload, so `Decode` corrects the others, whatever they are. The
hypothesis `NotPadded` leaves out payloads whose own padding spoils their decoding (the
hazard at `reedsolomon.go:110`), with one node in B there is never a share more than f +
1, and with more than four nodes in A the correction counts on a larger group B than
there is.

**SigGroup.** `Holds` never becomes false. A REP on its way and a counted vote come from
a node that holds the epoch (`NetSound`, `VotesHold`), so a CONFIRM is of a witnessed
epoch, and so is what awaits storing (`AwaitingConfirmed`). Epochs are stored in order
and without gaps (`StoredInOrder`), so a monitor that ends has all the epochs of some
request (`TotalAsked`), and only then does node 4 propose (`ProposedAtEnd`).

**Delta.** `VotesCast`: a vote on its way, being handled or counted is of a node that
voted in the instance or of a liar; for which payload does not matter, which is why
sharing `sourceMsg` does no harm here. `SourceSet` says that a handler at work has set
it.

`KeptInv`: a proposal of a relay is on its way or was handled (`ProposalKept`), a
handled one is voted for, perhaps with another payload (`ProposalVoted`), a vote cast is
on its way or counted, for whatever payload (`VoteKept`), and f + 1 for one payload are
enough (`EnoughCounted`). When nothing is on its way, each correct node is among the
voters of some payload, and by `UnionBound` sets of f voters each, one for each payload,
would not hold them all (`AllInstancesCounted`). This is where `FewPayloads` is needed:
with as many payloads as there are correct nodes for f, the votes can be split so that
no payload gets f + 1 of them, and the instance is never counted.

**CrossABC.** In HotStuff, node 4 counts only those that voted (`VotesCast`), and of all
blocks held anywhere or on their way, each was certified with the threshold that the
mode leaves (`BlocksCertified`, `EnoughVotes`) and no two are of one height
(`BlocksUnique`): a height is marked when its certificate is made. For the queue: the
heights in it are distinct, not proposed, and in `order` (QueueFresh, `OrderRelayed`),
and what is in `order` had t + 1 votes, one of a relay (`VotesRelayed`), by `Relays` and
`Forgeries`.

`FollowInv`: a height that was proposed is on its way to a follower, kept by it above a
gap, or delivered, and the height after the last delivered is not kept. It rests on what
the delivery loop does with any set of heights (`DeliveryLoop`): it goes on to the last
height of a run without gaps, which exists because a finite set of naturals has a
greatest element (`GreatestElement`).

The refinement of `Chain` adds that a follower files a block under its own height
(`FiledByHeight`), so that filing another takes none away (`FilingAdds`). What it
commits is a locked block and so certified, by `BlocksCertified`; `ProcessQCInfo` never
delivers, since the handler left no height to deliver (`InfoDelivers`), and so each step
is one step of the chain or none (`ChainMoves`).

For AllDelivered, group A is to be of one mind (`OneMind`: a quorum of relays, one
request, and what liars send carries it too). Then the shared `sourceMsg` is always that
request, a relayed instance is on its way or counted (`Relayed`), one with t + 1 votes
is in `order` or about to be queued (`Enough`), and what is in `order` is in the queue
or proposed (`OrderKept`). None is turned away for want of room: the entries of the
queue are distinct, so a full queue has all the instances there are (`FullQueue`, a
pigeonhole argument). With two requests at work, a handler may count its vote for the
other's payload (`CountCross`), and an instance may then miss its quorum; of that the
theorem says nothing.

**Transport** needs only `Nodes` (a finite set of nodes). `CountsBound`: neither the
count kept for a node nor one that a goroutine has read and not written exceeds the
number of failures counted, so lost updates only delay. `NothingFailed`: while no fault
has happened, no connection is nil, `err` is false, and a message sent is received or
has a goroutine that has yet to call.

**Replica** takes the lemmas about the sender over: they are stated of `Steps`, of which
the steps of `TransportSpec` and those of `ReplicaSpec` are instances, so that whatever
a replica sends, and when, BlacklistEarned and Reliable hold of it. `ClientInv`: the
wait group of a client is the number of its goroutines at work. `QueueInv` says of
OnePlace that the four places are apart and each has no request twice; the handler's
append, the monitor's cut (`CutInjective`) and the sequence that OnePlace builds from
all (`ConcatInjective`, `SetToSeqInjective`) preserve it. `SentInv`: every instance of a
started request was sent to every receiver, and with Reliable it has arrived
(`RequestsServed`).

**ThreshPRF** rests on `Group` (the order `Q` is prime and above the number of
participants, keys and scalars are residues) and `Hash`. OneValue and KeysInterpolate
say that Lagrange interpolation, as the code computes it, gives back the polynomial that
the dealer evaluated; the proof goes up to that in steps:

1. A sum or product over a finite set takes its members in an order nobody knows. Such
   folds exist (`FoldExists`), are unique (`FoldUnique`), and any member may be taken
   out first (`FoldTakes`), which gives `SumLaws` and `ProductLaws`.
2. `Cong(a, b)`: the two leave the same remainder modulo `Q`. It goes along with sums
   and products, and where `Q` is prime whatever is not 0 has an inverse (`PrimeUnit`),
   which `ModInverse` finds (`Inverses`).
3. `Divided(f, T)` is the divided difference of f over the points T. It is linear in f
   (`DividedCombines`), drops a point when f is multiplied by the distance to it
   (`DividedShrinks`), and is therefore 0 for the power k over k + 2 points
   (`DividedPower`), hence for a polynomial of K coefficients over K + 1
   (`DividedValue`).
4. That it is 0 over S and one more point says that interpolation from S gives the value
   at that point (`InterpolationOutside`); at a point of S all other terms vanish
   (`InterpolationInside`).

Ids are different residues as `Q > Num` (`IdsApart`), a key is the remainder of the
polynomial (`KeyLaws`), so any K keys give every other, participant 0's included
(`KeysInterpolated`), and so do their multiples by one point, the shares
(`Combination`). The inductive invariant `IInv` says that the keys are a dealer's, a
share on its way was made with them, and the file of a participant counted as gathered
holds its share for the input at work. The last part needs that what passes
`Verify_share` is right (`ShareBinds`): the hash covers the key, the point and the
share, so two inputs with the same digest have all three in common.

Minimal counterexamples take the place of induction over the numbers where one is needed
(`LeastElement`, `GreatestElement`: Nat is well founded), and over finite sets
`UnionBound` and `SetInduction` do so by their cardinality.

Only model-checked: liveness (Started, EchoQuorumDelivers, AcceptedEnds), as ENABLED and
fairness are out of the prover's reach. Every other property of a passing run is stated
by a theorem. Counterexamples are TLC's as well.

## Not modelled

- **View change** (`consensus/viewchange.go`): dormant. Nothing starts the timer that
  would call it, and `LeaderID(0)` is a node of group A, where HotStuff does not run.
  `HotStuff` models view 0, in which all nodes stay.
- **CrossSig** (mode 102): its handlers are in package `broadcast/sig`, which
  `consensus/def.go` imports and the repository does not contain.
- **CrossADDC**: `ByteSend` has no case for its messages and ends the process; nothing
  calls it.
- **Common coin** (`aba/coin.go`): the whole file is commented out. `ThreshPRF` models
  what it was to use.
- **Functions without a caller** in a mode that can be started:
  `MACBroadcastWithErasureCode`, `CoinBroadcast`, `SendtoClientWithID`, `Store_vk_user`,
  `StartMajQuorum`, `SetQuorumSizes`, `CheckCrossQuorum`, the Half and Over checks, most
  methods of the request queue and of the maps, the receiver of clients. Batches of
  writes are never sent, as the client's `freq` is never assigned. `Join` does nothing.
- **Database**: written and never read, so a replica that restarts starts empty. The
  queue it keeps is not read either.
- **Messages, MACs, signatures, hashes**: hashes are taken to be injective, and no
  message to name another node as its sender; serialisation is left out.
- **Bytes**: the padding of `reedsolomon.go`, the representation of points and scalars
  of a real curve in words of 64 bits.
- **Times**: latency and throughput reports, and logging. `PROJECT.json` says more for
  each.

## What is left

The components that run are modelled one by one, with `CrossABC` on top of `HotStuff`,
itself an implementation of `Chain`, and `Replica` on top of `QuorumStart` and
`Transport`. Left are:

1. the composition of `ADD` with `RA`, where what `ADD` queues is broadcast: what of
   `XRBC` is left when shares decode to different values;
2. the composition of `SigGroup` and of the second copy of `ADD` with `HotStuff`, which
   they start;
3. the lock and the commit of `ProcessQCInfo` as two steps, as the code takes `lqcLock`
   twice.
