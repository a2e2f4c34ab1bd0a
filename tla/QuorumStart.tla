---------------------------- MODULE QuorumStart ----------------------------
(***************************************************************************)
(* How a replica of group B comes by its thresholds: StartHandler of       *)
(* consensus/def.go runs the Init functions of the configured mode, and    *)
(* several of them set the variables n, f, quorum and squorum of package   *)
(* quorum; the last one wins.                                              *)
(* Sources: quorum/quorum.go, consensus/def.go and the Init functions of   *)
(* broadcast/ra/handler.go, consensus/CrossABC.go, cross.go, add.go,       *)
(* CrossSigGroup.go and delta.go.                                          *)
(***************************************************************************)
EXTENDS QuorumSizes, Sequences

CONSTANT Deployment   \* the configurations of interest: etc/conf.json

Mode == {"CrossRA", "CrossABC", "CrossSigGroup", "DeltaBA"}

\* What LoadConfig reads of etc/conf.json that decides the thresholds: there are
\* nodes in both groups.
System == [mode : Mode, add : {0, 1}, numA : Nat \ {0}, numB : Nat \ {0}]

ASSUME Deployments == Deployment \subseteq System

VARIABLES
  conf,                     \* the configuration this replica has loaded
  calls,                    \* the Init functions StartHandler still has to call
  n, f, quorum, squorum     \* the variables of package quorum

vars == <<conf, calls, n, f, quorum, squorum>>

\* FetchNumReplicas counts both groups in every mode.
NumReplicas == conf.numA + conf.numB

\* The Init functions of each case of StartHandler, in their order.
InitCalls(d) ==
  CASE d.mode = "CrossRA"       -> <<"InitRBC">>
    [] d.mode = "CrossABC"      -> <<"InitHotStuff",
                                     IF d.add = 0 THEN "InitCROSS" ELSE "InitADD">>
    [] d.mode = "CrossSigGroup" -> <<"InitGroupSig", "InitHotStuff">>
    [] d.mode = "DeltaBA"       -> <<"InitDelta">>

Init ==
  /\ conf \in Deployment
  /\ calls = InitCalls(conf)
  /\ n = 0 /\ f = 0 /\ quorum = 0 /\ squorum = 0

SetSizes(num) ==
  /\ n' = num
  /\ f' = FSize(num)
  /\ quorum' = QuorumSize(num)
  /\ squorum' = SQuorumSize(num)

StartQuorum(num) == SetSizes(GroupBByStartQuorum(num))
StartDeltaQuorum(num) == SetSizes(num)

Call(name) ==
  /\ calls # <<>> /\ Head(calls) = name
  /\ calls' = Tail(calls)
  /\ UNCHANGED conf

InitRBC      == Call("InitRBC") /\ StartQuorum(NumReplicas)
InitHotStuff == Call("InitHotStuff") /\ StartQuorum(NumReplicas)
InitGroupSig == Call("InitGroupSig") /\ StartQuorum(NumReplicas)
\* InitCROSS is given the size of group B, and subtracts another 4 from it.
InitCROSS    == Call("InitCROSS") /\ StartQuorum(conf.numB)
\* InitADD keeps the thresholds of InitHotStuff.
InitADD      == Call("InitADD") /\ UNCHANGED <<n, f, quorum, squorum>>
InitDelta    == Call("InitDelta") /\ StartDeltaQuorum(NumReplicas)

Next ==
  InitRBC \/ InitHotStuff \/ InitGroupSig \/ InitCROSS \/ InitADD \/ InitDelta

Spec == Init /\ [][Next]_vars

(***************************************************************************)
(* What the handlers compare with                                          *)
(***************************************************************************)

\* The nodes whose messages are counted: group B, in mode DeltaBA everybody.
Voters == IF conf.mode = "DeltaBA" THEN NumReplicas ELSE conf.numB

\* The votes that decide: ECHOs for a READY and for delivery, or votes for a
\* certificate of HotStuff, which has a check of its own in CrossSigGroup.
DecisionQuorum ==
  IF conf.mode = "CrossSigGroup" THEN SigGroupBFullQuorum(conf.numB) ELSE quorum

\* The votes that show one correct voter: READYs to repeat, shares to decode,
\* votes of DeltaBA, and REPs to confirm in CrossSigGroup.
WitnessQuorum ==
  IF conf.mode = "CrossSigGroup" THEN SigGroupBQuorum(conf.numB) ELSE squorum

Started == calls = <<>>

\* With Add = 0, mode CrossABC counts group B four short (InitCROSS).
FourShort == conf.mode = "CrossABC" /\ conf.add = 0

(***************************************************************************)
(* Properties                                                              *)
(***************************************************************************)

\* Once started, any two deciding sets of voters have a correct node in
\* common, when one voter in three (rounded down) may be faulty; in every mode
\* but the one that counts group B four short.
QuorumsMeet ==
  Started /\ ~FourShort => 2 * DecisionQuorum - Voters > FSize(Voters)

\* Once started, the correct voters alone reach every threshold: f silent
\* nodes do not stop a broadcast.
QuorumReachable ==
  Started => /\ DecisionQuorum <= Voters - FSize(Voters)
             /\ WitnessQuorum <= Voters - FSize(Voters)

\* Once started, a set of witnesses holds a correct node, with the same exception.
WitnessCorrect == Started /\ ~FourShort => WitnessQuorum > FSize(Voters)
=============================================================================
