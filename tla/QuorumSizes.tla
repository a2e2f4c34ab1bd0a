---------------------------- MODULE QuorumSizes ----------------------------
(***************************************************************************)
(* The thresholds that package quorum computes from the number of nodes,   *)
(* as pure operators.  Go's integer division truncates towards zero, while *)
(* \div of TLA+ rounds down: the two differ for the negative arguments     *)
(* that StartQuorum reaches when it subtracts its fixed group size of 4.   *)
(***************************************************************************)
EXTENDS Integers

\* Go's a / b and a % b, for b > 0.
GoDiv(a, b) == IF a >= 0 THEN a \div b ELSE -((-a) \div b)
GoRem(a, b) == a - b * GoDiv(a, b)

\* f = (n - 1) / 3
FSize(n) == GoDiv(n - 1, 3)

\* quorum = (n + f + 1) / 2, plus one when the division leaves a remainder.
\* The variant forgets the remainder.
QuorumSizeVariant(n) == GoDiv(n + FSize(n) + 1, 2)
QuorumSize(n) ==
  LET s == n + FSize(n) + 1
  IN  GoDiv(s, 2) + (IF GoRem(s, 2) > 0 THEN 1 ELSE 0)

\* squorum = f + 1.  The variant forgets the one.
SQuorumSizeVariant(n) == FSize(n)
SQuorumSize(n) == FSize(n) + 1

\* The n that StartQuorum(num) works with: num counts both groups, and the
\* size of group A is taken to be 4 whatever the configuration says.
\* The variant is the line commented out above it, n = num.
GroupBByStartQuorumVariant(num) == num
GroupBByStartQuorum(num) == num - 4

\* smallQuorum of CheckCrossSmallQuorum, from the configured size of group A
CrossSmallQuorum(numA) == GoDiv(numA - 1, 3) + 1

\* quorum_b_group of CheckSigGroupBQuorum and of CheckSigGroupBFullQuorum
SigGroupBQuorum(numB) == GoDiv(numB + 2, 3) + 1
SigGroupBFullQuorum(numB) == GoDiv(2 * numB + 1, 3)
=============================================================================
