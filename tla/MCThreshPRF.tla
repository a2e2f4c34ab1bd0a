----------------------------- MODULE MCThreshPRF -----------------------------
(***************************************************************************)
(* Instances of ThreshPRF for TLC.                                         *)
(***************************************************************************)
EXTENDS ThreshPRF

CONSTANTS x, y

\* The points of the two inputs.
TwoPoints == [v \in Input |-> IF v = x THEN 2 ELSE 3]

\* A number for each proof input.  The order of the curve does not divide the
\* weights, so that challenges differ as scalars too.
Encode(t) == t[1] + 11 * t[2] + 121 * t[3] + 1331 * t[4] + 14641 * t[5]
=============================================================================
