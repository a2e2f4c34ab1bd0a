------------------------------ MODULE ThreshPRF ------------------------------
(***************************************************************************)
(* The threshold pseudorandom function that the common coin is meant to    *)
(* use: a dealer gives each participant a key, a participant publishes its *)
(* share of the function's value for an input with a proof that it is      *)
(* right, a user keeps the shares whose proof it has verified, in a file   *)
(* for each participant, and combines K of them.                           *)
(* Sources: cryptolib/threshprf/prf_p256.go, util.go, cryptolib/thsig.go;  *)
(* the order of the steps is that of the courses in threshprf/test.go.     *)
(*                                                                         *)
(* The curve is a group of prime order Q, and a point stands for its       *)
(* logarithm to the base point: a scalar multiple is a product, a sum of   *)
(* points a sum.  SHA-256 is a constant that tells the inputs of this      *)
(* instance apart.                                                         *)
(***************************************************************************)
EXTENDS Integers, FiniteSets, FiniteSetsExt, Functions

CONSTANTS
  Q,          \* the order of the curve
  Num, K,     \* the number of participants, and that of the shares needed
  Input,
  HashPoint,  \* Hashmap_point: the point of an input
  Digest(_),  \* SHA-256 of the six points of a proof
  Nonce,      \* the random scalars that a participant may draw
  Secret      \* the coefficients that the dealer may draw

Scalar == 0 .. Q - 1
Id == 0 .. Num - 1

ASSUME Group ==
  /\ Q \in Nat /\ \A d \in 2 .. Q - 1 : Q % d # 0
  /\ Q > Num /\ Num >= K /\ Num \in Nat /\ K \in Nat \ {0}
  /\ HashPoint \in [Input -> Scalar \ {0}]
  /\ Nonce \subseteq Scalar /\ Secret \subseteq Scalar

\* What may be hashed, and that no two of them collide.
ProofInput == Scalar \X Scalar \X Scalar \X Scalar \X Scalar

ASSUME Hash ==
  /\ \A t \in ProofInput : Digest(t) \in Nat
  /\ Cardinality({Digest(t) : t \in ProofInput}) = Cardinality(ProofInput)

VARIABLES
  key,        \* the file sec.key of each participant, whose ver.key is the point
              \* with that logarithm; empty before the dealer is done
  published,  \* the shares on their way to the user
  input,      \* the input the user works on
  shareFile,  \* the file share of each participant that the user has stored
  gathered,   \* the participants whose share it stored for this input
  values      \* the values it has computed for each input

vars == <<key, published, input, shareFile, gathered, values>>

Init ==
  /\ key = <<>> /\ published = {}
  /\ input \in Input
  /\ shareFile = [i \in Id |-> -1] /\ gathered = {}
  /\ values = [x \in Input |-> {}]

(***************************************************************************)
(* The algorithms                                                          *)
(***************************************************************************)

\* ModInverse, which leaves a number without an inverse as it is.
ModInverse(a) ==
  IF \E b \in Scalar : (a * b) % Q = 1 THEN CHOOSE b \in Scalar : (a * b) % Q = 1 ELSE a

Product(f, ids) == FoldFunctionOnSet(LAMBDA a, b : a * b, 1, f, ids)

Exp(i, j) == Product([l \in 1 .. j |-> i], 1 .. j) % Q

\* The key of a participant is the value of the dealer's polynomial at its id.
SecretKey(coefficient, i) ==
  (coefficient[0]
    + SumFunctionOnSet([j \in 1 .. K - 1 |-> coefficient[j] * Exp(i, j)], 1 .. K - 1)) % Q

Gen_key_dealer(coefficient) == [i \in Id |-> SecretKey(coefficient, i)]

\* What the files of a participant hold: its keys, and its last share.
LoadvkFromFiles(i) == key[i]
LoadshareFromFiles(i) == shareFile[i]

\* The product of the differences between a point and the ids.
Differences(point, ids) == Product([j \in ids |-> point - j], ids) % Q

\* The coefficient of participant i when the shares of ids are interpolated at a
\* point.  The variant forgets the denominator.
LagrangeVariant(ids, i, point) == Differences(point, ids \ {i})
Lagrange(ids, i, point) ==
  (Differences(point, ids \ {i}) * ModInverse(Differences(i, ids \ {i}))) % Q

\* The key that the keys of ids give for a point.
Verify_lagrange(ids, point) ==
  SumFunctionOnSet([i \in ids |-> LoadvkFromFiles(i) * Lagrange(ids, i, point)], ids) % Q

\* What the challenge of a proof is the hash of, but for the base point.  The
\* variant is a proof about the key only.
HashInputVariant(verKey, commitG, point, share, commitP) == <<verKey, commitG, 0, 0, 0>>
HashInput(verKey, commitG, point, share, commitP) ==
  <<verKey, commitG, point, share, commitP>>

Compute_share(x, i, s) ==
  LET g == HashPoint[x]
      share == (g * key[i]) % Q
      c == Digest(HashInput(key[i], s, g, share, (g * s) % Q))
  IN  [point |-> share, c |-> c, z |-> (c * key[i] + s) % Q]

\* Both commitments are computed again from z and c, and hash to c.  The variant
\* adds the multiples of c.
Verify_shareVariant(x, verKey, m) ==
  m.c = Digest(HashInput(verKey, (m.z + m.c * verKey) % Q, HashPoint[x],
                         m.point, (HashPoint[x] * m.z + m.point * m.c) % Q))
Verify_share(x, verKey, m) ==
  m.c = Digest(HashInput(verKey, (m.z - m.c * verKey) % Q, HashPoint[x],
                         m.point, (HashPoint[x] * m.z - m.point * m.c) % Q))

Verify_share_node(x, i, m) == Verify_share(x, LoadvkFromFiles(i), m)

\* The value that shares combine to, but for the hash of the point.
Compute_prf_from_shares(ids, share) ==
  SumFunctionOnSet([i \in ids |-> share[i] * Lagrange(ids, i, 0)], ids) % Q

Compute_prf(ids) ==
  Compute_prf_from_shares(ids, [i \in ids |-> LoadshareFromFiles(i)])

(***************************************************************************)
(* The steps                                                               *)
(***************************************************************************)

\* The keys that Gen_key_dealer makes, in their files (Store_key_dealer).
Init_key_dealer(coefficient) ==
  /\ key = <<>>
  /\ key' = Gen_key_dealer(coefficient)
  /\ UNCHANGED <<published, input, shareFile, gathered, values>>

\* A participant publishes a share for an input, once.
Publish(i, x, s) ==
  /\ key # <<>>
  /\ \A m \in published : m.id # i \/ m.for # x
  /\ published' = published \cup {[id |-> i, for |-> x, share |-> Compute_share(x, i, s)]}
  /\ UNCHANGED <<key, input, shareFile, gathered, values>>

\* The user verifies a share for the input it works on, under the key of its
\* sender, and stores it in the file of the sender.
Store_share(m) ==
  /\ m \in published
  /\ Verify_share_node(input, m.id, m.share)
  /\ shareFile' = [shareFile EXCEPT ![m.id] = m.share.point]
  /\ gathered' = gathered \cup {m.id}
  /\ UNCHANGED <<key, published, input, values>>

\* It computes a value from K of the shares it gathered for this input.
Combine(ids) ==
  /\ ids \subseteq gathered /\ Cardinality(ids) = K
  /\ values' = [values EXCEPT ![input] = @ \cup {Compute_prf(ids)}]
  /\ UNCHANGED <<key, published, input, shareFile, gathered>>

\* It goes on to another input; the files keep the shares of the last one.
NextInput(x) ==
  /\ x # input
  /\ values[input] # {} /\ values[x] = {}
  /\ input' = x /\ gathered' = {}
  /\ UNCHANGED <<key, published, shareFile, values>>

Next ==
  \/ \E coefficient \in [0 .. K - 1 -> Secret] : Init_key_dealer(coefficient)
  \/ \E i \in Id, x \in Input, s \in Nonce : Publish(i, x, s)
  \/ \E m \in published : Store_share(m)
  \/ \E ids \in SUBSET gathered : Combine(ids)
  \/ \E x \in Input : NextInput(x)

Spec == Init /\ [][Next]_vars

(***************************************************************************)
(* Properties                                                              *)
(***************************************************************************)

\* "Verify that the algorithm is correct": whichever K participants a user
\* combines, in whatever order shares for several inputs reach it, the value of
\* an input is the share of participant 0, whose key is the dealer's secret.
OneValue == \A x \in Input : \A v \in values[x] : v = (HashPoint[x] * key[0]) % Q

\* Any K keys give the key of every participant, their own and each other's.
KeysInterpolate ==
  key # <<>> => \A ids \in kSubset(K, Id), i \in Id : Verify_lagrange(ids, i) = key[i]

\* A proof verifies for the input and the key it was made with, whatever scalar
\* the participant drew, ...
ProofsVerify == \A m \in published : Verify_share_node(m.for, m.id, m.share)

\* ... and for no other input or key whose share would be another one.
ProofsBind ==
  \A m \in published, x \in Input, i \in Id :
    Verify_share_node(x, i, m.share) => m.share.point = (HashPoint[x] * key[i]) % Q
=============================================================================
