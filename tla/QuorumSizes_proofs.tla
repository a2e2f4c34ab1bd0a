-------------------------- MODULE QuorumSizes_proofs --------------------------
(***************************************************************************)
(* What the thresholds of package quorum guarantee, for every group size,  *)
(* and what the proofs about sets of heights and nodes need of numbers.    *)
(***************************************************************************)
EXTENDS QuorumSizes, FiniteSetTheorems, WellFoundedInduction, TLAPS

(***************************************************************************)
(* The thresholds                                                          *)
(***************************************************************************)

\* f is the largest number with 3f < n.
LEMMA FSizeBound ==
  ASSUME NEW n \in Nat \ {0}
  PROVE  FSize(n) \in Nat /\ 3 * FSize(n) < n /\ n <= 3 * FSize(n) + 3
BY DEF FSize, GoDiv

LEMMA FSizeMonotone ==
  ASSUME NEW n \in Nat \ {0}, NEW p \in Nat \ {0}, n <= p
  PROVE  FSize(n) <= FSize(p)
BY DEF FSize, GoDiv

\* The quorum is (n + f + 1) / 2, rounded up.
LEMMA QuorumSizeBound ==
  ASSUME NEW n \in Nat \ {0}
  PROVE  /\ QuorumSize(n) \in Nat
         /\ n + FSize(n) + 1 <= 2 * QuorumSize(n)
         /\ 2 * QuorumSize(n) <= n + FSize(n) + 2
<1> DEFINE s == n + FSize(n) + 1
<1>1. s \in Nat
  BY FSizeBound
<1>2. QuorumSize(n) = s \div 2 + (IF s - 2 * (s \div 2) > 0 THEN 1 ELSE 0)
  BY <1>1 DEF QuorumSize, GoRem, GoDiv
<1> HIDE DEF s
<1>3. QuorumSize(n) \in Nat /\ s <= 2 * QuorumSize(n) /\ 2 * QuorumSize(n) <= s + 1
  BY <1>1, <1>2
<1> QED
  BY <1>3, FSizeBound DEF s

LEMMA QuorumSizeMonotone ==
  ASSUME NEW n \in Nat \ {0}, NEW p \in Nat \ {0}, n <= p
  PROVE  QuorumSize(n) <= QuorumSize(p)
<1>1. /\ QuorumSize(n) \in Nat /\ 2 * QuorumSize(n) <= n + FSize(n) + 2
      /\ QuorumSize(p) \in Nat /\ p + FSize(p) + 1 <= 2 * QuorumSize(p)
  BY QuorumSizeBound
<1>2. FSize(n) <= FSize(p)
  BY FSizeMonotone
<1>3. FSize(n) \in Nat /\ FSize(p) \in Nat
  BY FSizeBound
<1> QED
  BY <1>1, <1>2, <1>3

\* Two quorums among n nodes have more than f nodes in common, and the nodes
\* that are not faulty are a quorum.
THEOREM QuorumSizeSound ==
  ASSUME NEW n \in Nat \ {0}
  PROVE  /\ 2 * QuorumSize(n) - n > FSize(n)
         /\ QuorumSize(n) <= n - FSize(n)
<1>1. QuorumSize(n) \in Nat /\ n + FSize(n) + 1 <= 2 * QuorumSize(n)
      /\ 2 * QuorumSize(n) <= n + FSize(n) + 2
  BY QuorumSizeBound
<1>2. FSize(n) \in Nat /\ 3 * FSize(n) < n
  BY FSizeBound
<1> QED
  BY <1>1, <1>2

(***************************************************************************)
(* Sets of numbers                                                         *)
(***************************************************************************)

\* A set of numbers has a least element, as < is well founded.
LEMMA LeastElement ==
  ASSUME NEW T \in SUBSET Nat, T # {}
  PROVE  \E x \in T : \A y \in T : x <= y
<1> DEFINE R == OpToRel(<, Nat)
<1>1. IsWellFoundedOn(R, Nat)
  BY NatLessThanWellFounded
<1>2. R = {ss \in Nat \X Nat : ss[1] < ss[2]}
  BY DEF OpToRel
<1>3. \E x \in T : \A y \in T : ~ (<<y, x>> \in R)
  <2> HIDE DEF R
  <2> QED BY <1>1, WFMin
<1>4. PICK x \in T : \A y \in T : ~ (<<y, x>> \in R)
  BY <1>3
<1>5. ASSUME NEW y \in T, y < x PROVE FALSE
  <2> HIDE DEF R
  <2>1. <<y, x>> \in Nat \X Nat /\ <<y, x>>[1] < <<y, x>>[2]
    BY <1>5
  <2> QED
    BY <2>1, <1>2, <1>4
<1> QED
  BY <1>5

\* A finite one has a greatest: the element with the fewest above it.
LEMMA GreatestElement ==
  ASSUME NEW S \in SUBSET Nat, IsFiniteSet(S), S # {}
  PROVE  \E x \in S : \A y \in S : y <= x
<1> DEFINE Above(x) == {y \in S : x < y}
           T == {Cardinality(Above(x)) : x \in S}
<1>1. \A x \in S : IsFiniteSet(Above(x)) /\ Cardinality(Above(x)) \in Nat
  BY FS_Subset, FS_CardinalityType
<1>2. PICK x \in S : \A y \in S : Cardinality(Above(x)) <= Cardinality(Above(y))
  <2>1. T \in SUBSET Nat /\ T # {}
    BY <1>1
  <2> HIDE DEF T
  <2>2. PICK k \in T : \A y \in T : k <= y
    BY <2>1, LeastElement
  <2> USE DEF T
  <2> QED
    BY <2>2
<1>3. ASSUME NEW y \in S, x < y PROVE FALSE
  <2>0. x \in Nat /\ y \in Nat /\ x < y
    BY <1>3
  <2>1. Above(y) \in SUBSET Above(x) /\ y \in Above(x) /\ y \notin Above(y)
    <3>1. \A z \in Above(y) : z \in Above(x)
      BY <2>0
    <3>2. y \in Above(x) /\ y \notin Above(y)
      BY <2>0
    <3> QED BY <3>1, <3>2
  <2>2. Cardinality(Above(y)) <= Cardinality(Above(x)) /\ Cardinality(Above(y)) # Cardinality(Above(x))
    <3> HIDE DEF Above
    <3> QED BY <2>1, <1>1, FS_Subset
  <2> QED
    BY <1>1, <1>2, <2>2
<1> QED
  BY <1>3

\* Sets of at most k elements, one for each member of P, have at most |P| * k
\* elements together: else there is a smallest subset of P for which they have more.
LEMMA UnionBound ==
  ASSUME NEW P, IsFiniteSet(P), NEW k \in Nat, NEW g,
         \A w \in P : IsFiniteSet(g[w]) /\ Cardinality(g[w]) <= k
  PROVE  /\ IsFiniteSet(UNION {g[w] : w \in P})
         /\ Cardinality(UNION {g[w] : w \in P}) <= Cardinality(P) * k
<1> DEFINE U(Q) == UNION {g[w] : w \in Q}
           Good(Q) == IsFiniteSet(U(Q)) /\ Cardinality(U(Q)) <= Cardinality(Q) * k
           Bad == {n \in Nat : \E Q \in SUBSET P : Cardinality(Q) = n /\ ~Good(Q)}
<1> SUFFICES ASSUME ~Good(P) PROVE FALSE
  OBVIOUS
<1>1. \A Q \in SUBSET P : IsFiniteSet(Q) /\ Cardinality(Q) \in Nat
  BY FS_Subset, FS_CardinalityType
<1>2. Bad \in SUBSET Nat /\ Bad # {}
  <2> HIDE DEF Good
  <2>1. Cardinality(P) \in Bad
    BY <1>1
  <2> QED
    BY <2>1
<1>3. PICK n \in Bad : \A d \in Bad : n <= d
  <2> HIDE DEF Bad
  <2> QED
    BY <1>2, LeastElement
<1>4. PICK Q \in SUBSET P : Cardinality(Q) = n /\ ~Good(Q)
  OBVIOUS
<1>5. Q # {}
  <2>1. U({}) = {}
    OBVIOUS
  <2>2. IsFiniteSet(U({})) /\ Cardinality(U({})) = 0 /\ Cardinality({}) = 0
    BY <2>1, FS_EmptySet
  <2>3. Good({})
    BY <2>2
  <2> HIDE DEF Good
  <2> QED
    BY <1>4, <2>3
<1>6. PICK w \in Q : TRUE
  BY <1>5
<1> DEFINE R == Q \ {w}
<1>7. R \in SUBSET P /\ Cardinality(R) = n - 1 /\ n \in Nat
  BY <1>1, <1>4, <1>6, FS_RemoveElement
<1>8. Good(R)
  <2> HIDE DEF R, Good
  <2>1. Cardinality(R) \in Nat
    BY <1>1, <1>7
  <2>2. Cardinality(R) \notin Bad
    <3> HIDE DEF Bad
    <3> QED
      BY <1>3, <1>7, <2>1
  <2> QED
    BY <1>7, <2>1, <2>2
<1>9. U(Q) = U(R) \cup g[w]
  <2>1. \A x : x \in U(Q) <=> \E q \in Q : x \in g[q]
    OBVIOUS
  <2>2. \A x : x \in U(R) <=> \E q \in R : x \in g[q]
    OBVIOUS
  <2> HIDE DEF U
  <2> QED
    BY <1>6, <2>1, <2>2
<1>10. IsFiniteSet(g[w]) /\ Cardinality(g[w]) \in Nat /\ Cardinality(g[w]) <= k
  BY <1>6, FS_CardinalityType
<1>11. IsFiniteSet(U(R)) /\ Cardinality(U(R)) \in Nat /\ Cardinality(U(R)) <= (n - 1) * k
  BY <1>7, <1>8, FS_CardinalityType
<1> HIDE DEF U
<1>12. /\ IsFiniteSet(U(Q))
       /\ Cardinality(U(Q)) <= Cardinality(U(R)) + Cardinality(g[w])
       /\ Cardinality(U(Q)) \in Nat
  <2>1. IsFiniteSet(U(R) \cap g[w]) /\ Cardinality(U(R) \cap g[w]) \in Nat
    BY <1>11, FS_Intersection, FS_CardinalityType
  <2>2. /\ IsFiniteSet(U(Q))
        /\ Cardinality(U(Q)) = Cardinality(U(R)) + Cardinality(g[w]) - Cardinality(U(R) \cap g[w])
    BY <1>9, <1>10, <1>11, FS_Union
  <2>3. Cardinality(U(Q)) \in Nat
    BY <2>2, FS_CardinalityType
  <2> DEFINE x == Cardinality(U(Q))
             y == Cardinality(U(R))
             z == Cardinality(g[w])
             t == Cardinality(U(R) \cap g[w])
  <2>4. x = y + z - t /\ y \in Nat /\ z \in Nat /\ t \in Nat /\ x \in Nat
    BY <1>10, <1>11, <2>1, <2>2, <2>3
  <2>5. x <= y + z
    <3> HIDE DEF x, y, z, t
    <3> QED
      BY <2>4
  <2> QED
    BY <2>2, <2>3, <2>5
<1>13. (n - 1) * k + k = n * k
  BY <1>7
<1>14. Cardinality(U(Q)) <= n * k
  BY <1>7, <1>10, <1>11, <1>12, <1>13
<1> QED
  BY <1>4, <1>12, <1>14
=============================================================================
