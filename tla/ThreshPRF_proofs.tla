-------------------------- MODULE ThreshPRF_proofs --------------------------
(***************************************************************************)
(* The threshold pseudorandom function, for every prime order, any number  *)
(* of participants, any threshold and any polynomial of the dealer: what   *)
(* the folds of ThreshPRF compute, residues modulo the order, Lagrange     *)
(* interpolation, and the invariants of the files.                         *)
(***************************************************************************)
EXTENDS ThreshPRF, QuorumSizes_proofs

(***************************************************************************)
(* Induction, with the sets of the numbers and of the subsets for which a  *)
(* claim holds                                                             *)
(***************************************************************************)

LEMMA NumberInduction ==
  ASSUME NEW P, 0 \in P, \A n \in Nat : n \in P => n + 1 \in P
  PROVE  Nat \subseteq P
<1> DEFINE Bad == {n \in Nat : n \notin P}
<1> SUFFICES ASSUME Bad # {} PROVE FALSE
  OBVIOUS
<1>1. PICK n \in Bad : \A d \in Bad : n <= d
  <2>1. Bad \in SUBSET Nat
    OBVIOUS
  <2> HIDE DEF Bad
  <2> QED
    BY <2>1, LeastElement
<1>2. n \in Nat /\ n # 0
  OBVIOUS
<1>3. n - 1 \in Nat /\ n - 1 \notin Bad
  <2>1. n - 1 \in Nat /\ ~(n <= n - 1)
    BY <1>2
  <2> HIDE DEF Bad
  <2> QED
    BY <1>1, <2>1
<1>4. n - 1 \in P /\ (n - 1) + 1 = n
  BY <1>2, <1>3
<1> QED
  BY <1>3, <1>4

LEMMA SetInduction ==
  ASSUME NEW S, IsFiniteSet(S), NEW P, {} \in P,
         \A T \in SUBSET S, x \in S : T \in P /\ x \notin T => T \cup {x} \in P
  PROVE  S \in P
<1> DEFINE R == {n \in Nat : \A T \in SUBSET S : Cardinality(T) = n => T \in P}
<1>1. \A T \in SUBSET S : IsFiniteSet(T) /\ Cardinality(T) \in Nat
  BY FS_Subset, FS_CardinalityType
<1>2. 0 \in R
  BY <1>1, FS_EmptySet
<1>3. ASSUME NEW n \in Nat, n \in R PROVE n + 1 \in R
  <2> SUFFICES ASSUME NEW T \in SUBSET S, Cardinality(T) = n + 1 PROVE T \in P
    OBVIOUS
  <2>1. T # {}
    BY <1>1, FS_EmptySet
  <2>2. PICK x \in T : TRUE
    BY <2>1
  <2>3. T \ {x} \in SUBSET S /\ Cardinality(T \ {x}) = n
    <3>1. Cardinality(T \ {x}) = Cardinality(T) - 1
      BY <1>1, <2>2, FS_RemoveElement
    <3> QED
      BY <3>1
  <2>4. T \ {x} \in P /\ (T \ {x}) \cup {x} = T
    BY <1>3, <2>3
  <2> QED
    BY <2>3, <2>4
<1>4. Nat \subseteq R
  <2> HIDE DEF R
  <2> QED
    BY <1>2, <1>3, NumberInduction
<1> QED
  BY <1>1, <1>4

(***************************************************************************)
(* Sums and products, whose members are taken in an order nobody knows     *)
(***************************************************************************)

\* The two operations, and what they leave as it is.
Op(kind, a, b) == IF kind = "sum" THEN a + b ELSE a * b
Neutral(kind) == IF kind = "sum" THEN 0 ELSE 1

Chosen(T) == CHOOSE x \in T : TRUE

\* One step of a fold: over T, from those over smaller sets.
FoldStep(kind, f, g, T) ==
  IF T = {} THEN Neutral(kind) ELSE Op(kind, f[Chosen(T)], g[T \ {Chosen(T)}])

\* The folds over the subsets of S, in one function.
IsFold(kind, f, S, g) == g = [T \in SUBSET S |-> FoldStep(kind, f, g, T)]

LEMMA OpLaws ==
  ASSUME NEW kind, NEW a \in Int, NEW b \in Int, NEW c \in Int
  PROVE  /\ Op(kind, a, b) \in Int /\ Neutral(kind) \in Int
         /\ Op(kind, a, Op(kind, b, c)) = Op(kind, b, Op(kind, a, c))
BY DEF Op, Neutral

\* They exist: those over sets of at most n members do, for every n.
LEMMA FoldExists ==
  ASSUME NEW kind, NEW f, NEW S, IsFiniteSet(S)
  PROVE  \E g : IsFold(kind, f, S, g)
<1> DEFINE Upto(g, n) == \A T \in SUBSET S : Cardinality(T) <= n => g[T] = FoldStep(kind, f, g, T)
           R == {n \in Nat : \E g : g = [T \in SUBSET S |-> g[T]] /\ Upto(g, n)}
<1>1. \A T \in SUBSET S : IsFiniteSet(T) /\ Cardinality(T) \in Nat
  BY FS_Subset, FS_CardinalityType
<1>2. \A T \in SUBSET S : T # {} => /\ T \ {Chosen(T)} \in SUBSET S
                                    /\ Cardinality(T \ {Chosen(T)}) = Cardinality(T) - 1
  BY <1>1, FS_RemoveElement DEF Chosen
<1>3. 0 \in R
  <2> DEFINE g == [T \in SUBSET S |-> Neutral(kind)]
  <2>1. ASSUME NEW T \in SUBSET S, Cardinality(T) <= 0 PROVE g[T] = FoldStep(kind, f, g, T)
    <3>1. T = {}
      BY <1>1, <2>1, FS_EmptySet
    <3> QED
      BY <3>1 DEF FoldStep
  <2> QED
    BY <2>1
<1>4. ASSUME NEW n \in Nat, n \in R PROVE n + 1 \in R
  <2>1. PICK g : g = [T \in SUBSET S |-> g[T]] /\ Upto(g, n)
    BY <1>4
  <2> DEFINE h == [T \in SUBSET S |-> IF Cardinality(T) <= n THEN g[T] ELSE FoldStep(kind, f, g, T)]
  <2>2. \A T \in SUBSET S : h[T] = FoldStep(kind, f, g, T)
    BY <2>1
  <2>3. ASSUME NEW T \in SUBSET S, Cardinality(T) <= n + 1 PROVE h[T] = FoldStep(kind, f, h, T)
    <3>1. CASE T = {}
      BY <2>2, <3>1 DEF FoldStep
    <3>2. CASE T # {}
      <4>1. Cardinality(T \ {Chosen(T)}) <= n /\ T \ {Chosen(T)} \in SUBSET S
        BY <1>1, <1>2, <2>3, <3>2
      <4>2. h[T \ {Chosen(T)}] = g[T \ {Chosen(T)}]
        BY <4>1
      <4> HIDE DEF h
      <4> QED
        BY <2>2, <3>2, <4>2 DEF FoldStep
    <3> QED
      BY <3>1, <3>2
  <2>4. h = [T \in SUBSET S |-> h[T]]
    OBVIOUS
  <2>5. Upto(h, n + 1)
    BY <2>3
  <2> HIDE DEF h, Upto
  <2> QED
    BY <2>4, <2>5
<1>5. Cardinality(S) \in R
  <2> HIDE DEF R
  <2>1. Nat \subseteq R
    BY <1>3, <1>4, NumberInduction
  <2> QED
    BY <1>1, <2>1
<1>6. PICK g : g = [T \in SUBSET S |-> g[T]] /\ Upto(g, Cardinality(S))
  BY <1>5
<1>7. \A T \in SUBSET S : g[T] = FoldStep(kind, f, g, T)
  BY <1>6, FS_Subset
<1>8. g = [T \in SUBSET S |-> FoldStep(kind, f, g, T)]
  BY <1>6, <1>7
<1> QED
  BY <1>8 DEF IsFold

\* Any member may be the first.
LEMMA FoldTakes ==
  ASSUME NEW kind, NEW f, NEW S, NEW g,
         IsFiniteSet(S), \A x \in S : f[x] \in Int, IsFold(kind, f, S, g)
  PROVE  \A T \in SUBSET S : /\ g[T] \in Int
                             /\ \A x \in T : g[T] = Op(kind, f[x], g[T \ {x}])
<1> DEFINE Good(T) == g[T] \in Int /\ \A x \in T : g[T] = Op(kind, f[x], g[T \ {x}])
           R == {n \in Nat : \A T \in SUBSET S : Cardinality(T) <= n => Good(T)}
<1>1. \A T \in SUBSET S : IsFiniteSet(T) /\ Cardinality(T) \in Nat
  BY FS_Subset, FS_CardinalityType
<1>2. \A T \in SUBSET S : g[T] = FoldStep(kind, f, g, T)
  BY DEF IsFold
<1>3. Good({})
  <2>1. g[{}] = Neutral(kind)
    BY <1>2 DEF FoldStep
  <2> QED
    BY <2>1, OpLaws
<1>4. 0 \in R
  <2> HIDE DEF Good
  <2> QED
    BY <1>1, <1>3, FS_EmptySet
<1>5. ASSUME NEW n \in Nat, n \in R PROVE n + 1 \in R
  <2>0. ASSUME NEW U \in SUBSET S, Cardinality(U) <= n PROVE Good(U)
    <3> HIDE DEF Good
    <3> QED
      BY <1>5, <2>0
  <2> SUFFICES ASSUME NEW T \in SUBSET S, Cardinality(T) <= n + 1, T # {} PROVE Good(T)
    <3> HIDE DEF Good
    <3> QED
      BY <1>3
  <2> DEFINE c == Chosen(T)
  <2>1. T # {}
    OBVIOUS
  <2>2. c \in T
    BY <2>1 DEF Chosen
  <2>3. ASSUME NEW x \in T PROVE Good(T \ {x})
    <3>1. Cardinality(T \ {x}) = Cardinality(T) - 1
      BY <1>1, FS_RemoveElement
    <3>2. T \ {x} \in SUBSET S /\ Cardinality(T \ {x}) <= n
      BY <1>1, <3>1
    <3> HIDE DEF Good
    <3> QED
      BY <2>0, <3>2
  <2>4. g[T] = Op(kind, f[c], g[T \ {c}])
    BY <1>2, <2>1 DEF FoldStep
  <2>5. f[c] \in Int /\ g[T \ {c}] \in Int
    BY <2>2, <2>3
  <2>6. g[T] \in Int
    BY <2>4, <2>5, OpLaws
  <2>7. ASSUME NEW x \in T, x # c PROVE g[T] = Op(kind, f[x], g[T \ {x}])
    <3> DEFINE U == (T \ {c}) \ {x}
    <3>1. U = (T \ {x}) \ {c} /\ x \in T \ {c} /\ c \in T \ {x}
      BY <2>2, <2>7
    <3>2. g[T \ {c}] = Op(kind, f[x], g[U]) /\ g[T \ {x}] = Op(kind, f[c], g[U])
      BY <2>2, <2>3, <3>1
    <3>3. U \in SUBSET S /\ Cardinality(U) <= n
      <4>1. Cardinality(U) = Cardinality(T \ {c}) - 1 /\ Cardinality(T \ {c}) = Cardinality(T) - 1
        BY <1>1, <2>2, <3>1, FS_RemoveElement
      <4> QED
        BY <1>1, <4>1
    <3>4. f[x] \in Int /\ g[U] \in Int
      <4>1. Good(U)
        <5> HIDE DEF U, Good
        <5> QED
          BY <2>0, <3>3
      <4> QED
        BY <4>1
    <3> QED
      BY <2>4, <2>5, <3>2, <3>4, OpLaws
  <2> QED
    BY <2>4, <2>6, <2>7
<1> QED
  <2> HIDE DEF R
  <2>1. Nat \subseteq R
    BY <1>4, <1>5, NumberInduction
  <2> USE DEF R
  <2> QED
    BY <1>1, <2>1

\* The folds over the subsets of a set do not depend on the set they are part of.
LEMMA FoldUnique ==
  ASSUME NEW kind, NEW f, NEW S, NEW T \in SUBSET S, NEW g, NEW h,
         IsFiniteSet(S), \A x \in S : f[x] \in Int,
         IsFold(kind, f, S, g), IsFold(kind, f, T, h)
  PROVE  h[T] = g[T]
<1>1. IsFiniteSet(T) /\ \A x \in T : f[x] \in Int
  BY FS_Subset
<1>4. \A V \in SUBSET T : /\ h[V] \in Int
                          /\ \A x \in V : h[V] = Op(kind, f[x], h[V \ {x}])
  BY <1>1, FoldTakes
<1>5. \A V \in SUBSET S : /\ g[V] \in Int
                          /\ \A x \in V : g[V] = Op(kind, f[x], g[V \ {x}])
  BY FoldTakes
<1> DEFINE P == {U \in SUBSET T : h[U] = g[U]}
<1>2. {} \in P
  BY DEF IsFold, FoldStep
<1>3. ASSUME NEW U \in SUBSET T, NEW x \in T, U \in P, x \notin U PROVE U \cup {x} \in P
  <2>1. (U \cup {x}) \ {x} = U /\ x \in U \cup {x} /\ U \cup {x} \in SUBSET T
    BY <1>3
  <2>2. h[U \cup {x}] = Op(kind, f[x], h[U])
    BY <1>4, <2>1
  <2>3. g[U \cup {x}] = Op(kind, f[x], g[U])
    BY <1>5, <2>1
  <2> QED
    BY <1>3, <2>1, <2>2, <2>3
<1> HIDE DEF P
<1>6. T \in P
  BY <1>1, <1>2, <1>3, SetInduction
<1> QED
  BY <1>6 DEF P

Sum(f, S) == SumFunctionOnSet(f, S)

LEMMA SumFold ==
  ASSUME NEW S, IsFiniteSet(S), NEW f
  PROVE  \E g : IsFold("sum", f, S, g) /\ Sum(f, S) = g[S]
<1> DEFINE Is(g) == g = [T \in SUBSET S |-> IF T = {} THEN 0
                                            ELSE LET x == CHOOSE y \in T : TRUE
                                                 IN  f[x] + g[T \ {x}]]
           it == CHOOSE g : Is(g)
<1>1. \A g : Is(g) <=> IsFold("sum", f, S, g)
  BY DEF IsFold, FoldStep, Op, Neutral, Chosen
<1>2. \E g : Is(g)
  <2> HIDE DEF Is
  <2> QED
    BY <1>1, FoldExists
<1>3. Is(it)
  BY <1>2
<1>4. Sum(f, S) = it[S]
  BY DEF Sum, SumFunctionOnSet, FoldFunctionOnSet, MapThenFoldSet
<1> QED
  BY <1>1, <1>3, <1>4

LEMMA ProductFold ==
  ASSUME NEW S, IsFiniteSet(S), NEW f
  PROVE  \E g : IsFold("product", f, S, g) /\ Product(f, S) = g[S]
<1> DEFINE Is(g) == g = [T \in SUBSET S |-> IF T = {} THEN 1
                                            ELSE LET x == CHOOSE y \in T : TRUE
                                                 IN  f[x] * g[T \ {x}]]
           it == CHOOSE g : Is(g)
<1>1. \A g : Is(g) <=> IsFold("product", f, S, g)
  BY DEF IsFold, FoldStep, Op, Neutral, Chosen
<1>2. \E g : Is(g)
  <2> HIDE DEF Is
  <2> QED
    BY <1>1, FoldExists
<1>3. Is(it)
  BY <1>2
<1>4. Product(f, S) = it[S]
  BY DEF Product, FoldFunctionOnSet, MapThenFoldSet
<1> QED
  BY <1>1, <1>3, <1>4

Fold(kind, f, S) == IF kind = "sum" THEN Sum(f, S) ELSE Product(f, S)

LEMMA FoldLaws ==
  ASSUME NEW kind \in {"sum", "product"}, NEW f, NEW S,
         IsFiniteSet(S), \A x \in S : f[x] \in Int
  PROVE  /\ Fold(kind, f, {}) = Neutral(kind) /\ Fold(kind, f, S) \in Int
         /\ \A x \in S : Fold(kind, f, S) = Op(kind, f[x], Fold(kind, f, S \ {x}))
<1>1. \A T \in SUBSET S : IsFiniteSet(T)
  BY FS_Subset
<1>2. \A T \in SUBSET S : \E g : IsFold(kind, f, T, g) /\ Fold(kind, f, T) = g[T]
  BY <1>1, SumFold, ProductFold DEF Fold
<1>3. PICK g : IsFold(kind, f, S, g) /\ Fold(kind, f, S) = g[S]
  BY <1>2
<1>4. \A T \in SUBSET S : /\ g[T] \in Int
                          /\ \A x \in T : g[T] = Op(kind, f[x], g[T \ {x}])
  <2>1. IsFold(kind, f, S, g)
    BY <1>3
  <2> QED
    BY <2>1, FoldTakes, SMTT(60)
<1>5. ASSUME NEW T \in SUBSET S PROVE Fold(kind, f, T) = g[T]
  <2>1. PICK h : IsFold(kind, f, T, h) /\ Fold(kind, f, T) = h[T]
    BY <1>2
  <2> QED
    BY <1>3, <2>1, FoldUnique
<1>6. g[{}] = Neutral(kind)
  BY <1>3 DEF IsFold, FoldStep
<1> QED
  BY <1>4, <1>5, <1>6

LEMMA SumLaws ==
  ASSUME NEW f, NEW S, IsFiniteSet(S), \A x \in S : f[x] \in Int
  PROVE  /\ Sum(f, {}) = 0 /\ Sum(f, S) \in Int
         /\ \A x \in S : Sum(f, S) = f[x] + Sum(f, S \ {x})
<1>1. \A T : Fold("sum", f, T) = Sum(f, T)
  BY DEF Fold
<1>2. Neutral("sum") = 0 /\ \A a, b : Op("sum", a, b) = a + b
  BY DEF Op, Neutral
<1>3. /\ Fold("sum", f, {}) = Neutral("sum") /\ Fold("sum", f, S) \in Int
      /\ \A x \in S : Fold("sum", f, S) = Op("sum", f[x], Fold("sum", f, S \ {x}))
  BY FoldLaws
<1> QED
  BY <1>1, <1>2, <1>3

LEMMA ProductLaws ==
  ASSUME NEW f, NEW S, IsFiniteSet(S), \A x \in S : f[x] \in Int
  PROVE  /\ Product(f, {}) = 1 /\ Product(f, S) \in Int
         /\ \A x \in S : Product(f, S) = f[x] * Product(f, S \ {x})
<1>1. \A T : Fold("product", f, T) = Product(f, T)
  BY DEF Fold
<1>2. Neutral("product") = 1 /\ \A a, b : Op("product", a, b) = a * b
  BY DEF Op, Neutral
<1>3. /\ Fold("product", f, {}) = Neutral("product") /\ Fold("product", f, S) \in Int
      /\ \A x \in S : Fold("product", f, S) = Op("product", f[x], Fold("product", f, S \ {x}))
  BY FoldLaws
<1> QED
  BY <1>1, <1>2, <1>3

(***************************************************************************)
(* Residues modulo the order                                               *)
(***************************************************************************)

Cong(a, b) == \E k \in Int : a = b + k * Q

LEMMA Order == Q \in Nat /\ Q >= 2 /\ \A d \in 2 .. Q - 1 : Q % d # 0
BY Group

LEMMA CongLaws ==
  ASSUME NEW a \in Int, NEW b \in Int
  PROVE  /\ Cong(a, a)
         /\ Cong(a, b) => Cong(b, a)
<1>1. Q \in Int
  BY Order
<1>2. a = a + 0 * Q
  BY <1>1
<1>3. ASSUME Cong(a, b) PROVE Cong(b, a)
  <2>1. PICK k \in Int : a = b + k * Q
    BY <1>3 DEF Cong
  <2>2. b = a + (-k) * Q /\ -k \in Int
    BY <1>1, <2>1
  <2> QED
    BY <2>2 DEF Cong
<1> QED
  BY <1>2, <1>3 DEF Cong

LEMMA CongTrans ==
  ASSUME NEW a \in Int, NEW b \in Int, NEW c \in Int, Cong(a, b), Cong(b, c)
  PROVE  Cong(a, c)
<1>1. PICK k \in Int : a = b + k * Q
  BY DEF Cong
<1>2. PICK l \in Int : b = c + l * Q
  BY DEF Cong
<1>3. a = c + (k + l) * Q /\ k + l \in Int
  BY <1>1, <1>2, Order
<1> QED
  BY <1>3 DEF Cong

LEMMA CongAdd ==
  ASSUME NEW a \in Int, NEW b \in Int, NEW c \in Int, NEW d \in Int, Cong(a, b), Cong(c, d)
  PROVE  Cong(a + c, b + d)
<1>1. PICK k \in Int : a = b + k * Q
  BY DEF Cong
<1>2. PICK l \in Int : c = d + l * Q
  BY DEF Cong
<1>3. a + c = (b + d) + (k + l) * Q /\ k + l \in Int
  BY <1>1, <1>2, Order
<1> QED
  BY <1>3 DEF Cong

LEMMA CongMul ==
  ASSUME NEW a \in Int, NEW b \in Int, NEW c \in Int, NEW d \in Int, Cong(a, b), Cong(c, d)
  PROVE  Cong(a * c, b * d)
<1>1. PICK k \in Int : a = b + k * Q
  BY DEF Cong
<1>2. PICK l \in Int : c = d + l * Q
  BY DEF Cong
<1>3. a * c = b * d + (b * l + k * d + k * l * Q) * Q
  BY <1>1, <1>2, Order
<1>4. b * l + k * d + k * l * Q \in Int
  BY Order
<1> QED
  BY <1>3, <1>4 DEF Cong

LEMMA CongTimes ==
  ASSUME NEW a \in Int, NEW b \in Int, NEW c \in Int, Cong(a, b)
  PROVE  Cong(a * c, b * c) /\ Cong(c * a, c * b)
<1>1. Cong(c, c)
  BY CongLaws
<1> QED
  BY <1>1, CongMul

LEMMA CongMod ==
  ASSUME NEW a \in Int
  PROVE  a % Q \in Scalar /\ a % Q \in Int /\ Cong(a % Q, a)
<1>1. Q \in Nat \ {0}
  BY Order
<1>2. a % Q \in 0 .. Q - 1 /\ a = Q * (a \div Q) + (a % Q) /\ a \div Q \in Int
  BY <1>1
<1>3. (a % Q) = a + (-(a \div Q)) * Q /\ -(a \div Q) \in Int
  BY <1>1, <1>2
<1> QED
  BY <1>2, <1>3 DEF Cong, Scalar

\* Congruent scalars are equal.
LEMMA CongScalar ==
  ASSUME NEW a \in Scalar, NEW b \in Scalar, Cong(a, b)
  PROVE  a = b
<1>1. PICK k \in Int : a = b + k * Q
  BY DEF Cong
<1>2. a \in 0 .. Q - 1 /\ b \in 0 .. Q - 1 /\ Q \in Nat
  BY Order DEF Scalar
<1>3. CASE k >= 1
  <2>1. k * Q >= Q
    BY <1>2, <1>3
  <2> QED
    BY <1>1, <1>2, <2>1
<1>4. CASE k <= -1
  <2>1. k * Q <= -Q
    BY <1>2, <1>4
  <2> QED
    BY <1>1, <1>2, <2>1
<1>5. CASE k = 0
  BY <1>1, <1>2, <1>5
<1> QED
  BY <1>3, <1>4, <1>5

LEMMA CongRemainder ==
  ASSUME NEW a \in Int, NEW b \in Scalar, Cong(a, b)
  PROVE  a % Q = b
<1>1. b \in Int
  BY Order DEF Scalar
<1>2. a % Q \in Scalar /\ a % Q \in Int /\ Cong(a % Q, a)
  BY CongMod, Order DEF Scalar
<1>3. Cong(a % Q, b)
  BY <1>1, <1>2, CongTrans
<1> QED
  BY <1>2, <1>3, CongScalar

(***************************************************************************)
(* Inverses                                                                *)
(***************************************************************************)

Unit(a) == \E b \in Int : Cong(a * b, 1)

\* The order is prime: what is no multiple of it has an inverse.  The smallest
\* positive number that is congruent to a multiple of a divides Q.
LEMMA PrimeUnit ==
  ASSUME NEW a \in Int, ~Cong(a, 0)
  PROVE  Unit(a)
<1> DEFINE M == {m \in Nat : m # 0 /\ \E x \in Int : Cong(a * x, m)}
           r == a % Q
<1>1. r \in Int /\ r \in 0 .. Q - 1 /\ Cong(r, a) /\ Cong(a, r)
  BY CongMod, CongLaws, Order DEF Scalar
<1>2. r # 0
  BY <1>1
<1>3. r \in M
  <2>1. a * 1 = a
    OBVIOUS
  <2>2. r \in Nat /\ Cong(a * 1, r)
    BY <1>1, <2>1
  <2> QED
    BY <1>2, <2>2
<1>4. PICK m \in M : \A d \in M : m <= d
  <2>1. M \in SUBSET Nat
    OBVIOUS
  <2> HIDE DEF M
  <2> QED
    BY <1>3, <2>1, LeastElement
<1>5. PICK x \in Int : Cong(a * x, m)
  OBVIOUS
<1>6. m \in Nat \ {0} /\ m < Q
  <2>1. m <= r
    BY <1>3, <1>4
  <2> QED
    BY <1>1, <1>4, <2>1, Order
<1>7. Q % m = 0
  <2> DEFINE q == Q \div m
             s == Q % m
  <2>1. q \in Int /\ s \in 0 .. m - 1 /\ Q = m * q + s
    BY <1>6, Order
  <2> HIDE DEF q, s
  <2>2. Cong(a * (-(x * q)), s)
    <3>1. a * x \in Int /\ Cong(m, a * x)
      BY <1>5, <1>6, CongLaws
    <3>2. PICK k \in Int : m = a * x + k * Q
      BY <3>1 DEF Cong
    <3>3. a * (-(x * q)) = -((a * x) * q)
      BY <2>1
    <3>4. (a * x) * q = m * q - (k * Q) * q
      BY <2>1, <3>1, <3>2, Order
    <3>5. (k * Q) * q = (k * q) * Q /\ k * q \in Int
      BY <2>1, Order
    <3>6. -((a * x) * q) = s + (k * q - 1) * Q
      <4> DEFINE u == k * q
                 v == m * q
                 w == (a * x) * q
      <4>1. w = v - u * Q /\ Q = v + s /\ u \in Int /\ v \in Int /\ w \in Int
        BY <1>6, <2>1, <3>1, <3>4, <3>5
      <4> HIDE DEF u, v, w
      <4>2. -w = s + (u - 1) * Q
        BY <2>1, <4>1, <1>6, Order
      <4> QED
        BY <4>2 DEF u, w
    <3>7. k * q - 1 \in Int
      BY <3>5
    <3> QED
      BY <3>3, <3>6, <3>7 DEF Cong
  <2>3. s \notin M
    BY <1>4, <1>6, <2>1
  <2>4. -(x * q) \in Int /\ s \in Nat
    BY <1>6, <2>1
  <2>5. s = 0
    BY <2>2, <2>3, <2>4
  <2> QED
    BY <2>5 DEF s
<1>8. m = 1
  BY <1>6, <1>7, Order
<1> QED
  BY <1>5, <1>8 DEF Unit

LEMMA UnitMul ==
  ASSUME NEW a \in Int, NEW b \in Int, Unit(a), Unit(b)
  PROVE  Unit(a * b)
<1>1. PICK c \in Int : Cong(a * c, 1)
  BY DEF Unit
<1>2. PICK d \in Int : Cong(b * d, 1)
  BY DEF Unit
<1>3. Cong((a * c) * (b * d), 1 * 1)
  BY <1>1, <1>2, CongMul
<1>4. (a * b) * (c * d) = (a * c) * (b * d) /\ c * d \in Int /\ 1 * 1 = 1
  OBVIOUS
<1> QED
  BY <1>3, <1>4 DEF Unit

LEMMA ProductUnit ==
  ASSUME NEW f, NEW S, IsFiniteSet(S), \A x \in S : f[x] \in Int /\ Unit(f[x])
  PROVE  Unit(Product(f, S))
<1> DEFINE P == {T \in SUBSET S : Unit(Product(f, T))}
<1>1. \A T \in SUBSET S : IsFiniteSet(T)
  BY FS_Subset
<1>2. {} \in P
  <2>1. Product(f, {}) = 1
    BY ProductLaws
  <2>2. Unit(1)
    <3>1. 1 * 1 = 1 /\ Cong(1, 1)
      BY CongLaws
    <3> QED
      BY <3>1 DEF Unit
  <2> QED
    BY <2>1, <2>2
<1>3. ASSUME NEW T \in SUBSET S, NEW x \in S, T \in P, x \notin T PROVE T \cup {x} \in P
  <2>1. T \cup {x} \in SUBSET S /\ (T \cup {x}) \ {x} = T /\ x \in T \cup {x}
    BY <1>3
  <2>2. Product(f, T \cup {x}) = f[x] * Product(f, T)
    BY <1>1, <2>1, ProductLaws
  <2>3. Product(f, T) \in Int
    BY <1>1, ProductLaws
  <2> QED
    BY <1>3, <2>1, <2>2, <2>3, UnitMul
<1> HIDE DEF P
<1>4. S \in P
  BY <1>2, <1>3, SetInduction
<1> QED
  BY <1>4 DEF P

LEMMA Inverses ==
  ASSUME NEW a \in Int, Unit(a)
  PROVE  ModInverse(a) \in Scalar /\ Cong(a * ModInverse(a), 1)
<1>1. PICK b \in Int : Cong(a * b, 1)
  BY DEF Unit
<1> DEFINE c == b % Q
<1>2. c \in Scalar /\ c \in Int /\ Cong(c, b)
  BY CongMod, Order DEF Scalar
<1> HIDE DEF c
<1>3. Cong(a * c, 1)
  <2>1. Cong(a * c, a * b)
    BY <1>2, CongLaws, CongMul
  <2> QED
    BY <1>1, <1>2, <2>1, CongTrans
<1>4. 1 \in Scalar
  BY Order DEF Scalar
<1>5. (a * c) % Q = 1
  BY <1>2, <1>3, <1>4, CongRemainder
<1> DEFINE d == ModInverse(a)
<1>6. d \in Scalar /\ (a * d) % Q = 1
  BY <1>2, <1>5 DEF ModInverse
<1>7. d \in Int
  BY <1>6, Order DEF Scalar
<1> HIDE DEF d
<1>8. Cong((a * d) % Q, a * d)
  BY <1>7, CongMod
<1>9. Cong(a * d, 1)
  BY <1>6, <1>7, <1>8, CongLaws
<1> QED
  BY <1>6, <1>9 DEF d

(***************************************************************************)
(* What sums and products keep                                             *)
(***************************************************************************)

LEMMA ProductEqual ==
  ASSUME NEW f, NEW g, NEW S, IsFiniteSet(S), \A x \in S : f[x] \in Int /\ f[x] = g[x]
  PROVE  Product(f, S) = Product(g, S)
<1> DEFINE P == {T \in SUBSET S : Product(f, T) = Product(g, T)}
<1>1. \A T \in SUBSET S : IsFiniteSet(T)
  BY FS_Subset
<1>2. /\ \A x \in S : f[x] \in Int
      /\ \A x \in S : g[x] \in Int
  OBVIOUS
<1>3. {} \in P
  <2>1. Product(f, {}) = 1 /\ Product(g, {}) = 1
    BY <1>2, ProductLaws
  <2> QED
    BY <2>1
<1>4. ASSUME NEW T \in SUBSET S, NEW x \in S, T \in P, x \notin T PROVE T \cup {x} \in P
  <2>1. T \cup {x} \in SUBSET S /\ (T \cup {x}) \ {x} = T /\ x \in T \cup {x}
    BY <1>4
  <2>2. Product(f, T \cup {x}) = f[x] * Product(f, T)
    BY <1>1, <1>2, <2>1, ProductLaws
  <2>3. Product(g, T \cup {x}) = g[x] * Product(g, T)
    BY <1>1, <1>2, <2>1, ProductLaws
  <2> QED
    BY <1>4, <2>1, <2>2, <2>3
<1> HIDE DEF P
<1>5. S \in P
  BY <1>3, <1>4, SetInduction
<1> QED
  BY <1>5 DEF P

\* A sum of combinations is the combination of the sums.
LEMMA SumCombines ==
  ASSUME NEW c \in Int, NEW d \in Int, NEW f, NEW g, NEW h, NEW S, IsFiniteSet(S),
         \A x \in S : /\ f[x] \in Int /\ g[x] \in Int /\ h[x] \in Int
                      /\ Cong(h[x], c * f[x] + d * g[x])
  PROVE  Cong(Sum(h, S), c * Sum(f, S) + d * Sum(g, S))
<1> DEFINE P == {T \in SUBSET S : Cong(Sum(h, T), c * Sum(f, T) + d * Sum(g, T))}
<1>1. \A T \in SUBSET S : IsFiniteSet(T)
  BY FS_Subset
<1>2. /\ \A x \in S : f[x] \in Int
      /\ \A x \in S : g[x] \in Int
      /\ \A x \in S : h[x] \in Int
  OBVIOUS
<1>3. \A T \in SUBSET S : Sum(f, T) \in Int /\ Sum(g, T) \in Int /\ Sum(h, T) \in Int
  BY <1>1, <1>2, SumLaws
<1>4. {} \in P
  <2>1. Sum(f, {}) = 0 /\ Sum(g, {}) = 0 /\ Sum(h, {}) = 0
    BY <1>2, SumLaws
  <2>2. c * 0 + d * 0 = 0 /\ Cong(0, 0)
    BY CongLaws
  <2> QED
    BY <2>1, <2>2
<1>5. ASSUME NEW T \in SUBSET S, NEW x \in S, T \in P, x \notin T PROVE T \cup {x} \in P
  <2>1. T \cup {x} \in SUBSET S /\ (T \cup {x}) \ {x} = T /\ x \in T \cup {x}
    BY <1>5
  <2>2. Sum(f, T \cup {x}) = f[x] + Sum(f, T)
    BY <1>1, <1>2, <2>1, SumLaws
  <2>3. Sum(g, T \cup {x}) = g[x] + Sum(g, T)
    BY <1>1, <1>2, <2>1, SumLaws
  <2>4. Sum(h, T \cup {x}) = h[x] + Sum(h, T)
    BY <1>1, <1>2, <2>1, SumLaws
  <2> DEFINE F == Sum(f, T)
             G == Sum(g, T)
             H == Sum(h, T)
  <2>5. F \in Int /\ G \in Int /\ H \in Int /\ f[x] \in Int /\ g[x] \in Int /\ h[x] \in Int
    BY <1>3
  <2>6. Cong(h[x], c * f[x] + d * g[x]) /\ Cong(H, c * F + d * G)
    BY <1>5
  <2> HIDE DEF F, G, H
  <2>7. Cong(h[x] + H, (c * f[x] + d * g[x]) + (c * F + d * G))
    <3>1. c * f[x] + d * g[x] \in Int /\ c * F + d * G \in Int
      BY <2>5
    <3> QED
      BY <2>5, <2>6, <3>1, CongAdd
  <2>8. (c * f[x] + d * g[x]) + (c * F + d * G) = c * (f[x] + F) + d * (g[x] + G)
    BY <2>5
  <2>9. Cong(h[x] + H, c * (f[x] + F) + d * (g[x] + G))
    BY <2>7, <2>8
  <2> QED
    BY <2>1, <2>2, <2>3, <2>4, <2>9 DEF F, G, H
<1> HIDE DEF P
<1>6. S \in P
  BY <1>4, <1>5, SetInduction
<1> QED
  BY <1>6 DEF P

(***************************************************************************)
(* Divided differences: the sum of the values of a function at the points  *)
(* of T, each over the product of its differences to the other points      *)
(***************************************************************************)

\* Points whose differences have inverses.
Apart(T) ==
  /\ IsFiniteSet(T) /\ T \subseteq Int
  /\ \A i, j \in T : i # j => Unit(i - j)

Weight(T, i) == ModInverse(Differences(i, T \ {i}))

Divided(f, T) == Sum([i \in T |-> f[i] * Weight(T, i)], T)

LEMMA DifferencesLaws ==
  ASSUME NEW p \in Int, NEW T, IsFiniteSet(T), T \subseteq Int
  PROVE  /\ Differences(p, T) \in Int /\ Differences(p, T) \in Scalar
         /\ Cong(Differences(p, T), Product([j \in T |-> p - j], T))
         /\ Product([j \in T |-> p - j], T) \in Int
         /\ Differences(p, {}) = 1
         /\ \A x \in T : Cong(Differences(p, T), (p - x) * Differences(p, T \ {x}))
<1> DEFINE f(U) == [j \in U |-> p - j]
<1>1. ASSUME NEW U, IsFiniteSet(U), U \subseteq Int
      PROVE  /\ Product(f(U), U) \in Int /\ Product(f(U), {}) = 1
             /\ \A x \in U : Product(f(U), U) = (p - x) * Product(f(U), U \ {x})
  <2> DEFINE g == f(U)
  <2>0. IsFiniteSet(U)
    BY <1>1
  <2>1. /\ \A x \in U : g[x] \in Int
        /\ \A x \in U : g[x] = p - x
    BY <1>1
  <2> HIDE DEF g
  <2>2. /\ Product(g, U) \in Int /\ Product(g, {}) = 1
        /\ \A x \in U : Product(g, U) = g[x] * Product(g, U \ {x})
    BY <2>0, <2>1, ProductLaws
  <2> USE DEF g
  <2> HIDE DEF f
  <2> QED
    BY <2>1, <2>2
<1>2. ASSUME NEW U, IsFiniteSet(U), U \subseteq Int
      PROVE  /\ Differences(p, U) \in Int /\ Differences(p, U) \in Scalar
             /\ Cong(Differences(p, U), Product(f(U), U))
  <2>1. Product(f(U), U) \in Int
    BY <1>1, <1>2
  <2> HIDE DEF f
  <2>2. /\ Product(f(U), U) % Q \in Scalar
        /\ Cong(Product(f(U), U) % Q, Product(f(U), U))
    BY <2>1, CongMod
  <2>3. Differences(p, U) = Product(f(U), U) % Q
    BY DEF Differences, f
  <2> QED
    BY <2>2, <2>3, Order DEF Scalar
<1>3. Differences(p, {}) = 1
  <2>1. Product(f({}), {}) = 1
    BY <1>1, FS_EmptySet
  <2>2. 1 % Q = 1
    BY Order
  <2> QED
    BY <2>1, <2>2 DEF Differences
<1>4. ASSUME NEW x \in T PROVE Cong(Differences(p, T), (p - x) * Differences(p, T \ {x}))
  <2> DEFINE U == T \ {x}
  <2>1. IsFiniteSet(U) /\ U \subseteq Int /\ p - x \in Int
    BY FS_Subset
  <2>2. Product(f(T), U) = Product(f(U), U)
    <3>1. \A y \in U : f(T)[y] \in Int /\ f(T)[y] = f(U)[y]
      OBVIOUS
    <3> HIDE DEF f, U
    <3> QED
      BY <2>1, <3>1, ProductEqual
  <2>3. Product(f(T), T) = (p - x) * Product(f(U), U)
    BY <1>1, <1>4, <2>2
  <2> DEFINE A == Product(f(U), U)
             B == Differences(p, U)
  <2>4. A \in Int /\ B \in Int /\ Cong(A, B) /\ Cong(p - x, p - x)
    <3> HIDE DEF f, U
    <3>1. A \in Int /\ B \in Int /\ Cong(B, A)
      BY <1>1, <1>2, <2>1
    <3> QED
      BY <2>1, <3>1, CongLaws
  <2>5. Cong(Differences(p, T), (p - x) * A) /\ Differences(p, T) \in Int
    BY <1>2, <2>3
  <2> HIDE DEF A, B
  <2>6. Cong((p - x) * A, (p - x) * B) /\ (p - x) * A \in Int /\ (p - x) * B \in Int
    BY <2>1, <2>4, CongMul
  <2>7. Cong(Differences(p, T), (p - x) * B)
    BY <2>5, <2>6, CongTrans
  <2> QED
    BY <2>7 DEF B
<1> QED
  BY <1>1, <1>2, <1>3, <1>4

LEMMA UnitCong ==
  ASSUME NEW a \in Int, NEW b \in Int, Cong(a, b), Unit(a)
  PROVE  Unit(b)
<1>1. PICK c \in Int : Cong(a * c, 1)
  BY DEF Unit
<1>2. Cong(b, a) /\ b * c \in Int /\ a * c \in Int
  BY CongLaws
<1>3. Cong(b * c, a * c)
  BY <1>2, CongTimes
<1>4. Cong(b * c, 1)
  BY <1>1, <1>2, <1>3, CongTrans
<1> QED
  BY <1>4 DEF Unit

LEMMA ApartSubset ==
  ASSUME NEW T, NEW S \in SUBSET T, Apart(T)
  PROVE  Apart(S)
BY FS_Subset DEF Apart

LEMMA WeightLaws ==
  ASSUME NEW T, NEW i \in T, Apart(T)
  PROVE  /\ Weight(T, i) \in Int /\ Differences(i, T \ {i}) \in Int
         /\ Cong(Differences(i, T \ {i}) * Weight(T, i), 1)
<1> DEFINE U == T \ {i}
           f == [j \in U |-> i - j]
<1>1. i \in Int /\ IsFiniteSet(U) /\ U \subseteq Int
  BY FS_Subset DEF Apart
<1>2. \A j \in U : f[j] \in Int /\ Unit(f[j])
  BY DEF Apart
<1>3. /\ Differences(i, U) \in Int /\ Product(f, U) \in Int
      /\ Cong(Differences(i, U), Product(f, U))
  BY <1>1, DifferencesLaws
<1>4. Unit(Product(f, U))
  <2> HIDE DEF f, U
  <2> QED
    BY <1>1, <1>2, ProductUnit
<1>5. Unit(Differences(i, U))
  BY <1>3, <1>4, CongLaws, UnitCong
<1> QED
  BY <1>3, <1>5, Inverses, Order DEF Weight, Scalar

\* Without b, the weight of i has one divisor less.
LEMMA WeightShrinks ==
  ASSUME NEW T, NEW b \in T, NEW i \in T \ {b}, Apart(T)
  PROVE  Cong(Weight(T \ {b}, i), Weight(T, i) * (i - b))
<1> DEFINE D == Differences(i, T \ {i})
           E == Differences(i, (T \ {b}) \ {i})
           V == Weight(T, i)
           W == Weight(T \ {b}, i)
           e == i - b
<1>1. i \in Int /\ e \in Int
  BY DEF Apart
<1>2. V \in Int /\ D \in Int /\ Cong(D * V, 1)
  BY WeightLaws
<1>3. W \in Int /\ E \in Int /\ Cong(E * W, 1)
  <2>1. Apart(T \ {b}) /\ i \in T \ {b}
    BY ApartSubset
  <2> QED
    BY <2>1, WeightLaws
<1>4. Cong(D, e * E)
  <2>1. IsFiniteSet(T \ {i}) /\ T \ {i} \subseteq Int /\ b \in T \ {i}
    BY FS_Subset DEF Apart
  <2>2. (T \ {i}) \ {b} = (T \ {b}) \ {i}
    OBVIOUS
  <2>3. Cong(D, e * Differences(i, (T \ {i}) \ {b}))
    BY <1>1, <2>1, DifferencesLaws
  <2> QED
    BY <2>2, <2>3
<1> HIDE DEF D, E, V, W, e
<1>5. Cong(W, W * (D * V))
  <2>1. Cong(W * (D * V), W * 1) /\ W * 1 = W
    BY <1>2, <1>3, CongMul, CongLaws
  <2> QED
    BY <1>2, <1>3, <2>1, CongLaws
<1>6. Cong(W * (D * V), (E * W) * (V * e))
  <2>1. Cong(D * (V * W), (e * E) * (V * W))
    <3>1. e * E \in Int /\ V * W \in Int
      BY <1>1, <1>2, <1>3
    <3> QED
      BY <1>2, <1>4, <3>1, CongTimes
  <2>2. D * (V * W) = W * (D * V) /\ (e * E) * (V * W) = (E * W) * (V * e)
    BY <1>1, <1>2, <1>3
  <2> QED
    BY <2>1, <2>2
<1>7. Cong((E * W) * (V * e), V * e)
  <2>1. Cong((E * W) * (V * e), 1 * (V * e)) /\ 1 * (V * e) = V * e
    BY <1>1, <1>2, <1>3, CongMul, CongLaws
  <2> QED
    BY <2>1
<1>8. W * (D * V) \in Int /\ (E * W) * (V * e) \in Int /\ V * e \in Int
  BY <1>1, <1>2, <1>3
<1>9. Cong(W, (E * W) * (V * e))
  BY <1>3, <1>5, <1>6, <1>8, CongTrans
<1>10. Cong(W, V * e)
  BY <1>3, <1>7, <1>8, <1>9, CongTrans
<1> QED
  BY <1>10 DEF W, V, e

LEMMA DividedType ==
  ASSUME NEW T, NEW f, Apart(T), \A i \in T : f[i] \in Int
  PROVE  Divided(f, T) \in Int
<1> DEFINE g == [i \in T |-> f[i] * Weight(T, i)]
<1>1. \A i \in T : Weight(T, i) \in Int
  BY WeightLaws
<1>2. \A i \in T : g[i] \in Int
  BY <1>1
<1>3. IsFiniteSet(T)
  BY DEF Apart
<1> HIDE DEF g
<1>4. Sum(g, T) \in Int
  BY <1>2, <1>3, SumLaws
<1> QED
  BY <1>4 DEF Divided, g

LEMMA DividedCombines ==
  ASSUME NEW T, NEW f, NEW g, NEW h, NEW c \in Int, NEW d \in Int, Apart(T),
         \A i \in T : /\ f[i] \in Int /\ g[i] \in Int /\ h[i] \in Int
                      /\ Cong(h[i], c * f[i] + d * g[i])
  PROVE  Cong(Divided(h, T), c * Divided(f, T) + d * Divided(g, T))
<1> DEFINE F == [i \in T |-> f[i] * Weight(T, i)]
           G == [i \in T |-> g[i] * Weight(T, i)]
           H == [i \in T |-> h[i] * Weight(T, i)]
<1>1. ASSUME NEW i \in T
      PROVE  /\ F[i] \in Int /\ G[i] \in Int /\ H[i] \in Int
             /\ Cong(H[i], c * F[i] + d * G[i])
  <2> DEFINE w == Weight(T, i)
             m == f[i]
             n == g[i]
             p == h[i]
  <2>1. w \in Int /\ m \in Int /\ n \in Int /\ p \in Int /\ Cong(p, c * m + d * n)
    BY WeightLaws
  <2>2. F[i] = m * w /\ G[i] = n * w /\ H[i] = p * w
    OBVIOUS
  <2> HIDE DEF w, m, n, p, F, G, H
  <2>3. c * m + d * n \in Int
    BY <2>1
  <2>4. Cong(p * w, (c * m + d * n) * w)
    BY <2>1, <2>3, CongTimes
  <2>5. (c * m + d * n) * w = c * (m * w) + d * (n * w)
    BY <2>1
  <2>6. m * w \in Int /\ n * w \in Int /\ p * w \in Int
    BY <2>1
  <2> QED
    BY <2>2, <2>4, <2>5, <2>6
<1>2. IsFiniteSet(T)
  BY DEF Apart
<1> HIDE DEF F, G, H
<1>3. Cong(Sum(H, T), c * Sum(F, T) + d * Sum(G, T))
  BY <1>1, <1>2, SumCombines
<1> QED
  BY <1>3 DEF Divided, F, G, H

\* A function that is zero at b, divided by the difference to it.
LEMMA DividedShrinks ==
  ASSUME NEW T, NEW b \in T, NEW f, NEW g, Apart(T),
         \A i \in T : f[i] \in Int /\ g[i] = (i - b) * f[i]
  PROVE  Cong(Divided(g, T), Divided(f, T \ {b}))
<1> DEFINE S == T \ {b}
           G == [i \in T |-> g[i] * Weight(T, i)]
           F == [i \in S |-> f[i] * Weight(S, i)]
<1>1. Apart(S) /\ IsFiniteSet(T) /\ IsFiniteSet(S) /\ T \subseteq Int
  BY ApartSubset DEF Apart
<1>2. ASSUME NEW i \in S
      PROVE  F[i] \in Int /\ G[i] \in Int /\ Cong(G[i], 1 * F[i] + 0 * F[i])
  <2> DEFINE v == Weight(T, i)
             w == Weight(S, i)
             m == f[i]
             e == i - b
  <2>1. v \in Int /\ w \in Int /\ m \in Int /\ e \in Int /\ i \in T
    <3>1. i \in T /\ v \in Int
      BY WeightLaws
    <3>2. w \in Int
      <4> HIDE DEF S
      <4> QED
        BY <1>1, WeightLaws
    <3> QED
      BY <1>1, <3>1, <3>2
  <2>2. Cong(w, v * e)
    BY WeightShrinks
  <2>3. F[i] = m * w /\ G[i] = (e * m) * v
    BY <2>1
  <2> HIDE DEF v, w, m, e, F, G
  <2>4. v * e \in Int /\ m * w \in Int
    BY <2>1
  <2>5. Cong(m * (v * e), m * w)
    BY <2>1, <2>2, <2>4, CongLaws, CongTimes
  <2>6. m * (v * e) = (e * m) * v
    BY <2>1
  <2>7. m * w = 1 * (m * w) + 0 * (m * w)
    BY <2>4
  <2>8. (e * m) * v \in Int
    BY <2>1
  <2> QED
    BY <2>3, <2>4, <2>5, <2>6, <2>7, <2>8
<1>3. G[b] = 0
  <2>1. Weight(T, b) \in Int /\ f[b] \in Int /\ b \in Int
    BY <1>1, WeightLaws
  <2>2. G[b] = ((b - b) * f[b]) * Weight(T, b)
    OBVIOUS
  <2> HIDE DEF G
  <2>3. (b - b) * f[b] = 0
    BY <2>1
  <2>4. 0 * Weight(T, b) = 0
    BY <2>1
  <2> QED
    BY <2>2, <2>3, <2>4
<1>4. \A i \in T : G[i] \in Int
  <2>1. \A i \in T : i \in S \/ i = b
    OBVIOUS
  <2> HIDE DEF G, S
  <2> QED
    BY <1>2, <1>3, <2>1
<1> HIDE DEF F, G
<1>5. Sum(G, T) = G[b] + Sum(G, S)
  <2>1. \A x \in T : Sum(G, T) = G[x] + Sum(G, T \ {x})
    BY <1>1, <1>4, SumLaws
  <2> QED
    BY <2>1
<1>6. Sum(G, S) \in Int /\ Sum(F, S) \in Int
  <2> HIDE DEF S
  <2> QED
    BY <1>1, <1>2, SumLaws
<1>7. Cong(Sum(G, S), 1 * Sum(F, S) + 0 * Sum(F, S))
  <2> HIDE DEF S
  <2> QED
    BY <1>1, <1>2, SumCombines
<1>8. 1 * Sum(F, S) + 0 * Sum(F, S) = Sum(F, S) /\ Sum(G, T) = Sum(G, S)
  BY <1>3, <1>5, <1>6
<1> QED
  BY <1>7, <1>8 DEF Divided, F, G

One == [i \in Int |-> 1]

LEMMA DividedSingle ==
  ASSUME NEW T, NEW a, Apart(T), T = {a}
  PROVE  Cong(Divided(One, T), 1) /\ Divided(One, T) \in Int
<1> DEFINE w == Weight(T, a)
           g == [i \in T |-> One[i] * Weight(T, i)]
<1>1. a \in T /\ a \in Int /\ T \ {a} = {} /\ IsFiniteSet(T)
  BY DEF Apart
<1>2. w \in Int /\ Cong(Differences(a, {}) * w, 1)
  BY <1>1, WeightLaws
<1>3. Differences(a, {}) = 1
  BY <1>1, FS_EmptySet, DifferencesLaws
<1>4. Cong(w, 1)
  <2> HIDE DEF w
  <2>1. 1 * w = w
    BY <1>2
  <2> QED
    BY <1>2, <1>3, <2>1
<1>5. g[a] = w
  <2>1. g[a] = 1 * w
    BY <1>1 DEF One
  <2> HIDE DEF g, w
  <2> QED
    BY <1>2, <2>1
<1> HIDE DEF g, w
<1>6. \A x \in T : g[x] \in Int
  BY <1>1, <1>2, <1>5
<1>7. Sum(g, T) = g[a] + Sum(g, T \ {a})
  <2>1. \A x \in T : Sum(g, T) = g[x] + Sum(g, T \ {x})
    BY <1>1, <1>6, SumLaws
  <2> QED
    BY <1>1, <2>1
<1>8. Sum(g, {}) = 0
  BY <1>1, <1>6, SumLaws
<1>9. Sum(g, T) = w
  <2>1. Sum(g, T \ {a}) = 0
    BY <1>1, <1>8
  <2>2. Sum(g, T) = g[a] + 0
    BY <1>7, <2>1
  <2> QED
    BY <1>2, <1>5, <2>2
<1> QED
  BY <1>2, <1>4, <1>9 DEF Divided, g

\* The divided difference of a constant over two points or more is zero: times the
\* difference of two of them, it is that without the one less that without the other.
LEMMA DividedOneStep ==
  ASSUME NEW T, NEW a \in T, NEW b \in T, a # b, Apart(T),
         Cong(Divided(One, T \ {a}), Divided(One, T \ {b}))
  PROVE  Cong(Divided(One, T), 0)
<1> DEFINE f == [i \in T |-> i - a]
           g == [i \in T |-> i - b]
           x == Divided(One, T)
           y == Divided(f, T)
           z == Divided(g, T)
           u == Divided(One, T \ {a})
           v == Divided(One, T \ {b})
           c == a - b
<1>1. \A i \in T : i \in Int /\ One[i] = 1 /\ One[i] \in Int
  BY DEF Apart, One
<1>2. c \in Int /\ Unit(c) /\ a \in Int /\ b \in Int
  BY DEF Apart
<1>3. ASSUME NEW i \in T
      PROVE  /\ f[i] \in Int /\ g[i] \in Int
             /\ f[i] = (i - a) * One[i] /\ g[i] = (i - b) * One[i]
             /\ g[i] = c * One[i] + 1 * f[i]
  BY <1>1, <1>2
<1>4. Apart(T \ {a}) /\ Apart(T \ {b})
  BY ApartSubset
<1>5. x \in Int /\ y \in Int /\ z \in Int
  <2> HIDE DEF f, g
  <2> QED
    BY <1>1, <1>3, DividedType
<1>6. u \in Int /\ v \in Int
  BY <1>1, <1>4, DividedType
<1>7. Cong(y, u)
  <2> HIDE DEF f
  <2> QED
    BY <1>1, <1>3, DividedShrinks
<1>8. Cong(z, v)
  <2> HIDE DEF g
  <2> QED
    BY <1>1, <1>3, DividedShrinks
<1>9. Cong(z, c * x + 1 * y)
  <2>1. ASSUME NEW i \in T PROVE Cong(g[i], c * One[i] + 1 * f[i])
    BY <1>3, CongLaws
  <2> HIDE DEF f, g, c
  <2> QED
    BY <1>1, <1>2, <1>3, <2>1, DividedCombines
<1> HIDE DEF u, v, x, y, z, c
<1>10. Cong(c * x, z - y)
  <2>1. PICK k \in Int : z = (c * x + 1 * y) + k * Q
    BY <1>9 DEF Cong
  <2>2. c * x \in Int /\ k * Q \in Int
    BY <1>2, <1>5, Order
  <2>3. c * x = (z - y) + (-k) * Q
    <3> DEFINE p == c * x
               q == k * Q
    <3>1. (-k) * Q = -q
      BY Order
    <3>2. p \in Int /\ q \in Int /\ z = (p + 1 * y) + q
      BY <2>1, <2>2
    <3> HIDE DEF p, q
    <3>3. p = (z - y) + (-q)
      BY <1>5, <3>2
    <3> QED
      BY <3>1, <3>3 DEF p
  <2> QED
    BY <2>3 DEF Cong
<1>11. Cong(z - y, 0)
  <2>1. Cong(u, v)
    BY DEF u, v
  <2>2. Cong(y, v)
    BY <1>5, <1>6, <1>7, <2>1, CongTrans
  <2>3. Cong(v, y)
    BY <1>5, <1>6, <2>2, CongLaws
  <2>4. Cong(z, y)
    BY <1>5, <1>6, <1>8, <2>3, CongTrans
  <2>5. PICK k \in Int : z = y + k * Q
    BY <2>4 DEF Cong
  <2>6. z - y = 0 + k * Q
    BY <1>5, <2>5, Order
  <2> QED
    BY <2>6 DEF Cong
<1>12. Cong(c * x, 0)
  <2>1. c * x \in Int /\ z - y \in Int
    BY <1>2, <1>5
  <2> QED
    BY <1>10, <1>11, <2>1, CongTrans
<1>13. PICK d \in Int : Cong(c * d, 1)
  BY <1>2 DEF Unit
<1>14. Cong((c * d) * x, 0)
  <2>1. (c * d) * x = (c * x) * d /\ 0 * d = 0 /\ c * x \in Int
    BY <1>2, <1>5
  <2> QED
    <3> DEFINE m == c * x
               n == 0
    <3>1. m \in Int /\ n \in Int /\ Cong(m, n) /\ (c * d) * x = m * d
      BY <1>12, <2>1
    <3> HIDE DEF m, n
    <3>2. Cong(m * d, n * d)
      BY <3>1, CongTimes
    <3> QED
      BY <2>1, <3>1, <3>2 DEF n
<1>15. Cong(x, (c * d) * x)
  <2>1. c * d \in Int /\ 1 * x = x /\ (c * d) * x \in Int
    BY <1>2, <1>5
  <2>2. Cong((c * d) * x, 1 * x)
    <3> DEFINE m == c * d
               n == 1
    <3>1. m \in Int /\ n \in Int /\ Cong(m, n)
      BY <1>13, <2>1
    <3> HIDE DEF m, n
    <3>2. Cong(m * x, n * x)
      BY <1>5, <3>1, CongTimes
    <3> QED
      BY <3>2 DEF m, n
  <2> QED
    BY <1>5, <2>1, <2>2, CongLaws
<1>16. Cong(x, 0)
  <2>1. (c * d) * x \in Int
    BY <1>2, <1>5
  <2> QED
    BY <1>5, <1>14, <1>15, <2>1, CongTrans
<1> QED
  BY <1>16 DEF x

LEMMA DividedConstant ==
  ASSUME NEW T, Apart(T), Cardinality(T) >= 2
  PROVE  Cong(Divided(One, T), 0)
<1> DEFINE R == {n \in Nat : \A S \in SUBSET Int :
                               Apart(S) /\ Cardinality(S) = n + 2 => Cong(Divided(One, S), 0)}
<1>1. ASSUME NEW S, NEW n \in Nat, Apart(S), Cardinality(S) = n + 2
      PROVE  \E a, b \in S :
               /\ a # b /\ Apart(S \ {a}) /\ Apart(S \ {b})
               /\ Cardinality(S \ {a}) = n + 1 /\ Cardinality(S \ {b}) = n + 1
               /\ n = 0 => S \ {a} = {b} /\ S \ {b} = {a}
  <2>1. IsFiniteSet(S) /\ Cardinality(S) \in Nat /\ Cardinality(S) # 0
    BY <1>1, FS_CardinalityType DEF Apart
  <2>2. PICK a \in S : TRUE
    <3>1. S # {}
      BY <2>1, FS_EmptySet
    <3> QED
      BY <3>1
  <2>3. IsFiniteSet(S \ {a}) /\ Cardinality(S \ {a}) = n + 1
    <3>1. Cardinality(S \ {a}) = Cardinality(S) - 1
      BY <2>1, <2>2, FS_RemoveElement
    <3> QED
      BY <1>1, <2>1, <3>1, FS_RemoveElement
  <2>4. PICK b \in S \ {a} : TRUE
    <3>1. S \ {a} # {}
      BY <2>3, FS_EmptySet
    <3> QED
      BY <3>1
  <2>5. Cardinality(S \ {b}) = n + 1 /\ IsFiniteSet(S \ {b})
    <3>1. Cardinality(S \ {b}) = Cardinality(S) - 1
      BY <2>1, <2>4, FS_RemoveElement
    <3> QED
      BY <1>1, <2>1, <3>1, FS_RemoveElement
  <2>6. ASSUME n = 0 PROVE S \ {a} = {b} /\ S \ {b} = {a}
    <3>1. Cardinality(S \ {a}) = 1 /\ Cardinality(S \ {b}) = 1
      BY <2>3, <2>5, <2>6
    <3>2. (\E x : S \ {a} = {x}) /\ (\E x : S \ {b} = {x})
      BY <2>3, <2>5, <3>1, FS_Singleton
    <3> QED
      BY <2>2, <2>4, <3>2
  <2>7. Apart(S \ {a}) /\ Apart(S \ {b})
    BY <1>1, ApartSubset
  <2> QED
    BY <2>2, <2>3, <2>4, <2>5, <2>6, <2>7
<1>2. 0 \in R
  <2> SUFFICES ASSUME NEW S \in SUBSET Int, Apart(S), Cardinality(S) = 0 + 2
               PROVE  Cong(Divided(One, S), 0)
    OBVIOUS
  <2>1. PICK a \in S, b \in S : /\ a # b /\ Apart(S \ {a}) /\ Apart(S \ {b})
                                /\ S \ {a} = {b} /\ S \ {b} = {a}
    BY <1>1
  <2> DEFINE u == Divided(One, S \ {a})
             v == Divided(One, S \ {b})
  <2>2. Cong(u, 1) /\ u \in Int /\ Cong(v, 1) /\ v \in Int
    BY <2>1, DividedSingle
  <2> HIDE DEF u, v
  <2>3. Cong(1, v)
    BY <2>2, CongLaws
  <2>4. Cong(u, v)
    BY <2>2, <2>3, CongTrans
  <2> USE DEF u, v
  <2> QED
    BY <2>1, <2>4, DividedOneStep
<1>3. ASSUME NEW n \in Nat, n \in R PROVE n + 1 \in R
  <2> SUFFICES ASSUME NEW S \in SUBSET Int, Apart(S), Cardinality(S) = (n + 1) + 2
               PROVE  Cong(Divided(One, S), 0)
    OBVIOUS
  <2>1. PICK a \in S, b \in S : /\ a # b /\ Apart(S \ {a}) /\ Apart(S \ {b})
                                /\ Cardinality(S \ {a}) = (n + 1) + 1
                                /\ Cardinality(S \ {b}) = (n + 1) + 1
    <3> DEFINE m == n + 1
    <3>1. m \in Nat /\ Cardinality(S) = m + 2 /\ Apart(S)
      OBVIOUS
    <3> HIDE DEF R, m
    <3>2. \E a, b \in S : /\ a # b /\ Apart(S \ {a}) /\ Apart(S \ {b})
                          /\ Cardinality(S \ {a}) = m + 1 /\ Cardinality(S \ {b}) = m + 1
                          /\ m = 0 => S \ {a} = {b} /\ S \ {b} = {a}
      BY <1>1, <3>1
    <3> QED
      BY <3>2 DEF m
  <2>2. (n + 1) + 1 = n + 2 /\ S \ {a} \in SUBSET Int /\ S \ {b} \in SUBSET Int
    OBVIOUS
  <2> DEFINE u == Divided(One, S \ {a})
             v == Divided(One, S \ {b})
  <2>3. Cong(u, 0) /\ Cong(v, 0)
    BY <1>3, <2>1, <2>2
  <2>4. u \in Int /\ v \in Int
    <3>1. \A i \in S : One[i] \in Int
      BY DEF One
    <3> QED
      BY <2>1, <3>1, DividedType
  <2> HIDE DEF u, v
  <2>5. Cong(0, v)
    BY <2>3, <2>4, CongLaws
  <2>6. Cong(u, v)
    BY <2>3, <2>4, <2>5, CongTrans
  <2> USE DEF u, v
  <2> HIDE DEF R
  <2> QED
    BY <2>1, <2>6, DividedOneStep
<1>4. Nat \subseteq R
  <2> HIDE DEF R
  <2> QED
    BY <1>2, <1>3, NumberInduction
<1>5. Cardinality(T) - 2 \in Nat /\ (Cardinality(T) - 2) + 2 = Cardinality(T) /\ T \in SUBSET Int
  <2>1. Cardinality(T) \in Nat
    BY FS_CardinalityType DEF Apart
  <2> QED
    BY <2>1 DEF Apart
<1>6. Cardinality(T) - 2 \in R
  <2> HIDE DEF R
  <2> QED
    BY <1>4, <1>5
<1> QED
  BY <1>5, <1>6

LEMMA CongZero ==
  ASSUME NEW a \in Int, NEW b \in Int, NEW c \in Int, NEW d \in Int, NEW e \in Int,
         Cong(a, b * c + d * e), Cong(c, 0), Cong(e, 0)
  PROVE  Cong(a, 0)
<1>1. PICK k \in Int : a = (b * c + d * e) + k * Q
  BY DEF Cong
<1>2. PICK l \in Int : c = 0 + l * Q
  BY DEF Cong
<1>3. PICK m \in Int : e = 0 + m * Q
  BY DEF Cong
<1>4. b * c = (b * l) * Q /\ d * e = (d * m) * Q
  BY <1>2, <1>3, Order
<1>5. a = 0 + (b * l + d * m + k) * Q /\ b * l + d * m + k \in Int
  BY <1>1, <1>4, Order
<1> QED
  BY <1>5 DEF Cong

\* Times the point: what vanishes on T and without a point of T still vanishes on T.
LEMMA DividedTimes ==
  ASSUME NEW T, NEW b \in T, NEW f, NEW g, Apart(T),
         \A i \in T : f[i] \in Int /\ g[i] \in Int /\ Cong(g[i], i * f[i]),
         Cong(Divided(f, T), 0), Cong(Divided(f, T \ {b}), 0)
  PROVE  Cong(Divided(g, T), 0)
<1> DEFINE s == [i \in T |-> (i - b) * f[i]]
           x == Divided(f, T)
           y == Divided(s, T)
           z == Divided(g, T)
           u == Divided(f, T \ {b})
           one == 1
<1>1. \A i \in T : i \in Int /\ f[i] \in Int /\ g[i] \in Int
  BY DEF Apart
<1>2. ASSUME NEW i \in T
      PROVE  /\ s[i] \in Int /\ s[i] = (i - b) * f[i]
             /\ Cong(g[i], one * s[i] + b * f[i])
  <2>1. i \in Int /\ b \in Int /\ f[i] \in Int
    BY <1>1
  <2>2. (i - b) * f[i] \in Int /\ 1 * ((i - b) * f[i]) + b * f[i] = i * f[i]
    BY <2>1
  <2> QED
    BY <2>2
<1>3. b \in Int /\ one \in Int
  BY DEF Apart
<1>4. Apart(T \ {b})
  BY ApartSubset
<1> HIDE DEF s, one
<1>5. Cong(z, one * y + b * x)
  BY <1>1, <1>2, <1>3, DividedCombines
<1>6. x \in Int /\ y \in Int /\ z \in Int /\ u \in Int
  BY <1>1, <1>2, <1>4, DividedType
<1>7. Cong(y, u)
  BY <1>1, <1>2, DividedShrinks
<1>8. Cong(x, 0) /\ Cong(u, 0)
  OBVIOUS
<1> HIDE DEF x, y, z, u
<1>9. Cong(y, 0)
  BY <1>6, <1>7, <1>8, CongTrans
<1>10. Cong(z, 0)
  BY <1>3, <1>5, <1>6, <1>8, <1>9, CongZero
<1> QED
  BY <1>10 DEF z

(***************************************************************************)
(* The dealer's polynomial                                                 *)
(***************************************************************************)

LEMMA ExpLaws ==
  ASSUME NEW i \in Int, NEW k \in Nat
  PROVE  Exp(i, k) \in Int /\ Exp(i, 0) = 1 /\ Cong(Exp(i, k + 1), i * Exp(i, k))
<1> DEFINE f(n) == [l \in 1 .. n |-> i]
           P(n) == Product(f(n), 1 .. n)
           m == k + 1
<1>1. ASSUME NEW n \in Nat
      PROVE  P(n) \in Int /\ Cong(Exp(i, n), P(n)) /\ Exp(i, n) \in Int
  <2> DEFINE g == f(n)
  <2>1. IsFiniteSet(1 .. n) /\ \A x \in 1 .. n : g[x] \in Int
    BY FS_Interval
  <2> HIDE DEF g
  <2>2. Product(g, 1 .. n) \in Int
    BY <2>1, ProductLaws
  <2>3. Product(g, 1 .. n) % Q \in Int /\ Cong(Product(g, 1 .. n) % Q, Product(g, 1 .. n))
    BY <2>2, CongMod
  <2> QED
    BY <2>2, <2>3 DEF Exp, g
<1>2. Exp(i, 0) = 1
  <2> DEFINE g == f(0)
             E == 1 .. 0
  <2>1. E = {}
    OBVIOUS
  <2> HIDE DEF g
  <2>2. Product(g, {}) = 1
    BY FS_EmptySet, ProductLaws
  <2>3. Product(g, E) = 1
    BY <2>1, <2>2
  <2>4. 1 % Q = 1
    BY Order
  <2> QED
    BY <2>3, <2>4 DEF Exp, g
<1>3. P(m) = i * P(k)
  <2> DEFINE g == f(m)
             h == f(k)
  <2>0. IsFiniteSet(1 .. m) /\ IsFiniteSet(1 .. k)
    BY FS_Interval
  <2>1. m \in 1 .. m /\ (1 .. m) \ {m} = 1 .. k
    OBVIOUS
  <2>2. g[m] = i /\ (\A x \in 1 .. m : g[x] \in Int)
    BY <2>1
  <2>3. \A x \in 1 .. k : g[x] \in Int /\ g[x] = h[x]
    OBVIOUS
  <2> HIDE DEF g, h, m
  <2>4. Product(g, 1 .. m) = g[m] * Product(g, (1 .. m) \ {m})
    <3>1. \A x \in 1 .. m : Product(g, 1 .. m) = g[x] * Product(g, (1 .. m) \ {x})
      BY <2>0, <2>2, ProductLaws
    <3> QED
      BY <2>1, <3>1
  <2>5. Product(g, 1 .. k) = Product(h, 1 .. k)
    BY <2>0, <2>3, ProductEqual
  <2> QED
    BY <2>1, <2>2, <2>4, <2>5 DEF g, h
<1>4. Cong(Exp(i, m), i * Exp(i, k))
  <2> DEFINE a == P(k)
             b == P(m)
             c == Exp(i, k)
             d == Exp(i, m)
  <2>1. m \in Nat
    OBVIOUS
  <2> HIDE DEF P, m
  <2>2. a \in Int /\ b \in Int /\ c \in Int /\ d \in Int /\ Cong(c, a) /\ Cong(d, b) /\ b = i * a
    BY <1>1, <1>3, <2>1
  <2> HIDE DEF a, b, c, d
  <2>3. Cong(a, c)
    BY <2>2, CongLaws
  <2>4. Cong(i * a, i * c) /\ i * c \in Int
    BY <2>2, <2>3, CongTimes
  <2>5. Cong(d, i * c)
    BY <2>2, <2>4, CongTrans
  <2> QED
    BY <2>5 DEF c, d
<1> HIDE DEF P
<1> QED
  BY <1>1, <1>2, <1>4

Power(k) == [i \in Int |-> Exp(i, k)]

\* Divided differences of order greater than the exponent are zero.
LEMMA DividedPower ==
  ASSUME NEW k \in Nat, NEW T, Apart(T), Cardinality(T) >= k + 2
  PROVE  Cong(Divided(Power(k), T), 0)
<1> DEFINE R == {n \in Nat : \A S \in SUBSET Int :
                 Apart(S) /\ Cardinality(S) >= n + 2 => Cong(Divided(Power(n), S), 0)}
<1>1. Power(0) = One
  BY ExpLaws DEF Power, One
<1>2. 0 \in R
  <2>1. ASSUME NEW S \in SUBSET Int, Apart(S), Cardinality(S) >= 0 + 2
        PROVE  Cong(Divided(Power(0), S), 0)
    BY <1>1, <2>1, DividedConstant
  <2> QED
    BY <2>1
<1>3. ASSUME NEW n \in Nat, n \in R PROVE n + 1 \in R
  <2> DEFINE m == n + 1
             f == Power(n)
             g == Power(m)
  <2>1. ASSUME NEW S \in SUBSET Int, Apart(S), Cardinality(S) >= m + 2
        PROVE  Cong(Divided(g, S), 0)
    <3>1. IsFiniteSet(S) /\ Cardinality(S) \in Nat
      BY <2>1, FS_CardinalityType DEF Apart
    <3>2. PICK b \in S : TRUE
      <4>1. S # {}
        BY <2>1, <3>1, FS_EmptySet
      <4> QED
        BY <4>1
    <3>3. Apart(S \ {b}) /\ S \ {b} \in SUBSET Int
      BY <2>1, ApartSubset
    <3>4. Cardinality(S \ {b}) = Cardinality(S) - 1
      BY <3>1, <3>2, FS_RemoveElement
    <3>5. Cardinality(S \ {b}) >= n + 2 /\ Cardinality(S) >= n + 2
      BY <2>1, <3>1, <3>4
    <3>6. Cong(Divided(f, S), 0) /\ Cong(Divided(f, S \ {b}), 0)
      BY <1>3, <2>1, <3>3, <3>5
    <3>7. ASSUME NEW i \in S
          PROVE  f[i] \in Int /\ g[i] \in Int /\ Cong(g[i], i * f[i])
      <4>1. i \in Int /\ m \in Nat
        OBVIOUS
      <4>2. f[i] = Exp(i, n) /\ g[i] = Exp(i, m)
        BY <4>1 DEF Power
      <4>3. Exp(i, n) \in Int /\ Exp(i, m) \in Int /\ Cong(Exp(i, n + 1), i * Exp(i, n))
        <5> HIDE DEF m
        <5> QED
          BY <4>1, ExpLaws
      <4> HIDE DEF f, g
      <4> QED
        BY <4>2, <4>3
    <3> HIDE DEF f, g
    <3> QED
      BY <2>1, <3>6, <3>7, DividedTimes
  <2>2. m \in Nat
    OBVIOUS
  <2> QED
    BY <2>1, <2>2
<1>4. Nat \subseteq R
  <2> HIDE DEF R
  <2> QED
    BY <1>2, <1>3, NumberInduction
<1>5. T \in SUBSET Int
  BY DEF Apart
<1> QED
  BY <1>4, <1>5

(***************************************************************************)
(* Interpolation                                                           *)
(***************************************************************************)

LEMMA LagrangeLaws ==
  ASSUME NEW S, NEW i \in S, NEW p \in Int, Apart(S)
  PROVE  /\ Lagrange(S, i, p) \in Int /\ Differences(p, S \ {i}) \in Int
         /\ Cong(Lagrange(S, i, p), Differences(p, S \ {i}) * Weight(S, i))
<1> DEFINE N == Differences(p, S \ {i})
           w == Weight(S, i)
<1>1. w \in Int
  BY WeightLaws
<1>2. N \in Int
  <2>1. IsFiniteSet(S \ {i}) /\ S \ {i} \subseteq Int
    BY FS_Subset DEF Apart
  <2> QED
    BY <2>1, DifferencesLaws
<1>3. Lagrange(S, i, p) = (N * w) % Q
  BY DEF Lagrange, Weight
<1> HIDE DEF N, w
<1>4. N * w \in Int
  BY <1>1, <1>2
<1>5. (N * w) % Q \in Int /\ Cong((N * w) % Q, N * w)
  BY <1>4, CongMod
<1> QED
  BY <1>2, <1>3, <1>5 DEF N, w

Interpolated(f, S, p) == Sum([i \in S |-> f[i] * Lagrange(S, i, p)], S)

\* At a point of the set, one coefficient is one and the others are zero.
LEMMA InterpolationInside ==
  ASSUME NEW S, NEW x \in S, NEW f, Apart(S), \A i \in S : f[i] \in Int
  PROVE  Cong(Interpolated(f, S, x), f[x]) /\ Interpolated(f, S, x) \in Int
<1> DEFINE h == [i \in S |-> f[i] * Lagrange(S, i, x)]
           R == S \ {x}
           zero == 0
<1>1. IsFiniteSet(S) /\ IsFiniteSet(R) /\ x \in Int /\ S \subseteq Int
  BY FS_Subset DEF Apart
<1>2. ASSUME NEW i \in S
      PROVE  /\ h[i] \in Int
             /\ \A b \in Int : Cong(Lagrange(S, i, x), b) => Cong(h[i], f[i] * b)
  <2> DEFINE l == Lagrange(S, i, x)
             m == f[i]
  <2>1. l \in Int /\ m \in Int /\ h[i] = m * l
    BY <1>1, LagrangeLaws
  <2> HIDE DEF l, m, h
  <2>2. ASSUME NEW b \in Int, Cong(l, b) PROVE Cong(m * l, m * b)
    BY <2>1, <2>2, CongTimes
  <2> QED
    BY <2>1, <2>2 DEF l, m
<1>3. Cong(h[x], f[x])
  <2> DEFINE l == Lagrange(S, x, x)
             D == Differences(x, S \ {x}) * Weight(S, x)
             one == 1
  <2>1. D \in Int /\ Cong(D, one)
    BY WeightLaws
  <2>2. l \in Int /\ Cong(l, D)
    BY <1>1, LagrangeLaws
  <2>3. one \in Int
    OBVIOUS
  <2> HIDE DEF l, D, one
  <2>4. Cong(l, one)
    BY <2>1, <2>2, <2>3, CongTrans
  <2>5. Cong(h[x], f[x] * one)
    <3> HIDE DEF h
    <3> QED
      BY <1>2, <2>3, <2>4 DEF l
  <2>6. f[x] * one = f[x]
    BY DEF one
  <2> QED
    BY <2>5, <2>6
<1>4. ASSUME NEW i \in R PROVE Cong(h[i], 0)
  <2> DEFINE l == Lagrange(S, i, x)
             N == Differences(x, S \ {i})
             E == Differences(x, (S \ {i}) \ {x})
             w == Weight(S, i)
  <2>1. l \in Int /\ N \in Int /\ Cong(l, N * w) /\ w \in Int
    BY <1>1, LagrangeLaws, WeightLaws
  <2>2. Cong(N, (x - x) * E) /\ E \in Int
    <3>1. /\ IsFiniteSet(S \ {i}) /\ S \ {i} \subseteq Int /\ x \in S \ {i}
          /\ IsFiniteSet((S \ {i}) \ {x}) /\ (S \ {i}) \ {x} \subseteq Int
      BY <1>1, FS_Subset
    <3> QED
      BY <1>1, <3>1, DifferencesLaws
  <2>3. zero \in Int
    OBVIOUS
  <2> HIDE DEF l, N, E, w
  <2>4. Cong(N, zero)
    <3>1. (x - x) * E = zero
      BY <1>1, <2>2
    <3> QED
      BY <2>2, <3>1
  <2> HIDE DEF zero
  <2>5. Cong(N * w, zero * w)
    BY <2>1, <2>3, <2>4, CongTimes
  <2>6. zero * w = zero /\ N * w \in Int
    BY <2>1 DEF zero
  <2>7. Cong(l, zero)
    BY <2>1, <2>3, <2>5, <2>6, CongTrans
  <2>8. Cong(h[i], f[i] * zero)
    <3> HIDE DEF h
    <3> QED
      BY <1>2, <2>3, <2>7 DEF l
  <2>9. f[i] * zero = 0
    BY DEF zero
  <2> QED
    BY <2>8, <2>9
<1> HIDE DEF h
<1>5. Sum(h, S) = h[x] + Sum(h, R) /\ Sum(h, S) \in Int /\ Sum(h, R) \in Int
  <2>1. \A y \in S : Sum(h, S) = h[y] + Sum(h, S \ {y})
    BY <1>1, <1>2, SumLaws
  <2>2. Sum(h, S) \in Int
    BY <1>1, <1>2, SumLaws
  <2>3. \A y \in R : h[y] \in Int
    BY <1>2
  <2>4. Sum(h, R) \in Int
    <3> HIDE DEF R
    <3> QED
      BY <1>1, <2>3, SumLaws
  <2> QED
    BY <2>1, <2>2, <2>4
<1>6. Cong(Sum(h, R), zero * Sum(h, R) + zero * Sum(h, R))
  <2>1. ASSUME NEW i \in R
        PROVE  h[i] \in Int /\ Cong(h[i], zero * h[i] + zero * h[i])
    <3>1. h[i] \in Int /\ Cong(h[i], 0)
      BY <1>2, <1>4
    <3>2. zero * h[i] + zero * h[i] = 0
      BY <3>1
    <3> QED
      BY <3>1, <3>2
  <2>2. zero \in Int
    OBVIOUS
  <2> HIDE DEF R, zero
  <2> QED
    BY <1>1, <2>1, <2>2, SumCombines
<1>7. Cong(Sum(h, R), 0)
  <2>1. zero * Sum(h, R) + zero * Sum(h, R) = 0
    BY <1>5
  <2> QED
    BY <1>6, <2>1
<1>8. Cong(h[x] + Sum(h, R), f[x] + 0)
  <2>1. h[x] \in Int /\ f[x] \in Int /\ 0 \in Int
    BY <1>2
  <2> HIDE DEF R
  <2> QED
    BY <1>3, <1>5, <1>7, <2>1, CongAdd
<1> QED
  BY <1>5, <1>8 DEF Interpolated, h

\* Elsewhere, the value is the one with which the divided difference over the points
\* and that point is zero.
LEMMA InterpolationOutside ==
  ASSUME NEW S, NEW x \in Int, NEW f, x \notin S, Apart(S \cup {x}),
         \A i \in S \cup {x} : f[i] \in Int, Cong(Divided(f, S \cup {x}), 0)
  PROVE  Cong(Interpolated(f, S, x), f[x]) /\ Interpolated(f, S, x) \in Int
<1> DEFINE T == S \cup {x}
           G == [i \in T |-> f[i] * Weight(T, i)]
           h == [i \in S |-> f[i] * Lagrange(S, i, x)]
           N == Differences(x, S)
           w == Weight(T, x)
           c == -N
           zero == 0
<1>1. T \ {x} = S /\ x \in T /\ S \in SUBSET T
  OBVIOUS
<1>2. Apart(S) /\ IsFiniteSet(S) /\ IsFiniteSet(T) /\ S \subseteq Int
  <2>1. Apart(T)
    OBVIOUS
  <2> HIDE DEF T
  <2>2. Apart(S)
    BY <1>1, <2>1, ApartSubset
  <2> QED
    BY <2>1, <2>2 DEF Apart
<1>3. N \in Int /\ c \in Int /\ w \in Int /\ Cong(N * w, 1)
  <2>1. Apart(T)
    OBVIOUS
  <2> HIDE DEF T
  <2> QED
    BY <1>1, <2>1, WeightLaws
<1>4. ASSUME NEW i \in S
      PROVE  h[i] \in Int /\ G[i] \in Int /\ Cong(h[i], c * G[i] + zero * G[i])
  <2> DEFINE l == Lagrange(S, i, x)
             D == Differences(x, S \ {i})
             v == Weight(S, i)
             u == Weight(T, i)
             m == f[i]
             e == i - x
  <2>1. l \in Int /\ D \in Int /\ Cong(l, D * v) /\ v \in Int
    BY <1>2, LagrangeLaws, WeightLaws
  <2>2. u \in Int /\ Cong(v, u * e)
    <3>1. Apart(T) /\ i \in T \ {x} /\ i \in T
      BY <1>1
    <3> HIDE DEF T
    <3>2. Cong(Weight(T \ {x}, i), u * e)
      BY <1>1, <3>1, WeightShrinks
    <3>3. u \in Int
      BY <3>1, WeightLaws
    <3> QED
      BY <1>1, <3>2, <3>3
  <2>3. Cong(N, (x - i) * D)
    BY <1>2, DifferencesLaws
  <2>4. i \in Int /\ e \in Int /\ m \in Int
    BY <1>2
  <2>5. h[i] = m * l /\ G[i] = m * u /\ x - i = -e
    BY <2>4
  <2> HIDE DEF l, D, v, u, m, e, h, G, N, c, zero
  <2>6. PICK k1 \in Int : l = D * v + k1 * Q
    BY <2>1 DEF Cong
  <2>7. PICK k2 \in Int : v = u * e + k2 * Q
    BY <2>2 DEF Cong
  <2>8. PICK k3 \in Int : N = (-e) * D + k3 * Q
    BY <2>3, <2>5 DEF Cong
  <2>9. m * l = (m * D) * v + (m * k1) * Q
    BY <2>1, <2>4, <2>6, Order
  <2>10. (m * D) * v = (m * D) * (u * e) + (m * D * k2) * Q
    BY <2>1, <2>2, <2>4, <2>7, Order
  <2>11. (-N) * (m * u) = (m * D) * (u * e) + (-(k3 * m * u)) * Q
    BY <2>1, <2>2, <2>4, <2>8, Order
  <2>12. m * l = (-N) * (m * u) + (m * k1 + m * D * k2 + k3 * m * u) * Q
    <3> DEFINE a1 == (m * D) * v
               a2 == (m * D) * (u * e)
               b1 == m * k1
               b2 == m * D * k2
               b3 == k3 * m * u
               n == (-N) * (m * u)
    <3>1. /\ a1 \in Int /\ a2 \in Int /\ b1 \in Int /\ b2 \in Int /\ b3 \in Int /\ n \in Int
          /\ m * l = a1 + b1 * Q /\ a1 = a2 + b2 * Q /\ n = a2 + (-b3) * Q
      BY <1>3, <2>1, <2>2, <2>4, <2>9, <2>10, <2>11
    <3> HIDE DEF a1, a2, b1, b2, b3, n
    <3>2. (b1 + b2 + b3) * Q = b1 * Q + b2 * Q + b3 * Q /\ (-b3) * Q = -(b3 * Q)
      BY <3>1, Order
    <3>3. b1 * Q \in Int /\ b2 * Q \in Int /\ b3 * Q \in Int
      BY <3>1, Order
    <3>4. a1 + b1 * Q = n + (b1 + b2 + b3) * Q
      BY <3>1, <3>2, <3>3
    <3> QED
      BY <3>1, <3>4 DEF b1, b2, b3, n
  <2>13. m * k1 + m * D * k2 + k3 * m * u \in Int
    BY <2>1, <2>2, <2>4
  <2>14. Cong(m * l, (-N) * (m * u))
    BY <2>12, <2>13 DEF Cong
  <2>15. c * (m * u) + zero * (m * u) = (-N) * (m * u) /\ m * u \in Int /\ m * l \in Int
    BY <1>3, <2>1, <2>2, <2>4 DEF c, zero
  <2> QED
    BY <2>5, <2>14, <2>15
<1>5. G[x] = f[x] * w /\ f[x] \in Int /\ G[x] \in Int
  <2>1. G[x] = f[x] * w /\ f[x] \in Int
    BY <1>1
  <2> HIDE DEF G, w
  <2> QED
    BY <1>3, <2>1
<1>6. Sum(G, T) = G[x] + Sum(G, S) /\ Sum(G, S) \in Int /\ Sum(h, S) \in Int
  <2>1. \A y \in T : G[y] \in Int
    <3>1. \A y \in T : y \in S \/ y = x
      OBVIOUS
    <3> HIDE DEF G
    <3> QED
      BY <1>4, <1>5, <3>1
  <2> HIDE DEF G, h, T
  <2>2. \A y \in T : Sum(G, T) = G[y] + Sum(G, T \ {y})
    BY <1>2, <2>1, SumLaws
  <2>3. \A y \in S : G[y] \in Int /\ h[y] \in Int
    BY <1>4
  <2>4. Sum(G, S) \in Int /\ Sum(h, S) \in Int
    BY <1>2, <2>3, SumLaws
  <2> QED
    BY <1>1, <2>2, <2>4
<1>7. Cong(Sum(G, T), 0)
  BY DEF Divided
<1>8. Cong(Sum(h, S), c * Sum(G, S) + zero * Sum(G, S))
  <2>1. zero \in Int
    OBVIOUS
  <2> HIDE DEF G, h, c, zero, T
  <2> QED
    BY <1>2, <1>3, <1>4, <2>1, SumCombines
<1> DEFINE A == Sum(G, S)
           B == Sum(h, S)
           y == f[x]
<1>9. Cong(B, y)
  <2>1. A \in Int /\ B \in Int /\ y \in Int /\ G[x] = y * w /\ Sum(G, T) = y * w + A
    BY <1>5, <1>6
  <2> HIDE DEF G, h, T, A, B, y, N, w
  <2>2. PICK k1 \in Int : B = (c * A + zero * A) + k1 * Q
    BY <1>8 DEF Cong, A, B
  <2>3. PICK k2 \in Int : y * w + A = 0 + k2 * Q
    BY <1>7, <2>1 DEF Cong
  <2>4. PICK k3 \in Int : N * w = 1 + k3 * Q
    BY <1>3 DEF Cong
  <2>5. c * A + zero * A = -(N * A)
    BY <1>3, <2>1
  <2>6. N * A = N * (k2 * Q) - N * (y * w)
    <3>1. A = k2 * Q - y * w
      <4>1. k2 * Q \in Int /\ y * w \in Int
        BY <1>3, <2>1, Order
      <4> QED
        BY <2>1, <2>3, <4>1
    <3> QED
      BY <1>3, <2>1, <3>1, Order
  <2>7. N * (y * w) = y * (1 + k3 * Q)
    <3>1. N * (y * w) = y * (N * w)
      BY <1>3, <2>1
    <3> QED
      BY <2>4, <3>1
  <2>8. y * (1 + k3 * Q) = y + (y * k3) * Q /\ N * (k2 * Q) = (N * k2) * Q
    BY <1>3, <2>1, Order
  <2>9. B = y + (y * k3 - N * k2 + k1) * Q
    <3> DEFINE p == y * k3
               q == N * k2
    <3>1. p \in Int /\ q \in Int /\ N * A = q * Q - (y + p * Q) /\ N * A \in Int
      BY <1>3, <2>1, <2>6, <2>7, <2>8
    <3>2. B = -(N * A) + k1 * Q
      BY <2>2, <2>5
    <3> HIDE DEF p, q
    <3>3. (p - q + k1) * Q = p * Q - q * Q + k1 * Q
      BY <3>1, Order
    <3>4. p * Q \in Int /\ q * Q \in Int /\ k1 * Q \in Int
      BY <3>1, Order
    <3>5. B = y + (p - q + k1) * Q
      BY <2>1, <3>1, <3>2, <3>3, <3>4
    <3> QED
      BY <3>5 DEF p, q
  <2>10. y * k3 - N * k2 + k1 \in Int
    BY <1>3, <2>1
  <2> QED
    BY <2>9, <2>10 DEF Cong
<1> QED
  BY <1>6, <1>9 DEF Interpolated

\* The dealer's polynomial up to degree n, before it is reduced.
Terms(coefficient, i) == [j \in 1 .. K - 1 |-> coefficient[j] * Exp(i, j)]
Value(coefficient, n) ==
  [i \in Int |-> coefficient[0] + Sum(Terms(coefficient, i), 1 .. n)]

LEMMA ValueLaws ==
  ASSUME NEW coefficient \in [0 .. K - 1 -> Int], NEW i \in Int, NEW n \in 0 .. K - 1
  PROVE  /\ Value(coefficient, n)[i] \in Int
         /\ Value(coefficient, 0)[i] = coefficient[0]
         /\ coefficient[0] \in Int
         /\ n # 0 => /\ coefficient[n] \in Int
                     /\ Value(coefficient, n)[i]
                          = Value(coefficient, n - 1)[i] + coefficient[n] * Exp(i, n)
<1> DEFINE t == Terms(coefficient, i)
<1>1. K \in Nat /\ K # 0
  BY Group
<1>2. \A j \in 1 .. K - 1 : t[j] \in Int /\ t[j] = coefficient[j] * Exp(i, j)
  <2> SUFFICES ASSUME NEW j \in 1 .. K - 1
               PROVE  t[j] \in Int /\ t[j] = coefficient[j] * Exp(i, j)
    OBVIOUS
  <2>1. j \in Nat /\ j \in 0 .. K - 1
    BY <1>1
  <2>2. coefficient[j] \in Int /\ Exp(i, j) \in Int
    BY <2>1, ExpLaws
  <2>3. t[j] = coefficient[j] * Exp(i, j)
    BY DEF Terms
  <2> QED
    BY <2>2, <2>3
<1>3. coefficient[0] \in Int
  BY <1>1
<1> HIDE DEF t
<1>4. ASSUME NEW k \in 0 .. K - 1
      PROVE  /\ Sum(t, 1 .. k) \in Int /\ Sum(t, {}) = 0
             /\ \A j \in 1 .. k : Sum(t, 1 .. k) = t[j] + Sum(t, (1 .. k) \ {j})
  <2>1. IsFiniteSet(1 .. k)
    BY FS_Interval
  <2>2. \A j \in 1 .. k : t[j] \in Int
    BY <1>1, <1>2
  <2> QED
    BY <2>1, <2>2, SumLaws
<1>5. \A k : Value(coefficient, k)[i] = coefficient[0] + Sum(t, 1 .. k)
  BY DEF Value, t
<1>6. Value(coefficient, 0)[i] = coefficient[0]
  <2>1. 1 .. 0 = {} /\ n \in 0 .. K - 1
    OBVIOUS
  <2>2. Sum(t, 1 .. 0) = 0
    BY <1>4, <2>1
  <2> QED
    BY <1>3, <1>5, <2>2
<1>7. Value(coefficient, n)[i] \in Int
  BY <1>3, <1>4, <1>5
<1>8. ASSUME n # 0
      PROVE  /\ coefficient[n] \in Int
             /\ Value(coefficient, n)[i]
                  = Value(coefficient, n - 1)[i] + coefficient[n] * Exp(i, n)
  <2>1. n \in 1 .. n /\ (1 .. n) \ {n} = 1 .. n - 1 /\ n \in 1 .. K - 1 /\ n - 1 \in 0 .. K - 1
    BY <1>1, <1>8
  <2>2. Sum(t, 1 .. n) = t[n] + Sum(t, 1 .. n - 1) /\ Sum(t, 1 .. n - 1) \in Int
    <3>1. Sum(t, 1 .. n) = t[n] + Sum(t, (1 .. n) \ {n})
      BY <1>4, <2>1
    <3> QED
      BY <1>4, <2>1, <3>1
  <2>3. t[n] = coefficient[n] * Exp(i, n) /\ t[n] \in Int /\ coefficient[n] \in Int
    BY <1>2, <2>1
  <2> QED
    BY <1>3, <1>5, <2>2, <2>3
<1> QED
  BY <1>3, <1>6, <1>7, <1>8

\* K values determine the polynomial: over more points its divided difference is zero.
LEMMA DividedValue ==
  ASSUME NEW coefficient \in [0 .. K - 1 -> Int], NEW n \in 0 .. K - 1, NEW T, Apart(T),
         Cardinality(T) >= n + 2
  PROVE  Cong(Divided(Value(coefficient, n), T), 0)
<1> DEFINE v(k) == Value(coefficient, k)
           R == {k \in Nat : k \in 0 .. K - 1 /\ Cardinality(T) >= k + 2
                               => Cong(Divided(v(k), T), 0)}
           zero == 0
           one == 1
<1>1. K \in Nat /\ K # 0 /\ T \subseteq Int /\ Cardinality(T) \in Nat
  BY Group, FS_CardinalityType DEF Apart
<1>2. zero \in Int /\ one \in Int /\ coefficient[0] \in Int /\ \A i \in T : One[i] = 1 /\ One[i] \in Int
  BY <1>1 DEF One
<1>3. Divided(One, T) \in Int /\ Cong(Divided(One, T), zero)
  <2>1. Cardinality(T) >= 2
    BY <1>1
  <2>2. Cong(Divided(One, T), 0)
    BY <2>1, DividedConstant
  <2>3. Divided(One, T) \in Int
    BY <1>2, DividedType
  <2> QED
    BY <2>2, <2>3
<1>4. 0 \in R
  <2> DEFINE f == v(0)
             c == coefficient[0]
  <2>1. ASSUME NEW i \in T
        PROVE  f[i] \in Int /\ Cong(f[i], c * One[i] + zero * One[i])
    <3>1. f[i] = c /\ f[i] \in Int
      BY <1>1, ValueLaws
    <3> HIDE DEF f, c
    <3>2. c * One[i] + zero * One[i] = c
      BY <1>2, <3>1
    <3> QED
      BY <3>1, <3>2, CongLaws
  <2> HIDE DEF f, c, zero
  <2>2. c \in Int
    BY <1>2 DEF c
  <2>3. Cong(Divided(f, T), c * Divided(One, T) + zero * Divided(One, T))
    BY <1>2, <2>1, <2>2, DividedCombines
  <2>4. Divided(f, T) \in Int
    BY <2>1, DividedType
  <2>5. Cong(Divided(f, T), 0)
    BY <1>2, <1>3, <2>2, <2>3, <2>4, CongZero DEF zero
  <2> QED
    BY <2>5 DEF f
<1>5. ASSUME NEW k \in Nat, k \in R PROVE k + 1 \in R
  <2> DEFINE m == k + 1
             f == v(m)
             g == v(k)
             p == Power(m)
             c == coefficient[m]
  <2> SUFFICES ASSUME m \in 0 .. K - 1, Cardinality(T) >= m + 2
               PROVE  Cong(Divided(f, T), 0)
    OBVIOUS
  <2>1. m \in Nat /\ k \in 0 .. K - 1 /\ Cardinality(T) >= k + 2 /\ m # 0 /\ m - 1 = k
    BY <1>1
  <2>2. Cong(Divided(g, T), 0)
    BY <1>5, <2>1
  <2>3. Cong(Divided(p, T), 0)
    <3> HIDE DEF m
    <3> QED
      BY <2>1, DividedPower
  <2>4. c \in Int
    BY <2>1
  <2>5. ASSUME NEW i \in T
        PROVE  /\ f[i] \in Int /\ g[i] \in Int /\ p[i] \in Int
               /\ Cong(f[i], c * p[i] + one * g[i])
    <3>1. i \in Int
      BY <1>1
    <3>2. f[i] \in Int /\ g[i] \in Int /\ f[i] = g[i] + c * Exp(i, m)
      <4>1. /\ Value(coefficient, m)[i] \in Int /\ Value(coefficient, k)[i] \in Int
            /\ Value(coefficient, m)[i]
                 = Value(coefficient, m - 1)[i] + coefficient[m] * Exp(i, m)
        <5> HIDE DEF m
        <5> QED
          BY <2>1, <3>1, ValueLaws
      <4> QED
        BY <2>1, <4>1
    <3>3. p[i] = Exp(i, m) /\ Exp(i, m) \in Int
      BY <2>1, <3>1, ExpLaws DEF Power
    <3> HIDE DEF f, g, p, c, m
    <3>4. c * p[i] + one * g[i] = f[i]
      BY <2>4, <3>2, <3>3
    <3> QED
      BY <3>2, <3>3, <3>4, CongLaws
  <2> HIDE DEF f, g, p, c, one, m, R, v
  <2>6. Cong(Divided(f, T), c * Divided(p, T) + one * Divided(g, T))
    BY <1>2, <2>4, <2>5, DividedCombines
  <2>7. Divided(f, T) \in Int /\ Divided(g, T) \in Int /\ Divided(p, T) \in Int
    BY <2>5, DividedType
  <2> QED
    BY <1>2, <2>2, <2>3, <2>4, <2>6, <2>7, CongZero
<1>6. n \in R
  <2>1. Nat \subseteq R
    <3> HIDE DEF R
    <3> QED
      BY <1>4, <1>5, NumberInduction
  <2>2. n \in Nat
    BY <1>1
  <2> HIDE DEF R
  <2> QED
    BY <2>1, <2>2
<1> QED
  BY <1>6

(***************************************************************************)
(* The keys                                                                *)
(***************************************************************************)

\* The order of the curve is prime and greater than the number of participants.
LEMMA IdsApart ==
  ASSUME NEW S \in SUBSET Id
  PROVE  Apart(S) /\ IsFiniteSet(S) /\ Cardinality(S) \in Nat
<1>1. IsFiniteSet(S) /\ Cardinality(S) \in Nat
  <2>1. IsFiniteSet(Id)
    BY Group, FS_Interval DEF Id
  <2> QED
    BY <2>1, FS_Subset, FS_CardinalityType
<1>2. ASSUME NEW i \in S, NEW j \in S, i # j PROVE Unit(i - j)
  <2>1. i \in Scalar /\ j \in Scalar /\ i \in Int /\ j \in Int /\ i - j \in Int
    BY Group DEF Id, Scalar
  <2>2. ~Cong(i - j, 0)
    <3> SUFFICES ASSUME Cong(i - j, 0) PROVE FALSE
      OBVIOUS
    <3>1. PICK k \in Int : i - j = 0 + k * Q
      BY DEF Cong
    <3> DEFINE m == k * Q
    <3>2. m \in Int
      BY <3>1, Group
    <3>3. i - j = 0 + m
      BY <3>1
    <3> HIDE DEF m
    <3>4. i = j + m
      BY <2>1, <3>2, <3>3
    <3>5. Cong(i, j)
      BY <3>4 DEF m, Cong
    <3> QED
      BY <1>2, <2>1, <3>5, CongScalar
  <2> QED
    BY <2>1, <2>2, PrimeUnit
<1>3. S \subseteq Int
  BY Group DEF Id
<1> QED
  BY <1>1, <1>2, <1>3 DEF Apart

LEMMA Coefficients ==
  ASSUME NEW coefficient \in [0 .. K - 1 -> Secret]
  PROVE  coefficient \in [0 .. K - 1 -> Int] /\ K - 1 \in 0 .. K - 1
<1>1. Secret \subseteq Int
  BY Group DEF Scalar
<1>2. coefficient \in [0 .. K - 1 -> Int]
  BY <1>1
<1>3. K - 1 \in 0 .. K - 1
  BY Group
<1> QED
  BY <1>2, <1>3

\* A key is the remainder of the value of the dealer's polynomial.
LEMMA KeyLaws ==
  ASSUME NEW coefficient \in [0 .. K - 1 -> Secret], NEW i \in Id
  PROVE  /\ Gen_key_dealer(coefficient)[i] \in Scalar
         /\ Gen_key_dealer(coefficient)[i] \in Int
         /\ Value(coefficient, K - 1)[i] \in Int
         /\ Cong(Gen_key_dealer(coefficient)[i], Value(coefficient, K - 1)[i])
<1>1. coefficient \in [0 .. K - 1 -> Int] /\ i \in Int /\ K - 1 \in 0 .. K - 1
  BY Coefficients, Group DEF Id
<1>2. Value(coefficient, K - 1)[i] \in Int
  BY <1>1, ValueLaws
<1>3. Gen_key_dealer(coefficient)[i] = Value(coefficient, K - 1)[i] % Q
  BY <1>1 DEF Gen_key_dealer, SecretKey, Value, Terms, Sum
<1> QED
  BY <1>2, <1>3, CongMod

\* So the divided differences of the keys of more than K participants are zero.
LEMMA KeysDivided ==
  ASSUME NEW coefficient \in [0 .. K - 1 -> Secret], NEW T \in SUBSET Id,
         Cardinality(T) >= K + 1
  PROVE  Cong(Divided(Gen_key_dealer(coefficient), T), 0)
<1> DEFINE f == Gen_key_dealer(coefficient)
           v == Value(coefficient, K - 1)
           one == 1
           zero == 0
<1>1. Apart(T) /\ Cardinality(T) \in Nat
  BY IdsApart
<1>2. one \in Int /\ zero \in Int
  OBVIOUS
<1>3. Cong(Divided(v, T), zero)
  <2>1. coefficient \in [0 .. K - 1 -> Int] /\ K - 1 \in 0 .. K - 1
    BY Coefficients
  <2>2. Cardinality(T) >= (K - 1) + 2
    BY <1>1, Group
  <2> QED
    BY <1>1, <2>1, <2>2, DividedValue
<1>4. ASSUME NEW i \in T
      PROVE  /\ v[i] \in Int /\ f[i] \in Int
             /\ Cong(f[i], one * v[i] + zero * v[i])
  <2>1. v[i] \in Int /\ f[i] \in Int /\ Cong(f[i], v[i])
    BY KeyLaws
  <2> HIDE DEF v, f
  <2>2. one * v[i] + zero * v[i] = v[i]
    BY <2>1
  <2> QED
    BY <2>1, <2>2
<1> HIDE DEF f, v, one, zero
<1>5. Cong(Divided(f, T), one * Divided(v, T) + zero * Divided(v, T))
  BY <1>1, <1>2, <1>4, DividedCombines
<1>6. Divided(f, T) \in Int /\ Divided(v, T) \in Int
  BY <1>1, <1>4, DividedType
<1>7. Cong(Divided(f, T), 0)
  BY <1>2, <1>3, <1>5, <1>6, CongZero DEF zero
<1> QED
  BY <1>7 DEF f

\* And the keys of K participants interpolate to the key of any.
LEMMA KeysInterpolated ==
  ASSUME NEW coefficient \in [0 .. K - 1 -> Secret], NEW S \in SUBSET Id, NEW x \in Id,
         Cardinality(S) = K
  PROVE  /\ Interpolated(Gen_key_dealer(coefficient), S, x) \in Int
         /\ Cong(Interpolated(Gen_key_dealer(coefficient), S, x),
                 Gen_key_dealer(coefficient)[x])
<1> DEFINE f == Gen_key_dealer(coefficient)
<1>1. \A i \in Id : f[i] \in Int
  BY KeyLaws
<1>2. CASE x \in S
  <2>1. Apart(S) /\ \A i \in S : f[i] \in Int
    BY <1>1, IdsApart
  <2> HIDE DEF f
  <2>2. Cong(Interpolated(f, S, x), f[x]) /\ Interpolated(f, S, x) \in Int
    BY <1>2, <2>1, InterpolationInside
  <2> QED
    BY <2>2 DEF f
<1>3. CASE x \notin S
  <2> DEFINE T == S \cup {x}
  <2>1. T \in SUBSET Id /\ Apart(T) /\ x \in Int
    BY IdsApart, Group DEF Id
  <2>2. Cardinality(T) >= K + 1
    <3>1. IsFiniteSet(S) /\ Cardinality(S) \in Nat
      BY IdsApart
    <3>2. Cardinality(T) = Cardinality(S) + 1
      BY <1>3, <3>1, FS_AddElement
    <3> QED
      BY <3>1, <3>2
  <2>3. Cong(Divided(f, T), 0)
    BY <2>1, <2>2, KeysDivided
  <2>4. \A i \in T : f[i] \in Int
    BY <1>1
  <2> HIDE DEF f
  <2>5. Cong(Interpolated(f, S, x), f[x]) /\ Interpolated(f, S, x) \in Int
    BY <1>3, <2>1, <2>3, <2>4, InterpolationOutside
  <2> QED
    BY <2>5 DEF f
<1> QED
  BY <1>2, <1>3

(***************************************************************************)
(* The proofs                                                              *)
(***************************************************************************)

LEMMA ProofInputFinite == IsFiniteSet(ProofInput)
<1> DEFINE Two == Scalar \X Scalar
           Three == Two \X Scalar
           Four == Three \X Scalar
           Five == Four \X Scalar
           f == [t \in Five |-> <<t[1][1][1][1], t[1][1][1][2], t[1][1][2], t[1][2], t[2]>>]
<1>1. IsFiniteSet(Five)
  <2>1. IsFiniteSet(Scalar)
    BY Group, FS_Interval DEF Scalar
  <2>2. IsFiniteSet(Two)
    BY <2>1, FS_Product
  <2> HIDE DEF Two
  <2>3. IsFiniteSet(Three)
    BY <2>1, <2>2, FS_Product
  <2> HIDE DEF Three
  <2>4. IsFiniteSet(Four)
    BY <2>1, <2>3, FS_Product
  <2> HIDE DEF Four
  <2> QED
    BY <2>1, <2>4, FS_Product
<1>2. f \in [Five -> ProofInput]
  BY DEF ProofInput
<1>3. ASSUME NEW u \in ProofInput PROVE \E t \in Five : f[t] = u
  <2> DEFINE t == <<<<<<<<u[1], u[2]>>, u[3]>>, u[4]>>, u[5]>>
  <2>1. u = <<u[1], u[2], u[3], u[4], u[5]>>
    BY DEF ProofInput
  <2>2. t \in Five
    BY DEF ProofInput
  <2>3. f[t] = u
    BY <2>1, <2>2
  <2> QED
    BY <2>2, <2>3
<1> HIDE DEF f, Five
<1>4. f \in Surjection(Five, ProofInput)
  BY <1>2, <1>3 DEF Surjection
<1> QED
  BY <1>1, <1>4, FS_Surjection

\* As many digests as inputs: no two inputs have the same.
LEMMA NoCollision ==
  ASSUME NEW t \in ProofInput, NEW u \in ProofInput, Digest(t) = Digest(u)
  PROVE  t = u
<1> DEFINE D == {Digest(v) : v \in ProofInput}
           f == [v \in ProofInput |-> Digest(v)]
<1>1. f \in Surjection(ProofInput, D)
  BY DEF Surjection
<1>2. Cardinality(D) = Cardinality(ProofInput)
  BY Hash
<1>3. f[t] = f[u]
  OBVIOUS
<1> HIDE DEF D, f
<1>4. f \in Injection(ProofInput, D)
  BY <1>1, <1>2, ProofInputFinite, FS_SurjSameCardinalityImpliesInj
<1> QED
  BY <1>3, <1>4 DEF Injection, IsInjective

\* What a verifier computes again are the commitments.
LEMMA Recommit ==
  ASSUME NEW k \in Int, NEW s \in Int, NEW g \in Int, NEW c \in Int, NEW z \in Int,
         NEW p \in Int, Cong(z, c * k + s), Cong(p, g * k)
  PROVE  Cong(z - c * k, s) /\ Cong(g * z - p * c, g * s)
<1>1. PICK a \in Int : z = (c * k + s) + a * Q
  BY DEF Cong
<1>2. PICK b \in Int : p = g * k + b * Q
  BY DEF Cong
<1>3. Cong(z - c * k, s)
  <2>1. z - c * k = s + a * Q
    BY <1>1, Group
  <2> QED
    BY <2>1 DEF Cong
<1>4. Cong(g * z - p * c, g * s)
  <2> DEFINE d == g * a - b * c
  <2>1. d \in Int
    BY <1>1, <1>2
  <2>2. g * z - p * c = g * s + d * Q
    BY <1>1, <1>2, Group
  <2> QED
    BY <2>1, <2>2 DEF Cong
<1> QED
  BY <1>3, <1>4

\* A share made with a key in range is made of numbers, ...
LEMMA ShareLaws ==
  ASSUME NEW x \in Input, NEW i \in Id, NEW s \in Nonce, key[i] \in Scalar
  PROVE  LET g == HashPoint[x]
             m == Compute_share(x, i, s)
             t == HashInput(key[i], s, g, m.point, (g * s) % Q)
         IN  /\ t \in ProofInput /\ m.c = Digest(t) /\ m.c \in Nat
             /\ m.point = (g * key[i]) % Q /\ m.point \in Scalar
             /\ m.z = (m.c * key[i] + s) % Q /\ m.z \in Scalar
             /\ g \in Scalar /\ s \in Scalar
<1> DEFINE g == HashPoint[x]
           m == Compute_share(x, i, s)
           t == HashInput(key[i], s, g, m.point, (g * s) % Q)
<1>1. g \in Scalar /\ s \in Scalar /\ Scalar \subseteq Int
  BY Group DEF Scalar
<1>2. m.point = (g * key[i]) % Q /\ m.c = Digest(t) /\ m.z = (m.c * key[i] + s) % Q
  BY DEF Compute_share
<1>3. g \in Int /\ s \in Int /\ key[i] \in Int
  BY <1>1
<1> HIDE DEF g, m
<1>4. m.point \in Scalar /\ (g * s) % Q \in Scalar
  BY <1>2, <1>3, CongMod
<1>5. t \in ProofInput
  BY <1>1, <1>4 DEF HashInput, ProofInput
<1>6. m.c \in Nat
  BY <1>2, <1>5, Hash
<1> HIDE DEF t
<1>7. m.z \in Scalar
  BY <1>2, <1>3, <1>6, CongMod
<1> QED
  BY <1>1, <1>2, <1>4, <1>5, <1>6, <1>7 DEF g, m, t

\* ... it verifies, ...
LEMMA ShareVerifies ==
  ASSUME NEW x \in Input, NEW i \in Id, NEW s \in Nonce, key[i] \in Scalar
  PROVE  Verify_share_node(x, i, Compute_share(x, i, s))
<1> DEFINE g == HashPoint[x]
           k == key[i]
           m == Compute_share(x, i, s)
           c == m.c
           z == m.z
           p == m.point
           right == (g * s) % Q
<1>1. /\ c = Digest(HashInput(k, s, g, p, right)) /\ c \in Nat
      /\ p = (g * k) % Q /\ p \in Scalar
      /\ z = (c * k + s) % Q /\ z \in Scalar /\ g \in Scalar /\ s \in Scalar
  BY ShareLaws
<1>2. Scalar \subseteq Int /\ k \in Int
  BY Group DEF Scalar
<1>3. Verify_share_node(x, i, m)
        <=> c = Digest(HashInput(k, (z - c * k) % Q, g, p, (g * z - p * c) % Q))
  BY DEF Verify_share_node, Verify_share, LoadvkFromFiles
<1> HIDE DEF g, k, m, c, z, p
<1>4. c \in Int /\ p \in Int /\ z \in Int /\ g \in Int /\ s \in Int
  BY <1>1, <1>2
<1>5. Cong(z, c * k + s) /\ Cong(p, g * k)
  <2>1. c * k + s \in Int /\ g * k \in Int
    BY <1>2, <1>4
  <2> QED
    BY <1>1, <2>1, CongMod
<1>6. Cong(z - c * k, s) /\ Cong(g * z - p * c, g * s)
  BY <1>2, <1>4, <1>5, Recommit
<1>7. (z - c * k) % Q = s
  <2>1. z - c * k \in Int
    BY <1>2, <1>4
  <2> QED
    BY <1>1, <1>6, <2>1, CongRemainder
<1>8. (g * z - p * c) % Q = right
  <2>1. g * z - p * c \in Int /\ g * s \in Int
    BY <1>4
  <2>2. right \in Scalar /\ right \in Int /\ Cong(right, g * s)
    BY <2>1, CongMod
  <2>3. Cong(g * z - p * c, right)
    <3> HIDE DEF right
    <3> DEFINE a == g * z - p * c
               b == g * s
    <3>1. a \in Int /\ b \in Int /\ Cong(a, b) /\ Cong(right, b)
      BY <1>6, <2>1, <2>2
    <3> HIDE DEF a, b
    <3>2. Cong(a, right)
      BY <2>2, <3>1, CongLaws, CongTrans
    <3> QED
      BY <3>2 DEF a
  <2> HIDE DEF right
  <2> QED
    BY <2>1, <2>2, <2>3, CongRemainder
<1> QED
  BY <1>1, <1>3, <1>7, <1>8 DEF m

\* ... and only for the key and the point it was made with.
LEMMA ShareBinds ==
  ASSUME NEW x \in Input, NEW i \in Id, NEW s \in Nonce, NEW y \in Input, NEW j \in Id,
         key[i] \in Scalar, key[j] \in Scalar,
         Verify_share_node(y, j, Compute_share(x, i, s))
  PROVE  Compute_share(x, i, s).point = (HashPoint[y] * key[j]) % Q
<1> DEFINE g == HashPoint[x]
           h == HashPoint[y]
           m == Compute_share(x, i, s)
           again == (m.z - m.c * key[j]) % Q
           other == (h * m.z - m.point * m.c) % Q
           t == HashInput(key[i], s, g, m.point, (g * s) % Q)
           u == HashInput(key[j], again, h, m.point, other)
<1>1. /\ t \in ProofInput /\ m.c = Digest(t) /\ m.c \in Nat
      /\ m.point = (g * key[i]) % Q /\ m.point \in Scalar /\ m.z \in Scalar
  BY ShareLaws
<1>2. h \in Scalar /\ Scalar \subseteq Int
  BY Group DEF Scalar
<1>3. m.c = Digest(u)
  BY DEF Verify_share_node, Verify_share, LoadvkFromFiles
<1> HIDE DEF m
<1> HIDE DEF h
<1>4. h \in Int /\ m.z \in Int /\ m.point \in Int /\ m.c \in Int /\ key[j] \in Int
  <2>1. key[j] \in Scalar /\ m.z \in Scalar /\ m.point \in Scalar /\ h \in Scalar
    BY <1>1, <1>2
  <2>2. m.c \in Int
    BY <1>1
  <2> QED
    BY <1>2, <2>1, <2>2
<1>5. m.z - m.c * key[j] \in Int /\ h * m.z - m.point * m.c \in Int
  BY <1>4
<1>6. again \in Scalar /\ other \in Scalar
  BY <1>5, CongMod
<1> HIDE DEF again, other
<1>7. u \in ProofInput
  BY <1>1, <1>2, <1>6 DEF HashInput, ProofInput, h
<1>8. t = u
  <2> HIDE DEF t, u
  <2> QED
    BY <1>1, <1>3, <1>7, NoCollision
<1>9. key[i] = key[j] /\ g = h
  BY <1>8 DEF HashInput
<1> QED
  BY <1>1, <1>9 DEF m, h

(***************************************************************************)
(* The inductive invariant: the keys are a dealer's, a share on its way    *)
(* was made with them, the file of a participant counted as gathered holds *)
(* its share for the input the user works on, and a value is the input's.  *)
(***************************************************************************)

KeysRight ==
  key = <<>> \/ \E coefficient \in [0 .. K - 1 -> Secret] : key = Gen_key_dealer(coefficient)

SharesRight ==
  \A m \in published :
    /\ key # <<>> /\ m.id \in Id /\ m.for \in Input
    /\ \E s \in Nonce : m.share = Compute_share(m.for, m.id, s)

FilesRight ==
  /\ input \in Input /\ gathered \subseteq Id /\ DOMAIN shareFile = Id
  /\ \A i \in gathered : key # <<>> /\ shareFile[i] = (HashPoint[input] * key[i]) % Q

ValuesRight ==
  /\ DOMAIN values = Input
  /\ \A x \in Input : values[x] # {} => key # <<>>

IInv == KeysRight /\ SharesRight /\ FilesRight /\ ValuesRight /\ OneValue

LEMMA KeyTypes ==
  ASSUME KeysRight, key # <<>>
  PROVE  \A i \in Id : key[i] \in Scalar /\ key[i] \in Int
<1>1. PICK coefficient \in [0 .. K - 1 -> Secret] : key = Gen_key_dealer(coefficient)
  BY DEF KeysRight
<1> QED
  BY <1>1, KeyLaws

\* Any K keys give the key of every participant.
LEMMA Interpolation ==
  ASSUME KeysRight
  PROVE  KeysInterpolate
<1> SUFFICES ASSUME key # <<>>, NEW ids \in kSubset(K, Id), NEW i \in Id
             PROVE  Verify_lagrange(ids, i) = key[i]
  BY DEF KeysInterpolate
<1>1. PICK coefficient \in [0 .. K - 1 -> Secret] : key = Gen_key_dealer(coefficient)
  BY DEF KeysRight
<1>2. ids \in SUBSET Id /\ Cardinality(ids) = K
  BY DEF kSubset
<1>3. Verify_lagrange(ids, i) = Interpolated(key, ids, i) % Q
  BY DEF Verify_lagrange, Interpolated, Sum, LoadvkFromFiles
<1>4. Interpolated(key, ids, i) \in Int /\ Cong(Interpolated(key, ids, i), key[i])
  BY <1>1, <1>2, KeysInterpolated
<1>5. key[i] \in Scalar
  BY KeyTypes
<1> QED
  BY <1>3, <1>4, <1>5, CongRemainder

\* A share that verifies is the input's under the participant's key.
LEMMA Binding ==
  ASSUME KeysRight, SharesRight
  PROVE  ProofsBind /\ ProofsVerify
<1> SUFFICES ASSUME NEW m \in published
             PROVE  /\ Verify_share_node(m.for, m.id, m.share)
                    /\ \A x \in Input, i \in Id :
                         Verify_share_node(x, i, m.share)
                           => m.share.point = (HashPoint[x] * key[i]) % Q
  BY DEF ProofsBind, ProofsVerify
<1>1. key # <<>> /\ m.id \in Id /\ m.for \in Input
  BY DEF SharesRight
<1>2. PICK s \in Nonce : m.share = Compute_share(m.for, m.id, s)
  BY DEF SharesRight
<1>3. \A i \in Id : key[i] \in Scalar
  BY <1>1, KeyTypes
<1>4. Verify_share_node(m.for, m.id, m.share)
  BY <1>1, <1>2, <1>3, ShareVerifies
<1>5. ASSUME NEW x \in Input, NEW i \in Id, Verify_share_node(x, i, m.share)
      PROVE  m.share.point = (HashPoint[x] * key[i]) % Q
  BY <1>1, <1>2, <1>3, <1>5, ShareBinds
<1> QED
  BY <1>4, <1>5

\* K right files combine to the share of participant 0.
LEMMA Combination ==
  ASSUME KeysRight, FilesRight, NEW ids \in SUBSET gathered, Cardinality(ids) = K
  PROVE  key # <<>> /\ Compute_prf(ids) = (HashPoint[input] * key[0]) % Q
<1>1. ids \in SUBSET Id /\ ids # {} /\ 0 \in Id
  <2>1. ids \in SUBSET Id
    BY DEF FilesRight
  <2>2. ids # {}
    <3>1. Cardinality({}) = 0 /\ K # 0
      BY Group, FS_EmptySet
    <3> QED
      BY <3>1
  <2>3. 0 \in Id
    BY Group DEF Id
  <2> QED
    BY <2>1, <2>2, <2>3
<1>2. key # <<>>
  BY <1>1 DEF FilesRight
<1>3. PICK coefficient \in [0 .. K - 1 -> Secret] : key = Gen_key_dealer(coefficient)
  BY <1>2 DEF KeysRight
<1> DEFINE g == HashPoint[input]
           zero == 0
           whole == Interpolated(key, ids, 0)
           f == [i \in ids |-> key[i] * Lagrange(ids, i, 0)]
           h == [i \in ids |-> shareFile[i] * Lagrange(ids, i, 0)]
<1>4. whole \in Int /\ Cong(whole, key[0])
  BY <1>1, <1>3, KeysInterpolated
<1>5. whole = Sum(f, ids) /\ Compute_prf(ids) = Sum(h, ids) % Q
  <2>1. h = [i \in ids |-> [j \in ids |-> shareFile[j]][i] * Lagrange(ids, i, 0)]
    OBVIOUS
  <2> QED
    BY <2>1 DEF Interpolated, Compute_prf, Compute_prf_from_shares, LoadshareFromFiles, Sum
<1>6. g \in Int /\ key[0] \in Int /\ zero \in Int
  BY <1>1, <1>2, KeyTypes, Group DEF FilesRight, Scalar
<1> HIDE DEF whole, zero
<1>7. ASSUME NEW i \in ids
      PROVE  /\ f[i] \in Int /\ h[i] \in Int
             /\ Cong(h[i], g * f[i] + zero * f[i])
  <2> DEFINE l == Lagrange(ids, i, 0)
             k == key[i]
             p == shareFile[i]
  <2>1. l \in Int
    BY <1>1, <1>6, IdsApart, LagrangeLaws DEF zero
  <2>2. k \in Int
    BY <1>1, <1>2, KeyTypes
  <2>3. p = (g * k) % Q
    BY DEF FilesRight
  <2>4. f[i] = k * l /\ h[i] = p * l
    OBVIOUS
  <2> HIDE DEF l, k, p, f, h, g
  <2>5. p \in Int /\ Cong(p, g * k) /\ g * k \in Int
    BY <1>6, <2>2, <2>3, CongMod
  <2>6. Cong(p * l, (g * k) * l)
    BY <2>1, <2>5, CongTimes
  <2>7. (g * k) * l = g * (k * l) + zero * (k * l)
    BY <1>6, <2>1, <2>2 DEF zero
  <2> QED
    BY <2>1, <2>2, <2>4, <2>5, <2>6, <2>7
<1> HIDE DEF f, h, g
<1>8. IsFiniteSet(ids)
  BY <1>1, IdsApart
<1>9. Cong(Sum(h, ids), g * Sum(f, ids) + zero * Sum(f, ids))
  BY <1>6, <1>7, <1>8, SumCombines
<1>10. Sum(h, ids) \in Int /\ Sum(f, ids) \in Int
  BY <1>7, <1>8, SumLaws
<1>11. Cong(Sum(h, ids), g * whole)
  <2>1. g * whole + zero * whole = g * whole
    BY <1>4, <1>6 DEF zero
  <2> QED
    BY <1>5, <1>9, <2>1
<1>12. Cong(g * whole, g * key[0])
  BY <1>4, <1>6, CongTimes
<1> DEFINE right == (g * key[0]) % Q
<1>13. right \in Scalar /\ right \in Int /\ Cong(right, g * key[0]) /\ g * key[0] \in Int
  <2>1. g * key[0] \in Int
    BY <1>6
  <2> QED
    BY <2>1, CongMod
<1>14. Cong(Sum(h, ids), right)
  <2> DEFINE a == g * key[0]
             b == g * whole
  <2>1. a \in Int /\ b \in Int
    BY <1>4, <1>6
  <2> HIDE DEF right
  <2>2. Cong(right, a) /\ Cong(b, a) /\ Cong(Sum(h, ids), b)
    BY <1>11, <1>12, <1>13
  <2> HIDE DEF a, b
  <2>3. Cong(a, right)
    BY <1>13, <2>1, <2>2, CongLaws
  <2>4. Cong(b, right)
    BY <1>13, <2>1, <2>2, <2>3, CongTrans
  <2> QED
    BY <1>10, <1>13, <2>1, <2>2, <2>4, CongTrans
<1> HIDE DEF right
<1>15. Sum(h, ids) % Q = right
  BY <1>10, <1>13, <1>14, CongRemainder
<1> QED
  BY <1>2, <1>5, <1>15 DEF right, g

(***************************************************************************)
(* The theorems                                                            *)
(***************************************************************************)

LEMMA InitHolds == Init => IInv
<1> SUFFICES ASSUME Init PROVE IInv
  OBVIOUS
<1>1. KeysRight /\ SharesRight
  BY DEF Init, KeysRight, SharesRight
<1>2. FilesRight /\ ValuesRight /\ OneValue
  BY DEF Init, FilesRight, ValuesRight, OneValue
<1> QED
  BY <1>1, <1>2 DEF IInv

LEMMA DealerKeeps ==
  ASSUME IInv, NEW coefficient \in [0 .. K - 1 -> Secret], Init_key_dealer(coefficient)
  PROVE  IInv'
<1>1. published = {} /\ gathered = {} /\ \A x \in Input : values[x] = {}
  BY DEF IInv, SharesRight, FilesRight, ValuesRight, Init_key_dealer
<1>2. KeysRight'
  BY DEF Init_key_dealer, KeysRight, Gen_key_dealer, SecretKey
<1>3. SharesRight'
  BY <1>1 DEF Init_key_dealer, SharesRight
<1>4. FilesRight' /\ ValuesRight' /\ OneValue'
  BY <1>1 DEF IInv, Init_key_dealer, FilesRight, ValuesRight, OneValue
<1> QED
  BY <1>2, <1>3, <1>4 DEF IInv

LEMMA PublishKeeps ==
  ASSUME IInv, NEW i \in Id, NEW x \in Input, NEW s \in Nonce, Publish(i, x, s)
  PROVE  IInv'
<1>1. KeysRight' /\ FilesRight' /\ ValuesRight' /\ OneValue'
  BY DEF IInv, Publish, KeysRight, FilesRight, ValuesRight, OneValue, Gen_key_dealer, SecretKey
<1>2. SharesRight'
  <2> DEFINE n == [id |-> i, for |-> x, share |-> Compute_share(x, i, s)]
  <2>1. key' = key /\ key # <<>> /\ published' = published \cup {n}
    BY DEF Publish
  <2> SUFFICES ASSUME NEW m \in published'
               PROVE  /\ key # <<>> /\ m.id \in Id /\ m.for \in Input
                      /\ \E r \in Nonce : m.share = Compute_share(m.for, m.id, r)
    BY <2>1 DEF SharesRight, Compute_share
  <2>2. CASE m \in published
    BY <2>2 DEF IInv, SharesRight
  <2>3. CASE m = n
    <3>1. m.id = i /\ m.for = x /\ m.share = Compute_share(x, i, s)
      BY <2>3
    <3> QED
      BY <2>1, <3>1
  <2> QED
    BY <2>1, <2>2, <2>3
<1> QED
  BY <1>1, <1>2 DEF IInv

LEMMA StoreKeeps ==
  ASSUME IInv, NEW m \in published, Store_share(m)
  PROVE  IInv'
<1>1. m.id \in Id /\ key # <<>> /\ input \in Input
  BY DEF IInv, SharesRight, FilesRight
<1>2. m.share.point = (HashPoint[input] * key[m.id]) % Q
  BY <1>1, Binding DEF IInv, ProofsBind, Store_share
<1>3. KeysRight' /\ SharesRight' /\ ValuesRight' /\ OneValue'
  BY DEF IInv, Store_share, KeysRight, SharesRight, ValuesRight, OneValue, Gen_key_dealer,
         SecretKey, Compute_share
<1>4. FilesRight'
  <2>1. /\ input' = input /\ key' = key /\ gathered' = gathered \cup {m.id}
        /\ shareFile' = [shareFile EXCEPT ![m.id] = m.share.point]
    BY DEF Store_share
  <2>2. DOMAIN shareFile = Id /\ gathered \subseteq Id
    BY DEF IInv, FilesRight
  <2>3. ASSUME NEW i \in gathered' PROVE shareFile'[i] = (HashPoint[input] * key[i]) % Q
    <3>1. CASE i = m.id
      BY <1>1, <1>2, <2>1, <2>2, <3>1
    <3>2. CASE i # m.id
      <4>1. i \in gathered /\ shareFile'[i] = shareFile[i]
        BY <2>1, <2>2, <3>2
      <4> QED
        BY <4>1 DEF IInv, FilesRight
    <3> QED
      BY <3>1, <3>2
  <2> QED
    BY <1>1, <2>1, <2>2, <2>3 DEF FilesRight
<1> QED
  BY <1>3, <1>4 DEF IInv

LEMMA CombineKeeps ==
  ASSUME IInv, NEW ids \in SUBSET gathered, Combine(ids)
  PROVE  IInv'
<1>1. key # <<>> /\ Compute_prf(ids) = (HashPoint[input] * key[0]) % Q
  BY Combination DEF IInv, Combine
<1>2. KeysRight' /\ SharesRight' /\ FilesRight'
  BY DEF IInv, Combine, KeysRight, SharesRight, FilesRight, Gen_key_dealer, SecretKey,
         Compute_share
<1>3. /\ key' = key /\ DOMAIN values = Input
      /\ values' = [values EXCEPT ![input] = @ \cup {Compute_prf(ids)}]
  BY DEF IInv, ValuesRight, Combine
<1>4. ValuesRight'
  BY <1>1, <1>3 DEF ValuesRight
<1>5. OneValue'
  <2> SUFFICES ASSUME NEW x \in Input, NEW v \in values'[x]
               PROVE  v = (HashPoint[x] * key[0]) % Q
    BY <1>3 DEF OneValue
  <2>1. CASE v \in values[x]
    BY <2>1 DEF IInv, OneValue
  <2>2. CASE v \notin values[x]
    <3>1. x = input /\ v = Compute_prf(ids)
      <4> DEFINE w == Compute_prf(ids)
      <4>1. values' = [values EXCEPT ![input] = @ \cup {w}]
        BY <1>3
      <4> HIDE DEF w
      <4>2. x = input /\ v = w
        BY <1>3, <2>2, <4>1
      <4> QED
        BY <4>2 DEF w
    <3> QED
      BY <1>1, <3>1
  <2> QED
    BY <2>1, <2>2
<1> QED
  BY <1>2, <1>4, <1>5 DEF IInv

LEMMA InputKeeps ==
  ASSUME IInv, NEW x \in Input, NextInput(x)
  PROVE  IInv'
<1>1. KeysRight' /\ SharesRight' /\ ValuesRight' /\ OneValue'
  BY DEF IInv, NextInput, KeysRight, SharesRight, ValuesRight, OneValue, Gen_key_dealer,
         SecretKey, Compute_share
<1>2. FilesRight'
  BY DEF IInv, NextInput, FilesRight
<1> QED
  BY <1>1, <1>2 DEF IInv

LEMMA StepKeeps == IInv /\ [Next]_vars => IInv'
<1> SUFFICES ASSUME IInv, [Next]_vars PROVE IInv'
  OBVIOUS
<1>1. ASSUME NEW coefficient \in [0 .. K - 1 -> Secret], Init_key_dealer(coefficient)
      PROVE  IInv'
  BY <1>1, DealerKeeps
<1>2. ASSUME NEW i \in Id, NEW x \in Input, NEW s \in Nonce, Publish(i, x, s)
      PROVE  IInv'
  BY <1>2, PublishKeeps
<1>3. ASSUME NEW m \in published, Store_share(m) PROVE IInv'
  BY <1>3, StoreKeeps
<1>4. ASSUME NEW ids \in SUBSET gathered, Combine(ids) PROVE IInv'
  BY <1>4, CombineKeeps
<1>5. ASSUME NEW x \in Input, NextInput(x) PROVE IInv'
  BY <1>5, InputKeeps
<1>6. CASE UNCHANGED vars
  BY <1>6 DEF vars, IInv, KeysRight, SharesRight, FilesRight, ValuesRight, OneValue,
              Gen_key_dealer, SecretKey, Compute_share
<1> QED
  BY <1>1, <1>2, <1>3, <1>4, <1>5, <1>6 DEF Next

\* The keys, the shares on their way, the files and the values are as said above.
THEOREM FilesInductive == Spec => []IInv
BY InitHolds, StepKeeps, PTL DEF Spec

\* Whichever K participants Compute_prf is given, and whatever the files still
\* hold from other inputs, the value of an input is its share under the key of
\* participant 0, the dealer's secret: no two users of the coin disagree.
THEOREM PRFOneValue == Spec => []OneValue
<1>1. IInv => OneValue
  BY DEF IInv
<1> QED
  BY <1>1, FilesInductive, PTL

\* What Verify_lagrange prints for K participants and a participant is that
\* participant's key, whichever they are and whatever the dealer drew.
THEOREM PRFKeysInterpolate == Spec => []KeysInterpolate
<1>1. IInv => KeysInterpolate
  BY Interpolation DEF IInv
<1> QED
  BY <1>1, FilesInductive, PTL

\* What Compute_share makes passes Verify_share, whatever scalar was drawn: the
\* share of an honest participant is never refused.
THEOREM PRFProofsVerify == Spec => []ProofsVerify
<1>1. IInv => ProofsVerify
  BY Binding DEF IInv
<1> QED
  BY <1>1, FilesInductive, PTL

\* A share that passes Verify_share for an input and a key is the one
\* Compute_share makes of them, even when it was made for others.
THEOREM PRFProofsBind == Spec => []ProofsBind
<1>1. IInv => ProofsBind
  BY Binding DEF IInv
<1> QED
  BY <1>1, FilesInductive, PTL
=============================================================================
