-------------------------- MODULE NumberTheorems --------------------------
(***************************************************************************)
(* Numbers: induction over the naturals and over finite sets, the          *)
(* existence of functions defined by recursion and of folds, sums over     *)
(* finite sets, and the counter arithmetic of IvArith for every radix and  *)
(* number of digits.  The library states induction of operators; here it   *)
(* is stated of sets.                                                      *)
(***************************************************************************)
EXTENDS IvArith, WellFoundedInduction, FiniteSetTheorems, TLAPS

-----------------------------------------------------------------------------
(* Induction. *)

\* A set of naturals that is not empty has a least element.
LEMMA LeastNatural ==
  ASSUME NEW S \in SUBSET Nat, S # {}
  PROVE  \E x \in S : \A y \in S : x <= y
<1> DEFINE R == OpToRel(<, Nat)
<1>1. IsWellFoundedOn(R, Nat)
  BY NatLessThanWellFounded
<1>2. \A x, y \in Nat : x < y => <<x, y>> \in R
  BY DEF OpToRel
<1> HIDE DEF R
<1>3. S \subseteq Nat
  OBVIOUS
<1>4. PICK x \in S : \A y \in S : ~ (<<y, x>> \in R)
  BY <1>1, <1>3, WFMin
<1>5. ASSUME NEW y \in S PROVE x <= y
  <2>1. x \in Nat /\ y \in Nat /\ ~ (y < x)
    BY <1>2, <1>3, <1>4
  <2>2. QED
    BY <2>1
<1>6. QED
  BY <1>5

\* A set of integers that is not empty and has an upper bound has a greatest
\* element.
LEMMA GreatestInteger ==
  ASSUME NEW S \in SUBSET Int, S # {}, NEW top \in Int, \A x \in S : x <= top
  PROVE  \E x \in S : \A y \in S : y <= x
<1> DEFINE T == {n \in Nat : top - n \in S}
<1>1. T \in SUBSET Nat
  OBVIOUS
<1>2. \A x \in S : top - x \in Nat /\ top - (top - x) = x
  OBVIOUS
<1>3. T # {}
  BY <1>2
<1>4. PICK n \in T : \A m \in T : n <= m
  <2> HIDE DEF T
  <2> QED BY <1>1, <1>3, LeastNatural
<1>5. ASSUME NEW y \in S PROVE y <= top - n
  <2>1. top - y \in T /\ y \in Int /\ n \in Int
    BY <1>2
  <2>2. n <= top - y
    BY <1>4, <2>1
  <2>3. QED
    BY <2>1, <2>2
<1>6. QED
  BY <1>4, <1>5

\* A set of naturals with 0 and every successor is the set of naturals.
LEMMA SetInduction ==
  ASSUME NEW S \in SUBSET Nat, 0 \in S, \A n \in S : n + 1 \in S
  PROVE  S = Nat
<1>1. SUFFICES ASSUME S # Nat PROVE FALSE
  OBVIOUS
<1> DEFINE R == OpToRel(<, Nat)
<1>2. IsWellFoundedOn(R, Nat)
  BY NatLessThanWellFounded
<1>3. \A x, y \in Nat : x < y => <<x, y>> \in R
  BY DEF OpToRel
<1> HIDE DEF R
<1>4. Nat \ S \subseteq Nat /\ Nat \ S # {}
  BY <1>1
<1>5. PICK x \in Nat \ S : \A y \in Nat \ S : ~ (<<y, x>> \in R)
  BY <1>2, <1>4, WFMin
<1>6. x \in Nat /\ x # 0
  OBVIOUS
<1>7. x - 1 \in Nat /\ x - 1 < x
  BY <1>6
<1>8. x - 1 \in S
  BY <1>3, <1>5, <1>6, <1>7
<1>9. x - 1 + 1 = x
  BY <1>6
<1>10. QED
  BY <1>8, <1>9

\* The same up to a bound.
LEMMA UpTo ==
  ASSUME NEW n \in Nat, NEW S, 0 \in S,
         \A k \in 0 .. n - 1 : k \in S => k + 1 \in S
  PROVE  0 .. n \subseteq S
<1> DEFINE T == {k \in Nat : k <= n => k \in S}
<1>1. T \in SUBSET Nat /\ 0 \in T
  OBVIOUS
<1>2. ASSUME NEW k \in T PROVE k + 1 \in T
  OBVIOUS
<1>3. T = Nat
  <2> HIDE DEF T
  <2> QED BY <1>1, <1>2, SetInduction
<1>4. QED
  BY <1>3

\* for each place, the step to it from the value of the place before
Steps(T) == [Nat -> [T -> T]]

Computes(g, T, a, F, n) ==
  /\ g \in [0 .. n -> T]
  /\ g[0] = a
  /\ \A k \in 1 .. n : g[k] = F[k][g[k - 1]]

\* A function may be defined on 0 .. n by its first value and a step.
LEMMA Recursion ==
  ASSUME NEW T, NEW a \in T, NEW F \in Steps(T), NEW n \in Nat
  PROVE  \E g : Computes(g, T, a, F, n)
<1> DEFINE Good(g, m) == /\ g \in [0 .. m -> T]
                         /\ g[0] = a
                         /\ \A k \in 1 .. m : g[k] = F[k][g[k - 1]]
           S == {m \in Nat : \E g \in [0 .. m -> T] : Good(g, m)}
<1>f. F \in [Nat -> [T -> T]]
  BY DEF Steps
<1>1. 0 \in S
  <2>1. Good([k \in 0 .. 0 |-> a], 0)
    OBVIOUS
  <2> HIDE DEF Good
  <2>2. [k \in 0 .. 0 |-> a] \in [0 .. 0 -> T]
    OBVIOUS
  <2>3. QED
    BY <2>1, <2>2
<1>2. ASSUME NEW m \in S PROVE m + 1 \in S
  <2>1. PICK g \in [0 .. m -> T] : Good(g, m)
    OBVIOUS
  <2> DEFINE h == [k \in 0 .. m + 1 |->
                     IF k = m + 1 THEN F[m + 1][g[m]] ELSE g[k]]
  <2>2. m \in Nat /\ g[m] \in T /\ F[m + 1][g[m]] \in T
    BY <1>f
  <2>3. h \in [0 .. m + 1 -> T]
    BY <2>2
  <2>4. h[0] = a /\ h[m + 1] = F[m + 1][h[m]]
    <3>1. h[0] = g[0] /\ h[m] = g[m]
      BY <2>2
    <3>2. h[m + 1] = F[m + 1][g[m]]
      BY <2>2
    <3>3. QED
      BY <2>1, <3>1, <3>2
  <2>5. ASSUME NEW k \in 1 .. m PROVE h[k] = F[k][h[k - 1]]
    <3>1. h[k] = g[k] /\ h[k - 1] = g[k - 1]
      BY <2>2
    <3>2. QED
      BY <2>1, <3>1
  <2>6. \A k \in 1 .. m + 1 : h[k] = F[k][h[k - 1]]
    <3> HIDE DEF h
    <3>1. TAKE k \in 1 .. m + 1
    <3>2. CASE k \in 1 .. m
      BY <2>5, <3>2
    <3>3. CASE k = m + 1
      <4>1. k - 1 = m
        BY <3>3, <2>2
      <4>2. QED
        BY <2>4, <3>3, <4>1
    <3>4. QED
      BY <2>2, <3>2, <3>3
  <2>7. Good(h, m + 1)
    <3> HIDE DEF h
    <3> QED BY <2>3, <2>4, <2>6
  <2> HIDE DEF h, Good
  <2>8. QED
    BY <2>2, <2>3, <2>7
<1>3. S = Nat
  <2>1. S \in SUBSET Nat
    OBVIOUS
  <2> HIDE DEF S
  <2>2. QED
    BY <1>1, <1>2, <2>1, SetInduction
<1>4. QED
  BY <1>3 DEF Computes

-----------------------------------------------------------------------------
(* Powers of two. *)

\* The prover knows of 2^n what the library says: a set of n elements has 2^n
\* subsets.  A subset of 1 .. m + n is one of 1 .. m and one of the rest.
LEMMA PowerOfTwo ==
  /\ \A n \in Nat : 2^n \in Nat \ {0}
  /\ \A m, n \in Nat : 2^(m + n) = 2^m * 2^n
  /\ 2^0 = 1 /\ 2^1 = 2
<1>1. ASSUME NEW n \in Nat PROVE 2^n \in Nat \ {0}
  <2> DEFINE S == SUBSET (1 .. n)
  <2>1. IsFiniteSet(1 .. n) /\ Cardinality(1 .. n) = n
    BY FS_Interval
  <2>2. IsFiniteSet(S) /\ Cardinality(S) = 2^n
    BY <2>1, FS_SUBSET
  <2>3. {} \in S
    OBVIOUS
  <2> HIDE DEF S
  <2>4. Cardinality(S) \in Nat /\ Cardinality(S) # 0
    BY <2>2, <2>3, FS_CardinalityType, FS_EmptySet
  <2> QED BY <2>2, <2>4
<1>2. ASSUME NEW m \in Nat, NEW n \in Nat PROVE 2^(m + n) = 2^m * 2^n
  <2> DEFINE S == SUBSET (1 .. m)
             T == SUBSET (m + 1 .. m + n)
             U == SUBSET (1 .. m + n)
             f == [A \in U |-> <<A \cap (1 .. m), A \cap (m + 1 .. m + n)>>]
  <2>1. /\ IsFiniteSet(S) /\ Cardinality(S) = 2^m
        /\ IsFiniteSet(T) /\ Cardinality(T) = 2^n
        /\ IsFiniteSet(U) /\ Cardinality(U) = 2^(m + n)
    <3>1. IsFiniteSet(1 .. m) /\ Cardinality(1 .. m) = m
      BY FS_Interval
    <3>2. IsFiniteSet(m + 1 .. m + n) /\ Cardinality(m + 1 .. m + n) = n
      BY FS_Interval
    <3>3. IsFiniteSet(1 .. m + n) /\ Cardinality(1 .. m + n) = m + n
      <4>1. PICK k \in Nat : k = m + n
        OBVIOUS
      <4>2. IsFiniteSet(1 .. k) /\ Cardinality(1 .. k) = k
        BY FS_Interval
      <4> QED BY <4>1, <4>2
    <3> QED BY <3>1, <3>2, <3>3, FS_SUBSET
  <2>2. f \in [U -> S \X T]
    OBVIOUS
  <2>3. ASSUME NEW A \in U, NEW B \in U, f[A] = f[B] PROVE A = B
    <3>1. A \cap (1 .. m) = B \cap (1 .. m) /\ A \cap (m + 1 .. m + n) = B \cap (m + 1 .. m + n)
      BY <2>3
    <3>2. \A x \in 1 .. m + n : x \in 1 .. m \/ x \in m + 1 .. m + n
      OBVIOUS
    <3>3. A \subseteq 1 .. m + n /\ B \subseteq 1 .. m + n
      OBVIOUS
    <3>4. ASSUME NEW x PROVE x \in A <=> x \in B
      BY <3>1, <3>2, <3>3
    <3> QED BY <3>4
  <2>4. ASSUME NEW q \in S \X T PROVE \E A \in U : f[A] = q
    <3>1. PICK B \in S, C \in T : q = <<B, C>>
      OBVIOUS
    <3>2. \A x \in 1 .. m : x \in 1 .. m + n /\ x \notin m + 1 .. m + n
      OBVIOUS
    <3>3. \A x \in m + 1 .. m + n : x \in 1 .. m + n /\ x \notin 1 .. m
      OBVIOUS
    <3>4. B \cup C \in U /\ (B \cup C) \cap (1 .. m) = B /\ (B \cup C) \cap (m + 1 .. m + n) = C
      BY <3>2, <3>3
    <3>5. f[B \cup C] = <<B, C>>
      BY <3>4
    <3> QED BY <3>1, <3>4, <3>5
  <2>5. ExistsBijection(U, S \X T)
    <3> HIDE DEF f, U, S, T
    <3>1. f \in Bijection(U, S \X T)
      BY <2>2, <2>3, <2>4 DEF Bijection, Injection, IsInjective, Surjection
    <3> QED BY <3>1 DEF ExistsBijection
  <2>6. Cardinality(S \X T) = Cardinality(U)
    <3> HIDE DEF f, U, S, T
    <3> QED BY <2>1, <2>5, FS_Bijection
  <2>7. Cardinality(S \X T) = Cardinality(S) * Cardinality(T)
    <3> HIDE DEF f, U, S, T
    <3> QED BY <2>1, FS_Product
  <2> HIDE DEF f, U, S, T
  <2> QED BY <2>1, <2>6, <2>7
<1>3. 2^0 = 1 /\ 2^1 = 2
  OBVIOUS
<1> QED
  BY <1>1, <1>2, <1>3

-----------------------------------------------------------------------------
(* Remainders of integers. *)

LEMMA Quotients ==
  ASSUME NEW m \in Nat \ {0}, NEW x \in Int
  PROVE  /\ x \div m \in Int /\ x % m \in 0 .. m - 1
         /\ x = (x % m) + (x \div m) * m
OBVIOUS

\* There is one remainder only.
LEMMA OneRemainder ==
  ASSUME NEW m \in Nat \ {0}, NEW r \in 0 .. m - 1, NEW s \in 0 .. m - 1,
         NEW q \in Int, NEW p \in Int, r + q * m = s + p * m
  PROVE  r = s
<1> DEFINE d == q - p
<1>1. d \in Int /\ s - r = d * m
  <2>1. (q - p) * m = q * m - p * m /\ q * m \in Int /\ p * m \in Int
    OBVIOUS
  <2> QED BY <2>1
<1> HIDE DEF d
<1>2. CASE d >= 1
  <2>1. d * m >= m
    BY <1>1, <1>2
  <2> QED BY <1>1, <2>1
<1>3. CASE d <= -1
  <2>1. d * m <= -m
    BY <1>1, <1>3
  <2> QED BY <1>1, <2>1
<1> QED BY <1>1, <1>2, <1>3

\* Numbers have the same remainder just when they differ by a multiple.
LEMMA SameRemainder ==
  ASSUME NEW m \in Nat \ {0}, NEW x \in Int, NEW y \in Int
  PROVE  x % m = y % m <=> \E q \in Int : x = y + q * m
<1>1. /\ x \div m \in Int /\ x % m \in 0 .. m - 1 /\ x = (x % m) + (x \div m) * m
      /\ y \div m \in Int /\ y % m \in 0 .. m - 1 /\ y = (y % m) + (y \div m) * m
  BY Quotients
<1> DEFINE r == x % m
           s == y % m
           a == x \div m
           b == y \div m
<1>2. /\ a \in Int /\ r \in 0 .. m - 1 /\ x = r + a * m
      /\ b \in Int /\ s \in 0 .. m - 1 /\ y = s + b * m
  BY <1>1
<1>3. r = s <=> \E q \in Int : x = y + q * m
  <2> HIDE DEF r, s, a, b
  <2>1. ASSUME r = s PROVE x = y + (a - b) * m
    <3>1. (a - b) * m = a * m - b * m /\ a * m \in Int /\ b * m \in Int
      BY <1>2
    <3> QED BY <1>2, <2>1, <3>1
  <2>2. ASSUME NEW q \in Int, x = y + q * m PROVE r = s
    <3>1. (q + b) * m = q * m + b * m /\ q * m \in Int /\ b * m \in Int /\ q + b \in Int
      BY <1>2
    <3>2. r + a * m = s + (q + b) * m
      BY <1>2, <2>2, <3>1
    <3> QED BY <1>2, <3>1, <3>2, OneRemainder
  <2>3. a - b \in Int
    BY <1>2
  <2> QED BY <2>1, <2>2, <2>3
<1> QED BY <1>3

\* Remainders may be taken of summands and of factors.
LEMMA RemainderOfSum ==
  ASSUME NEW m \in Nat \ {0}, NEW x \in Int, NEW y \in Int
  PROVE  ((x % m) + y) % m = (x + y) % m
<1>1. x \div m \in Int /\ x % m \in Int /\ x = (x % m) + (x \div m) * m
  BY Quotients
<1> DEFINE r == x % m
           q == x \div m
<1>2. r \in Int /\ q \in Int /\ x = r + q * m
  BY <1>1
<1>3. (r + y) % m = (x + y) % m
  <2> HIDE DEF r, q
  <2>1. q * m \in Int
    BY <1>2
  <2>2. PICK u \in Int : u = x + y
    OBVIOUS
  <2>3. PICK w \in Int : w = r + y
    BY <1>2
  <2>4. u = w + q * m
    BY <1>2, <2>1, <2>2, <2>3
  <2>5. w % m = u % m
    BY <1>2, <2>4, SameRemainder
  <2> QED BY <2>2, <2>3, <2>5
<1> QED BY <1>3

LEMMA RemainderOfProduct ==
  ASSUME NEW m \in Nat \ {0}, NEW x \in Int, NEW y \in Int
  PROVE  ((x % m) * y) % m = (x * y) % m
<1>1. x \div m \in Int /\ x % m \in Int /\ x = (x % m) + (x \div m) * m
  BY Quotients
<1> DEFINE r == x % m
           q == x \div m
<1>2. r \in Int /\ q \in Int /\ x = r + q * m
  BY <1>1
<1>3. (r * y) % m = (x * y) % m
  <2> HIDE DEF r, q
  <2>1. x * y = r * y + (q * y) * m
    <3>1. (r + q * m) * y = r * y + (q * y) * m
      BY <1>2
    <3>2. x * y = (r + q * m) * y
      BY <1>2, Zenon
    <3> QED BY <3>1, <3>2, Zenon
  <2>2. x * y \in Int /\ r * y \in Int /\ q * y \in Int
    BY <1>2
  <2>3. PICK u \in Int, w \in Int, p \in Int : u = x * y /\ w = r * y /\ p = q * y
    BY <2>2
  <2>4. w % m = u % m
    <3>1. u = w + p * m
      BY <2>1, <2>3, Zenon
    <3> QED BY <3>1, SameRemainder
  <2> QED BY <2>3, <2>4, Zenon
<1> QED BY <1>3

-----------------------------------------------------------------------------
(* The recursive functions of IvArith are what their equations say. *)

LEMMA WeightFacts ==
  ASSUME NEW r \in Nat, NEW n \in Nat
  PROVE  /\ Weight(r, n) \in [0 .. n -> Nat]
         /\ Weight(r, n)[0] = 1
         /\ \A k \in 1 .. n : Weight(r, n)[k] = Weight(r, n)[k - 1] * r
<1> DEFINE F == [k \in Nat |-> [x \in Nat |-> x * r]]
           Body(w) == [k \in 0 .. n |-> IF k = 0 THEN 1 ELSE w[k - 1] * r]
<1>1. \E g : g = Body(g)
  <2> DEFINE T == Nat
             a == 1
  <2>1. F \in Steps(T) /\ a \in T
    BY DEF Steps
  <2>p. PICK g : Computes(g, T, a, F, n)
    <3> HIDE DEF F, T, a
    <3> QED BY <2>1, Recursion
  <2>2. /\ g \in [0 .. n -> T]
        /\ g[0] = a
        /\ \A k \in 1 .. n : g[k] = F[k][g[k - 1]]
    <3> HIDE DEF F, T, a
    <3> QED BY <2>p DEF Computes
  <2>3. \A k \in 1 .. n : g[k] = g[k - 1] * r
    <3>1. TAKE k \in 1 .. n
    <3>2. k \in Nat /\ k - 1 \in 0 .. n
      OBVIOUS
    <3>3. g[k - 1] \in Nat
      BY <2>2, <3>2
    <3>4. F[k][g[k - 1]] = g[k - 1] * r
      BY <3>2, <3>3
    <3>5. QED
      BY <2>2, <3>4
  <2>4. g = Body(g)
    <3>1. \A k \in 0 .. n : k = 0 \/ k \in 1 .. n
      OBVIOUS
    <3>2. QED
      BY <2>2, <2>3, <3>1
  <2>5. QED
    BY <2>4
<1>2. Weight(r, n) = Body(Weight(r, n))
  <2>1. Weight(r, n) = CHOOSE w : w = Body(w)
    BY DEF Weight
  <2> HIDE DEF Body
  <2>2. QED
    BY <1>1, <2>1
<1> DEFINE w == Weight(r, n)
           S == {k \in 0 .. n : w[k] \in Nat}
<1> HIDE DEF w
<1>3. /\ w = [k \in 0 .. n |-> w[k]]
      /\ w[0] = 1
      /\ \A k \in 1 .. n : w[k] = w[k - 1] * r
  BY <1>2 DEF w
<1>4. 0 \in S
  BY <1>3
<1>5. ASSUME NEW k \in 0 .. n - 1, k \in S PROVE k + 1 \in S
  <2>1. k + 1 \in 1 .. n /\ (k + 1) - 1 = k
    OBVIOUS
  <2>2. w[k + 1] = w[k] * r
    BY <1>3, <2>1
  <2>3. QED
    BY <1>5, <2>1, <2>2
<1>6. 0 .. n \subseteq S
  <2> HIDE DEF S
  <2> QED BY <1>4, <1>5, UpTo
<1>7. QED
  BY <1>3, <1>6 DEF w

LEMMA LowFacts ==
  ASSUME NEW r \in Nat, NEW n \in Nat, NEW d \in [0 .. n - 1 -> Nat]
  PROVE  /\ Low(d, r, n) \in [0 .. n -> Nat]
         /\ Low(d, r, n)[0] = 0
         /\ \A k \in 1 .. n : Low(d, r, n)[k] =
              Low(d, r, n)[k - 1] + d[k - 1] * Weight(r, n)[k - 1]
<1> DEFINE W == Weight(r, n)
<1>w. W \in [0 .. n -> Nat]
  BY WeightFacts
<1> HIDE DEF W
<1> DEFINE D == [k \in Nat |-> IF k \in 1 .. n THEN d[k - 1] * W[k - 1] ELSE 0]
           F == [k \in Nat |-> [x \in Nat |-> x + D[k]]]
           Body(v) == [k \in 0 .. n |->
                         IF k = 0 THEN 0 ELSE v[k - 1] + d[k - 1] * W[k - 1]]
<1>d. \A k \in 1 .. n : D[k] = d[k - 1] * W[k - 1] /\ d[k - 1] * W[k - 1] \in Nat
  <2>1. TAKE k \in 1 .. n
  <2>2. k \in Nat /\ k - 1 \in 0 .. n - 1 /\ k - 1 \in 0 .. n
    OBVIOUS
  <2>3. d[k - 1] \in Nat /\ W[k - 1] \in Nat
    BY <2>2, <1>w
  <2>4. QED
    BY <2>2, <2>3
<1>D. D \in [Nat -> Nat]
  <2>1. \A k \in Nat : (IF k \in 1 .. n THEN d[k - 1] * W[k - 1] ELSE 0) \in Nat
    BY <1>d
  <2>2. QED
    BY <2>1
<1> HIDE DEF D
<1>1. \E v : v = Body(v)
  <2> DEFINE T == Nat
             a == 0
  <2>1. F \in Steps(T) /\ a \in T
    BY <1>D DEF Steps
  <2>p. PICK g : Computes(g, T, a, F, n)
    <3> HIDE DEF F, T, a, Body
    <3> QED BY <2>1, Recursion
  <2>2. /\ g \in [0 .. n -> T]
        /\ g[0] = a
        /\ \A k \in 1 .. n : g[k] = F[k][g[k - 1]]
    <3> HIDE DEF F, T, a
    <3> QED BY <2>p DEF Computes
  <2>3. \A k \in 1 .. n : g[k] = g[k - 1] + d[k - 1] * W[k - 1]
    <3>1. TAKE k \in 1 .. n
    <3>2. k \in Nat /\ k - 1 \in 0 .. n
      OBVIOUS
    <3>3. g[k - 1] \in Nat
      BY <2>2, <3>2
    <3>4. F[k][g[k - 1]] = g[k - 1] + D[k]
      BY <3>2, <3>3
    <3>5. QED
      BY <2>2, <3>4, <1>d
  <2>4. g = Body(g)
    <3>1. \A k \in 0 .. n : k = 0 \/ k \in 1 .. n
      OBVIOUS
    <3>2. QED
      BY <2>2, <2>3, <3>1
  <2>5. QED
    BY <2>4
<1> DEFINE v == Low(d, r, n)
           S == {k \in 0 .. n : v[k] \in Nat}
<1>2. v = Body(v)
  <2>1. Low(d, r, n) = CHOOSE u : u = Body(u)
    BY DEF Low, W
  <2> HIDE DEF Body
  <2>2. QED
    BY <1>1, <2>1
<1> HIDE DEF v
<1>3. /\ v = [k \in 0 .. n |-> v[k]]
      /\ v[0] = 0
      /\ \A k \in 1 .. n : v[k] = v[k - 1] + d[k - 1] * W[k - 1]
  <2>1. \A k \in 0 .. n :
          v[k] = IF k = 0 THEN 0 ELSE v[k - 1] + d[k - 1] * W[k - 1]
    BY <1>2
  <2>2. v = [k \in 0 .. n |-> v[k]]
    BY <1>2
  <2> HIDE DEF Body, F, S
  <2>3. \A k \in 1 .. n : v[k] = v[k - 1] + d[k - 1] * W[k - 1]
    <3>1. TAKE k \in 1 .. n
    <3>2. k \in 0 .. n /\ k # 0
      OBVIOUS
    <3>3. QED
      BY ONLY <2>1, <3>2, Zenon
  <2>4. v[0] = 0
    <3>1. 0 \in 0 .. n
      OBVIOUS
    <3>2. QED
      BY ONLY <2>1, <3>1, Zenon
  <2>5. QED
    BY ONLY <2>2, <2>3, <2>4, Zenon
<1>4. 0 \in S
  BY <1>3
<1>5. ASSUME NEW k \in 0 .. n - 1, k \in S PROVE k + 1 \in S
  <2>1. k + 1 \in 1 .. n /\ (k + 1) - 1 = k
    OBVIOUS
  <2>2. v[k + 1] = v[k] + d[k] * W[k] /\ d[k] * W[k] \in Nat
    BY <1>3, <1>d, <2>1
  <2>3. QED
    BY <1>5, <2>1, <2>2
<1>6. 0 .. n \subseteq S
  <2> HIDE DEF S
  <2> QED BY <1>4, <1>5, UpTo
<1>7. QED
  BY <1>3, <1>6 DEF v, W

LoopStates == [rest : Nat, carry : {0, 1}]

LEMMA LoopFacts ==
  ASSUME NEW r \in Nat \ {0}, NEW n \in Nat, NEW d \in Digits(r, n),
         NEW num \in Nat
  PROVE  /\ LoopState(d, num, r, n) \in [0 .. n -> LoopStates]
         /\ LoopState(d, num, r, n)[0] = [rest |-> num, carry |-> 0]
         /\ \A k \in 1 .. n :
              LET s == LoopState(d, num, r, n)
              IN  /\ s[k].rest = s[k - 1].rest \div r
                  /\ s[k].carry =
                       IF Sum(d[k - 1], s[k - 1], r) < d[k - 1] THEN 1 ELSE 0
<1> DEFINE Step(s, k) ==
             [rest  |-> s.rest \div r,
              carry |-> IF Sum(d[k - 1], s, r) < d[k - 1] THEN 1 ELSE 0]
           F == [k \in Nat |-> [s \in LoopStates |-> Step(s, k)]]
           Body(s) == [k \in 0 .. n |-> IF k = 0 THEN [rest |-> num, carry |-> 0]
                                                 ELSE Step(s[k - 1], k)]
<1>s. \A s \in LoopStates, k \in Nat : Step(s, k) \in LoopStates
  <2>1. \A x \in Nat : x \div r \in Nat
    OBVIOUS
  <2>2. QED
    BY <2>1 DEF LoopStates
<1>1. \E s : s = Body(s)
  <2> DEFINE T == LoopStates
             a == [rest |-> num, carry |-> 0]
  <2>1. F \in Steps(T) /\ a \in T
    <3>1. a \in T
      BY DEF LoopStates
    <3> HIDE DEF Step
    <3>2. QED
      BY <1>s, <3>1 DEF Steps
  <2>p. PICK g : Computes(g, T, a, F, n)
    <3> HIDE DEF F, T, a, Body, Step
    <3> QED BY <2>1, Recursion
  <2>2. /\ g \in [0 .. n -> T]
        /\ g[0] = a
        /\ \A k \in 1 .. n : g[k] = F[k][g[k - 1]]
    <3> HIDE DEF F, T, a
    <3> QED BY <2>p DEF Computes
  <2>3. \A k \in 1 .. n : g[k] = Step(g[k - 1], k)
    <3> HIDE DEF Step
    <3>1. TAKE k \in 1 .. n
    <3>2. k \in Nat /\ k - 1 \in 0 .. n
      OBVIOUS
    <3>3. g[k - 1] \in LoopStates
      BY <2>2, <3>2
    <3>4. F[k][g[k - 1]] = Step(g[k - 1], k)
      BY <3>2, <3>3
    <3>5. QED
      BY <2>2, <3>4
  <2>4. g = Body(g)
    <3> HIDE DEF Step
    <3>1. \A k \in 0 .. n : k = 0 \/ k \in 1 .. n
      OBVIOUS
    <3>2. QED
      BY <2>2, <2>3, <3>1
  <2>5. QED
    BY <2>4
<1> DEFINE s == LoopState(d, num, r, n)
           S == {k \in 0 .. n : s[k] \in LoopStates}
<1>2. s = Body(s)
  <2>1. LoopState(d, num, r, n) = CHOOSE u : u = Body(u)
    BY DEF LoopState
  <2> HIDE DEF Body
  <2>2. QED
    BY <1>1, <2>1
<1> HIDE DEF s
<1>3. /\ s = [k \in 0 .. n |-> s[k]]
      /\ s[0] = [rest |-> num, carry |-> 0]
      /\ \A k \in 1 .. n : s[k] = Step(s[k - 1], k)
  <2> HIDE DEF Step
  <2> QED BY <1>2
<1>4. 0 \in S
  BY <1>3 DEF LoopStates
<1>5. ASSUME NEW k \in 0 .. n - 1, k \in S PROVE k + 1 \in S
  <2>1. k + 1 \in 1 .. n /\ (k + 1) - 1 = k /\ k + 1 \in 0 .. n /\ k + 1 \in Nat
    OBVIOUS
  <2> HIDE DEF Step
  <2>2. s[k + 1] = Step(s[k], k + 1)
    BY <1>3, <2>1
  <2>3. QED
    BY <1>5, <1>s, <2>1, <2>2
<1>6. 0 .. n \subseteq S
  <2> HIDE DEF S
  <2> QED BY <1>4, <1>5, UpTo
<1>7. s \in [0 .. n -> LoopStates]
  BY <1>3, <1>6
<1>8. \A k \in 1 .. n :
        /\ s[k].rest = s[k - 1].rest \div r
        /\ s[k].carry = IF Sum(d[k - 1], s[k - 1], r) < d[k - 1] THEN 1 ELSE 0
  <2>1. TAKE k \in 1 .. n
  <2> HIDE DEF S, F, Body
  <2>2. s[k] = Step(s[k - 1], k)
    BY <1>3
  <2> DEFINE x == IF Sum(d[k - 1], s[k - 1], r) < d[k - 1] THEN 1 ELSE 0
  <2>3. s[k] = [rest |-> s[k - 1].rest \div r, carry |-> x]
    BY <2>2
  <2> HIDE DEF x
  <2>4. s[k].rest = s[k - 1].rest \div r /\ s[k].carry = x
    BY <2>3
  <2>5. QED
    BY <2>4 DEF x
<1>9. QED
  BY <1>3, <1>7, <1>8 DEF s

-----------------------------------------------------------------------------
(* Values. *)

\* The weights are positive.
LEMMA WeightPositive ==
  ASSUME NEW r \in Nat \ {0}, NEW n \in Nat
  PROVE  \A k \in 0 .. n : Weight(r, n)[k] \in Nat \ {0}
<1> DEFINE w == Weight(r, n)
           S == {k \in 0 .. n : w[k] \in Nat \ {0}}
<1>1. /\ w \in [0 .. n -> Nat]
      /\ w[0] = 1
      /\ \A k \in 1 .. n : w[k] = w[k - 1] * r
  BY WeightFacts
<1> HIDE DEF w
<1>2. 0 \in S
  BY <1>1
<1>3. ASSUME NEW k \in 0 .. n - 1, k \in S PROVE k + 1 \in S
  <2>1. k + 1 \in 1 .. n /\ (k + 1) - 1 = k
    OBVIOUS
  <2>2. w[k + 1] = w[k] * r
    BY <1>1, <2>1
  <2>3. \A x, y \in Nat \ {0} : x * y \in Nat \ {0}
    OBVIOUS
  <2>4. QED
    BY <1>3, <2>1, <2>2, <2>3
<1>4. 0 .. n \subseteq S
  <2> HIDE DEF S
  <2> QED BY <1>2, <1>3, UpTo
<1>5. QED
  BY <1>4 DEF w

LEMMA DigitsAreNaturals ==
  ASSUME NEW r \in Nat \ {0}, NEW n \in Nat, NEW d \in Digits(r, n)
  PROVE  d \in [0 .. n - 1 -> Nat]
BY DEF Digits

\* A place of the product: digit, weight and the radix.
LEMMA PlaceBound ==
  ASSUME NEW r \in Nat, NEW w \in Nat, NEW x \in Nat, NEW low \in Nat,
         x <= r - 1, low < w
  PROVE  low + x * w < w * r
<1>1. x * w <= (r - 1) * w
  OBVIOUS
<1>2. (r - 1) * w = w * r - w
  OBVIOUS
<1>3. x * w \in Int /\ w * r \in Int
  OBVIOUS
<1>4. QED
  BY <1>1, <1>2, <1>3

\* k digits count less than the weight of the next one.
LEMMA LowBound ==
  ASSUME NEW r \in Nat \ {0}, NEW n \in Nat, NEW d \in Digits(r, n)
  PROVE  \A k \in 0 .. n : /\ Low(d, r, n)[k] \in Nat
                           /\ Low(d, r, n)[k] < Weight(r, n)[k]
<1> DEFINE w == Weight(r, n)
           v == Low(d, r, n)
           S == {k \in 0 .. n : v[k] < w[k]}
<1>1. /\ w \in [0 .. n -> Nat]
      /\ w[0] = 1
      /\ \A k \in 1 .. n : w[k] = w[k - 1] * r
  BY WeightFacts
<1>2. /\ v \in [0 .. n -> Nat]
      /\ v[0] = 0
      /\ \A k \in 1 .. n : v[k] = v[k - 1] + d[k - 1] * w[k - 1]
  BY LowFacts, DigitsAreNaturals
<1> HIDE DEF w, v
<1>3. 0 \in S
  BY <1>1, <1>2
<1>4. ASSUME NEW k \in 0 .. n - 1, k \in S PROVE k + 1 \in S
  <2>1. k + 1 \in 1 .. n /\ (k + 1) - 1 = k /\ k \in 0 .. n
    OBVIOUS
  <2>2. w[k + 1] = w[k] * r /\ v[k + 1] = v[k] + d[k] * w[k]
    BY <1>1, <1>2, <2>1
  <2>3. w[k] \in Nat /\ v[k] \in Nat /\ d[k] \in Nat /\ d[k] <= r - 1
    BY <1>1, <1>2, <2>1 DEF Digits
  <2>4. v[k] < w[k]
    BY <1>4
  <2>5. v[k] + d[k] * w[k] < w[k] * r
    BY <2>3, <2>4, PlaceBound
  <2>6. QED
    BY <2>1, <2>2, <2>5
<1>5. 0 .. n \subseteq S
  <2> HIDE DEF S
  <2> QED BY <1>3, <1>4, UpTo
<1>6. QED
  BY <1>2, <1>5 DEF v, w

\* What a sum of values leaves when the multiples of m are taken away.
LEMMA Remainder ==
  ASSUME NEW m \in Nat \ {0}, NEW x \in Nat, NEW q \in Nat, x < m
  PROVE  (x + q * m) % m = x
<1>1. q * m \in Nat
  OBVIOUS
<1>2. (x + q * m) = m * ((x + q * m) \div m) + ((x + q * m) % m)
  BY <1>1
<1>3. (x + q * m) % m \in 0 .. m - 1 /\ (x + q * m) \div m \in Int
  BY <1>1
<1> DEFINE p == (x + q * m) \div m
           y == (x + q * m) % m
<1>4. p \in Int /\ y \in 0 .. m - 1 /\ x + q * m = m * p + y
  BY <1>2, <1>3
<1> HIDE DEF p, y
<1>5. x - y = m * (p - q)
  <2>1. m * (p - q) = m * p - q * m
    BY <1>4
  <2>2. m * p \in Int
    BY <1>4
  <2>3. QED
    BY <1>1, <1>4, <2>1, <2>2
<1>6. p - q = 0
  <2>1. CASE p - q >= 1
    <3>1. m * (p - q) >= m
      BY <1>4, <2>1
    <3>2. QED
      BY <1>4, <1>5, <3>1
  <2>2. CASE p - q <= -1
    <3>1. m * (p - q) <= -m
      BY <1>4, <2>2
    <3>2. QED
      BY <1>4, <1>5, <3>1
  <2>3. QED
    BY <1>4, <2>1, <2>2
<1>7. x = y
  BY <1>4, <1>5, <1>6
<1>8. QED
  BY <1>7 DEF y

LEMMA Division ==
  ASSUME NEW m \in Nat \ {0}, NEW x \in Nat
  PROVE  /\ x \div m \in Nat
         /\ x % m \in 0 .. m - 1
         /\ x = (x % m) + (x \div m) * m
OBVIOUS

\* Multiples of m go into the quotient.
LEMMA DivShift ==
  ASSUME NEW m \in Nat \ {0}, NEW q \in Nat, NEW y \in Nat
  PROVE  /\ (q * m + y) % m = y % m
         /\ (q * m + y) \div m = q + (y \div m)
<1> DEFINE p == y \div m
           z == y % m
           x == q * m + y
<1>1. p \in Nat /\ z \in 0 .. m - 1 /\ y = z + p * m
  BY Division
<1> HIDE DEF p, z
<1>2. x = z + (q + p) * m /\ q * m \in Nat
  <2>1. (q + p) * m = q * m + p * m /\ p * m \in Nat /\ q * m \in Nat
    BY <1>1
  <2>2. QED
    BY <1>1, <2>1
<1>3. x % m = z
  <2>1. z \in Nat /\ z < m /\ q + p \in Nat
    BY <1>1
  <2>2. (z + (q + p) * m) % m = z
    BY <2>1, Remainder
  <2>3. QED
    BY <1>2, <2>2
<1>4. x \div m = q + p
  <2>1. x \in Nat
    BY <1>2
  <2> DEFINE k == x \div m
  <2>2. k \in Nat /\ x = (x % m) + k * m
    BY <2>1, Division
  <2> HIDE DEF x, k
  <2>3. k * m = (q + p) * m
    <3>1. k * m \in Int /\ (q + p) * m \in Int
      BY <1>1, <2>2
    <3>2. QED
      BY <1>1, <1>2, <1>3, <2>2, <3>1
  <2>4. (k - (q + p)) * m = 0
    BY <1>1, <2>2, <2>3
  <2>5. k = q + p
    BY <1>1, <2>2, <2>4
  <2>6. QED
    BY <2>5 DEF k
<1>5. QED
  BY <1>3, <1>4 DEF p, z

-----------------------------------------------------------------------------
(* addIvOpenssl and addIvCipher. *)

\* One digit: the carry is what the sum overflowed by, unless the digit added
\* is the highest and a carry comes in, when the code sees no overflow.
LEMMA DigitSum ==
  ASSUME NEW r \in Nat \ {0}, NEW low \in 0 .. r - 1, NEW s \in LoopStates,
         (s.rest % r) + s.carry < r
  PROVE  /\ Sum(low, s, r) \in 0 .. r - 1
         /\ Sum(low, s, r) + (IF Sum(low, s, r) < low THEN 1 ELSE 0) * r
              = low + (s.rest % r) + s.carry
<1> DEFINE x == s.rest % r
           c == s.carry
           t == low + x + c
<1>1. x \in 0 .. r - 1 /\ c \in {0, 1} /\ x + c < r
  BY DEF LoopStates
<1>2. Sum(low, s, r) = t % r
  BY DEF Sum
<1> HIDE DEF x, c
<1>3. CASE t < r
  <2>1. t % r = t
    BY <1>1, <1>3
  <2> HIDE DEF t
  <2>2. ~ (Sum(low, s, r) < low) /\ Sum(low, s, r) = t /\ t \in 0 .. r - 1
    BY <1>1, <1>2, <1>3, <2>1 DEF t
  <2>3. QED
    BY <2>2 DEF t, x, c
<1>4. CASE t >= r
  <2>1. t % r = t - r
    BY <1>1, <1>4
  <2> HIDE DEF t
  <2>2. Sum(low, s, r) < low /\ Sum(low, s, r) = t - r /\ t - r \in 0 .. r - 1
    BY <1>1, <1>2, <1>4, <2>1 DEF t
  <2>3. t \in Int /\ (t - r) + 1 * r = t
    BY <1>1 DEF t
  <2>4. QED
    BY <2>2, <2>3 DEF t, x, c
<1>5. QED
  BY <1>1, <1>3, <1>4

\* One place of the sum, as numbers: the new digit e and carry c1 against the
\* old digit d, the part x and rest q of the number, and the old carry c.
LEMMA PlaceSum ==
  ASSUME NEW r \in Nat, NEW w \in Nat, NEW d \in Nat, NEW e \in Nat,
         NEW x \in Nat, NEW q \in Nat, NEW c \in Nat, NEW c1 \in Nat,
         e + c1 * r = d + x + c
  PROVE  e * w + (c1 + q) * (w * r) = d * w + (c + (q * r + x)) * w
<1>1. e * w + (c1 + q) * (w * r) = (e + c1 * r) * w + q * r * w
  OBVIOUS
<1>2. d * w + (c + (q * r + x)) * w = (d + x + c) * w + q * r * w
  OBVIOUS
<1>3. QED
  BY <1>1, <1>2

\* A carry never meets the highest digit in less than r * (r - 1).
LEMMA NoLostCarry ==
  ASSUME NEW r \in Nat \ {0, 1}, NEW n \in Nat, NEW d \in Digits(r, n),
         NEW num \in Nat, num < r * (r - 1)
  PROVE  \A k \in 0 .. n : LET s == LoopState(d, num, r, n)[k]
                           IN  (s.rest % r) + s.carry < r
<1> DEFINE s == LoopState(d, num, r, n)
           S == {k \in 0 .. n : \/ k = 0
                                \/ k = 1 /\ s[k].rest < r - 1
                                \/ k >= 2 /\ s[k].rest = 0}
<1>1. /\ s \in [0 .. n -> LoopStates]
      /\ s[0] = [rest |-> num, carry |-> 0]
      /\ \A k \in 1 .. n : s[k].rest = s[k - 1].rest \div r
  BY LoopFacts
<1> HIDE DEF s
<1>2. 0 \in S
  OBVIOUS
<1>3. ASSUME NEW k \in 0 .. n - 1, k \in S PROVE k + 1 \in S
  <2>1. k + 1 \in 1 .. n /\ (k + 1) - 1 = k /\ k \in 0 .. n /\ k + 1 \in 0 .. n
    OBVIOUS
  <2>2. s[k + 1].rest = s[k].rest \div r
    BY <1>1, <2>1
  <2>3. CASE k = 0
    <3>1. s[k].rest = num
      BY <1>1, <2>3
    <3>2. num \div r < r - 1
      <4>1. num = r * (num \div r) + (num % r) /\ num % r >= 0
        OBVIOUS
      <4>2. num \div r \in Nat
        OBVIOUS
      <4>3. CASE num \div r >= r - 1
        <5>1. r * (num \div r) >= r * (r - 1)
          BY <4>2, <4>3
        <5>2. r * (num \div r) \in Int /\ r * (r - 1) \in Int
          BY <4>2
        <5>3. QED
          BY <4>1, <5>1, <5>2
      <4>4. QED
        BY <4>2, <4>3
    <3>3. QED
      BY <2>1, <2>2, <2>3, <3>1, <3>2
  <2>4. CASE k = 1
    <3>1. s[k].rest < r - 1 /\ s[k].rest \in Nat
      BY <1>1, <1>3, <2>1, <2>4 DEF LoopStates
    <3>2. s[k].rest \div r = 0
      BY <3>1
    <3>3. QED
      BY <2>1, <2>2, <2>4, <3>2
  <2>5. CASE k >= 2
    <3>1. s[k].rest = 0
      BY <1>3, <2>5
    <3>2. QED
      BY <2>1, <2>2, <2>5, <3>1
  <2>6. QED
    BY <2>3, <2>4, <2>5
<1>4. 0 .. n \subseteq S
  <2> HIDE DEF S
  <2> QED BY <1>2, <1>3, UpTo
<1>5. ASSUME NEW k \in 0 .. n PROVE (s[k].rest % r) + s[k].carry < r
  <2>1. s[k].rest \in Nat /\ s[k].carry \in {0, 1}
    BY <1>1 DEF LoopStates
  <2>2. k \in S
    BY <1>4
  <2>3. CASE k = 0
    <3>1. s[k].carry = 0
      BY <1>1, <2>3
    <3>2. QED
      BY <2>1, <3>1
  <2>4. CASE k # 0
    <3>1. s[k].rest < r - 1
      BY <2>2, <2>4
    <3>2. s[k].rest % r = s[k].rest
      <4>1. \A z \in Nat : z < r => z % r = z
        OBVIOUS
      <4>2. s[k].rest < r
        BY <2>1, <3>1
      <4>3. QED
        BY <2>1, <4>1, <4>2
    <3>3. QED
      BY <2>1, <3>1, <3>2
  <2>5. QED
    BY <2>3, <2>4
<1>6. QED
  BY <1>5 DEF s

\* Adding to the digits adds to the value, modulo the weight of the digits:
\* the two loops of addIvCipher, for numbers less than r * (r - 1).
THEOREM AddCorrect ==
  ASSUME NEW r \in Nat \ {0, 1}, NEW n \in Nat, NEW d \in Digits(r, n),
         NEW num \in Nat, num < r * (r - 1)
  PROVE  /\ Add(d, num, r, n) \in Digits(r, n)
         /\ Value(Add(d, num, r, n), r, n)
              = (Value(d, r, n) + num) % Weight(r, n)[n]
<1> DEFINE e == Add(d, num, r, n)
           s == LoopState(d, num, r, n)
           w == Weight(r, n)
           u == Low(d, r, n)
           v == Low(e, r, n)
           rest(k) == s[k].rest
           carry(k) == s[k].carry
           S == {k \in 0 .. n : v[k] + (carry(k) + rest(k)) * w[k] = u[k] + num}
<1>1. /\ s \in [0 .. n -> LoopStates]
      /\ s[0] = [rest |-> num, carry |-> 0]
      /\ \A k \in 1 .. n :
           /\ s[k].rest = s[k - 1].rest \div r
           /\ s[k].carry = IF Sum(d[k - 1], s[k - 1], r) < d[k - 1] THEN 1 ELSE 0
  BY LoopFacts
<1>2. /\ w \in [0 .. n -> Nat]
      /\ w[0] = 1
      /\ \A k \in 1 .. n : w[k] = w[k - 1] * r
  BY WeightFacts
<1>3. \A k \in 0 .. n - 1 : e[k] = Sum(d[k], s[k], r)
  BY DEF Add
<1>4. ASSUME NEW k \in 0 .. n - 1
      PROVE  /\ e[k] \in 0 .. r - 1
             /\ e[k] + carry(k + 1) * r = d[k] + (rest(k) % r) + carry(k)
  <2>1. k \in 0 .. n /\ k + 1 \in 1 .. n /\ (k + 1) - 1 = k
    OBVIOUS
  <2>2. d[k] \in 0 .. r - 1
    BY DEF Digits
  <2>3. (s[k].rest % r) + s[k].carry < r
    BY <2>1, NoLostCarry
  <2>4. s[k + 1].carry = IF Sum(d[k], s[k], r) < d[k] THEN 1 ELSE 0
    BY <1>1, <2>1
  <2>5. e[k] = Sum(d[k], s[k], r)
    BY <1>3
  <2>6. s[k] \in LoopStates
    BY <1>1, <2>1
  <2> HIDE DEF e, s
  <2>7. /\ Sum(d[k], s[k], r) \in 0 .. r - 1
        /\ Sum(d[k], s[k], r) + (IF Sum(d[k], s[k], r) < d[k] THEN 1 ELSE 0) * r
             = d[k] + (s[k].rest % r) + s[k].carry
    BY <2>2, <2>3, <2>6, DigitSum
  <2>8. QED
    BY <2>4, <2>5, <2>7
<1>5. e \in Digits(r, n)
  <2>1. e = [k \in 0 .. n - 1 |-> e[k]]
    BY DEF Add
  <2> HIDE DEF e
  <2>2. QED
    BY <1>4, <2>1 DEF Digits
<1> HIDE DEF e
<1>6. /\ v \in [0 .. n -> Nat]
      /\ v[0] = 0
      /\ \A k \in 1 .. n : v[k] = v[k - 1] + e[k - 1] * w[k - 1]
  <2>1. e \in [0 .. n - 1 -> Nat]
    BY <1>5, DigitsAreNaturals
  <2>2. QED
    BY <2>1, LowFacts
<1>7. /\ u \in [0 .. n -> Nat]
      /\ u[0] = 0
      /\ \A k \in 1 .. n : u[k] = u[k - 1] + d[k - 1] * w[k - 1]
  BY LowFacts, DigitsAreNaturals
<1>8. \A k \in 0 .. n : rest(k) \in Nat /\ carry(k) \in {0, 1}
  BY <1>1 DEF LoopStates
<1>9. rest(0) = num /\ carry(0) = 0
  BY <1>1
<1>10. \A k \in 0 .. n - 1 : rest(k + 1) = rest(k) \div r
  <2>1. TAKE k \in 0 .. n - 1
  <2>2. k + 1 \in 1 .. n /\ (k + 1) - 1 = k
    OBVIOUS
  <2>3. QED
    BY <1>1, <2>2
<1> HIDE DEF rest, carry, s, w, u, v
<1>11. 0 \in S
  BY <1>2, <1>6, <1>7, <1>9
<1>12. ASSUME NEW k \in 0 .. n - 1, k \in S PROVE k + 1 \in S
  <2>1. k + 1 \in 1 .. n /\ (k + 1) - 1 = k /\ k \in 0 .. n /\ k + 1 \in 0 .. n
    OBVIOUS
  <2> DEFINE W == w[k]
             D == d[k]
             E == e[k]
             x == rest(k) % r
             q == rest(k + 1)
             c == carry(k)
             c1 == carry(k + 1)
  <2>2. /\ W \in Nat /\ D \in Nat /\ E \in Nat /\ x \in Nat
        /\ q \in Nat /\ c \in Nat /\ c1 \in Nat
    <3>1. D \in Nat
      BY DEF Digits
    <3>2. W \in Nat /\ E \in Nat
      BY <1>2, <1>4, <2>1
    <3>3. rest(k) \in Nat /\ q \in Nat /\ c \in Nat /\ c1 \in Nat
      BY <1>8, <2>1
    <3>4. x \in Nat
      <4>1. \A z \in Nat : z % r \in Nat
        OBVIOUS
      <4>2. QED
        BY <3>3, <4>1
    <3>5. QED
      BY <3>1, <3>2, <3>3, <3>4
  <2>3. E + c1 * r = D + x + c
    BY <1>4
  <2>4. rest(k) = q * r + x
    <3>1. \A z \in Nat : z = (z \div r) * r + (z % r)
      OBVIOUS
    <3>2. QED
      BY <1>8, <1>10, <2>1, <3>1
  <2>5. w[k + 1] = W * r /\ v[k + 1] = v[k] + E * W /\ u[k + 1] = u[k] + D * W
    BY <1>2, <1>6, <1>7, <2>1
  <2>6. v[k] + (c + rest(k)) * W = u[k] + num
    BY <1>12
  <2>7. v[k] \in Nat /\ u[k] \in Nat
    BY <1>6, <1>7, <2>1
  <2> HIDE DEF W, D, E, x, q, c, c1
  <2>8. E * W + (c1 + q) * (W * r) = D * W + (c + (q * r + x)) * W
    BY <2>2, <2>3, PlaceSum
  <2>9. v[k] + E * W + (c1 + q) * (W * r) = u[k] + D * W + num
    <3>1. /\ E * W \in Int /\ (c1 + q) * (W * r) \in Int /\ D * W \in Int
          /\ (c + (q * r + x)) * W \in Int
      BY <2>2
    <3>2. v[k] + (c + (q * r + x)) * W = u[k] + num
      BY <2>4, <2>6
    <3>3. QED
      BY <2>7, <2>8, <3>1, <3>2
  <2>10. v[k + 1] + (carry(k + 1) + rest(k + 1)) * w[k + 1] = u[k + 1] + num
    <3>1. E * W \in Int /\ D * W \in Int
      BY <2>2
    <3>2. u[k] + D * W + num = u[k + 1] + num
      BY <2>5
    <3>3. QED
      BY <2>5, <2>9, <3>2 DEF c1, q
  <2>11. QED
    BY <2>1, <2>10
<1>13. 0 .. n \subseteq S
  <2> HIDE DEF S
  <2> QED BY <1>11, <1>12, UpTo
<1>14. v[n] + (carry(n) + rest(n)) * w[n] = u[n] + num
  BY <1>13
<1>15. v[n] \in Nat /\ v[n] < w[n] /\ w[n] \in Nat \ {0}
  BY <1>5, LowBound, WeightPositive DEF v, w
<1>16. u[n] + num \in Nat /\ carry(n) + rest(n) \in Nat
  <2>1. n \in 0 .. n
    OBVIOUS
  <2>2. u[n] \in Nat
    BY <1>7, <2>1
  <2>3. rest(n) \in Nat /\ carry(n) \in Nat
    BY <1>8, <2>1
  <2>4. QED
    BY <2>2, <2>3
<1>17. (u[n] + num) % w[n] = v[n]
  BY <1>14, <1>15, <1>16, Remainder
<1>18. QED
  BY <1>5, <1>17 DEF Value, e, u, v, w

-----------------------------------------------------------------------------
(* fpga_aes_new. *)

LEMMA LowOfDigits ==
  ASSUME NEW r \in Nat \ {0}, NEW n \in Nat, NEW d \in Digits(r, n)
  PROVE  /\ Low(d, r, n) \in [0 .. n -> Nat]
         /\ Low(d, r, n)[0] = 0
         /\ \A k \in 1 .. n : Low(d, r, n)[k] =
              Low(d, r, n)[k - 1] + d[k - 1] * Weight(r, n)[k - 1]
<1>1. r \in Nat /\ d \in [0 .. n - 1 -> Nat]
  BY DigitsAreNaturals
<1>2. QED
  BY <1>1, LowFacts

\* The place of byte i of word j.
LEMMA PlaceOf ==
  ASSUME NEW b \in Nat \ {0}, NEW words \in Nat,
         NEW j \in 0 .. words - 1, NEW i \in 0 .. b - 1
  PROVE  /\ b * j + i \in 0 .. b * words - 1
         /\ b * j + i + 1 \in 1 .. b * words
         /\ b * j + (i + 1) = b * j + i + 1
         /\ b * (j + 1) = b * j + b
<1>1. b * (j + 1) = b * j + b /\ b * j \in Nat /\ b * words \in Nat
  OBVIOUS
<1>2. b * (j + 1) <= b * words
  OBVIOUS
<1>3. QED
  BY <1>1, <1>2

LEMMA WordDigits ==
  ASSUME NEW r \in Nat \ {0}, NEW b \in Nat \ {0}, NEW words \in Nat,
         NEW d \in Digits(r, b * words), NEW j \in 0 .. words - 1
  PROVE  [i \in 0 .. b - 1 |-> d[b * j + i]] \in Digits(r, b)
<1>1. \A i \in 0 .. b - 1 : b * j + i \in 0 .. b * words - 1
  BY PlaceOf
<1>2. \A i \in 0 .. b - 1 : d[b * j + i] \in 0 .. r - 1
  BY <1>1 DEF Digits
<1>3. QED
  BY <1>2 DEF Digits

LEMMA PackDigits ==
  ASSUME NEW r \in Nat \ {0}, NEW b \in Nat \ {0}, NEW words \in Nat,
         NEW d \in Digits(r, b * words)
  PROVE  Pack(d, r, b, words) \in Digits(Weight(r, b)[b], words)
<1>1. ASSUME NEW j \in 0 .. words - 1
      PROVE  Word(d, r, b, j) \in 0 .. Weight(r, b)[b] - 1
  <2> DEFINE slice == [i \in 0 .. b - 1 |-> d[b * j + i]]
  <2>1. slice \in Digits(r, b)
    BY WordDigits
  <2> HIDE DEF slice
  <2>2. /\ Low(slice, r, b)[b] \in Nat
        /\ Low(slice, r, b)[b] < Weight(r, b)[b]
        /\ Weight(r, b)[b] \in Nat
    BY <2>1, LowBound, WeightPositive
  <2>3. QED
    BY <2>2 DEF Word, Value, slice
<1>2. QED
  BY <1>1 DEF Pack, Digits

\* The word copy of a counter has the value of its bytes.
THEOREM PackValue ==
  ASSUME NEW r \in Nat \ {0}, NEW b \in Nat \ {0}, NEW words \in Nat,
         NEW d \in Digits(r, b * words)
  PROVE  /\ Value(Pack(d, r, b, words), Weight(r, b)[b], words)
              = Value(d, r, b * words)
         /\ Weight(Weight(r, b)[b], words)[words] = Weight(r, b * words)[b * words]
<1> DEFINE n == b * words
           R == Weight(r, b)[b]
           P == Pack(d, r, b, words)
           w == Weight(r, n)
           wb == Weight(r, b)
           W == Weight(R, words)
           u == Low(d, r, n)
           V == Low(P, R, words)
           S == {j \in 0 .. words : w[b * j] = W[j] /\ u[b * j] = V[j]}
<1>1. n \in Nat /\ R \in Nat \ {0}
  BY WeightPositive
<1>2. P \in Digits(R, words) /\ P = [j \in 0 .. words - 1 |-> Word(d, r, b, j)]
  BY PackDigits DEF Pack
<1>d. d \in Digits(r, n)
  OBVIOUS
<1> HIDE DEF P, R, n
<1>3. /\ w \in [0 .. n -> Nat] /\ w[0] = 1
      /\ \A k \in 1 .. n : w[k] = w[k - 1] * r
  BY <1>1, WeightFacts
<1>4. /\ wb \in [0 .. b -> Nat] /\ wb[0] = 1
      /\ \A k \in 1 .. b : wb[k] = wb[k - 1] * r
  BY WeightFacts
<1>5. /\ W \in [0 .. words -> Nat] /\ W[0] = 1
      /\ \A k \in 1 .. words : W[k] = W[k - 1] * R
  BY <1>1, WeightFacts
<1>6. /\ u \in [0 .. n -> Nat] /\ u[0] = 0
      /\ \A k \in 1 .. n : u[k] = u[k - 1] + d[k - 1] * w[k - 1]
  BY <1>1, <1>d, LowOfDigits
<1>7. /\ V \in [0 .. words -> Nat] /\ V[0] = 0
      /\ \A k \in 1 .. words : V[k] = V[k - 1] + P[k - 1] * W[k - 1]
  <2>1. P \in Digits(R, words)
    BY <1>2
  <2>2. QED
    BY <1>1, <2>1, LowOfDigits
<1>8. R = wb[b]
  BY DEF R
<1> HIDE DEF w, wb, W, u, V
<1>9. 0 \in S
  BY <1>3, <1>5, <1>6, <1>7
<1>10. ASSUME NEW j \in 0 .. words - 1, j \in S PROVE j + 1 \in S
  <2> DEFINE slice == [i \in 0 .. b - 1 |-> d[b * j + i]]
             v == Low(slice, r, b)
             Q == {i \in 0 .. b : /\ w[b * j + i] = W[j] * wb[i]
                                  /\ u[b * j + i] = V[j] + W[j] * v[i]}
  <2>1. slice \in Digits(r, b)
    BY WordDigits
  <2>2. P[j] = v[b]
    BY <1>2 DEF Word, Value
  <2>s. \A i \in 0 .. b - 1 : slice[i] = d[b * j + i]
    OBVIOUS
  <2> HIDE DEF slice
  <2>3. /\ v \in [0 .. b -> Nat] /\ v[0] = 0
        /\ \A k \in 1 .. b : v[k] = v[k - 1] + slice[k - 1] * wb[k - 1]
    BY <2>1, LowOfDigits DEF wb
  <2> HIDE DEF v
  <2>4. j \in 0 .. words /\ W[j] \in Nat /\ V[j] \in Nat
    BY <1>5, <1>7
  <2>5. 0 \in Q
    <3>1. b * j + 0 = b * j
      OBVIOUS
    <3>2. w[b * j] = W[j] /\ u[b * j] = V[j]
      BY <1>10
    <3>3. W[j] * wb[0] = W[j] /\ V[j] + W[j] * v[0] = V[j]
      <4>1. wb[0] = 1 /\ v[0] = 0
        BY <1>4, <2>3
      <4>2. W[j] * 1 = W[j] /\ V[j] + W[j] * 0 = V[j]
        BY <2>4
      <4>3. QED
        BY <4>1, <4>2
    <3>4. QED
      BY <3>1, <3>2, <3>3
  <2>6. ASSUME NEW i \in 0 .. b - 1, i \in Q PROVE i + 1 \in Q
    <3> DEFINE k == b * j + i
    <3>1. /\ k \in 0 .. n - 1 /\ k + 1 \in 1 .. n /\ (k + 1) - 1 = k
          /\ b * j + (i + 1) = k + 1
      BY PlaceOf DEF n
    <3>2. i + 1 \in 1 .. b /\ (i + 1) - 1 = i /\ i \in 0 .. b
      OBVIOUS
    <3>3. w[k] = W[j] * wb[i] /\ u[k] = V[j] + W[j] * v[i]
      BY <2>6
    <3>4. slice[i] = d[k]
      BY <2>s
    <3> HIDE DEF k
    <3>5. d[k] \in Nat
      BY <1>d, <3>1, <1>1, DigitsAreNaturals
    <3>6. wb[i] \in Nat /\ v[i] \in Nat
      BY <1>4, <2>3, <3>2
    <3>7. w[k + 1] = w[k] * r /\ u[k + 1] = u[k] + d[k] * w[k]
      BY <1>3, <1>6, <3>1
    <3>8. wb[i + 1] = wb[i] * r /\ v[i + 1] = v[i] + d[k] * wb[i]
      BY <1>4, <2>3, <3>2, <3>4
    <3>9. w[k + 1] = W[j] * wb[i + 1]
      <4>1. \A x, y \in Nat : (x * y) * r = x * (y * r)
        OBVIOUS
      <4>2. QED
        BY <2>4, <3>3, <3>6, <3>7, <3>8, <4>1
    <3>10. u[k + 1] = V[j] + W[j] * v[i + 1]
      <4>1. \A V0, x, y, z, t \in Nat :
              (V0 + x * y) + z * (x * t) = V0 + x * (y + z * t)
        OBVIOUS
      <4>2. QED
        BY <2>4, <3>3, <3>5, <3>6, <3>7, <3>8, <4>1
    <3>11. QED
      BY <3>1, <3>2, <3>9, <3>10
  <2>7. 0 .. b \subseteq Q
    <3> HIDE DEF Q
    <3> QED BY <2>5, <2>6, UpTo
  <2>8. w[b * j + b] = W[j] * R /\ u[b * j + b] = V[j] + W[j] * P[j]
    BY <1>8, <2>2, <2>7
  <2>9. j + 1 \in 1 .. words /\ (j + 1) - 1 = j /\ b * (j + 1) = b * j + b
    OBVIOUS
  <2>10. W[j + 1] = W[j] * R /\ V[j + 1] = V[j] + P[j] * W[j]
    BY <1>5, <1>7, <2>9
  <2>11. P[j] \in Nat
    BY <1>1, <1>2, DigitsAreNaturals
  <2>12. P[j] * W[j] = W[j] * P[j]
    BY <2>4, <2>11
  <2>13. QED
    BY <2>8, <2>9, <2>10, <2>12
<1>11. 0 .. words \subseteq S
  <2> HIDE DEF S
  <2> QED BY <1>9, <1>10, UpTo
<1>12. w[n] = W[words] /\ u[n] = V[words]
  BY <1>11 DEF n
<1>13. QED
  BY <1>12 DEF Value, n, P, R, w, W, u, V

-----------------------------------------------------------------------------
(* Folds and sums over finite sets. *)

\* A collection has every part of a finite set if it has the empty set, and every
\* set that stays in the collection whichever of its elements it loses.
LEMMA FiniteInduction ==
  ASSUME NEW S, IsFiniteSet(S), NEW C, {} \in C,
         \A A \in SUBSET S : (A # {} /\ \A x \in A : A \ {x} \in C) => A \in C
  PROVE  SUBSET S \subseteq C
<1> DEFINE I == {n \in Nat : \A A \in SUBSET S : Cardinality(A) = n => A \in C}
<1>f. \A A \in SUBSET S : IsFiniteSet(A) /\ Cardinality(A) \in Nat
  BY FS_Subset, FS_CardinalityType
<1>1. 0 \in I
  BY <1>f, FS_EmptySet
<1>2. ASSUME NEW n \in I PROVE n + 1 \in I
  <2> SUFFICES ASSUME NEW A \in SUBSET S, Cardinality(A) = n + 1 PROVE A \in C
    OBVIOUS
  <2>1. IsFiniteSet(A) /\ A # {}
    BY <1>f, FS_EmptySet
  <2>2. ASSUME NEW x \in A PROVE A \ {x} \in C
    <3>1. Cardinality(A \ {x}) = Cardinality(A) - 1
      BY <2>1, <2>2, FS_RemoveElement
    <3>2. A \ {x} \in SUBSET S /\ Cardinality(A \ {x}) = n
      BY <3>1
    <3> QED BY <3>2
  <2> QED BY <2>1, <2>2
<1>3. I = Nat
  <2>1. I \in SUBSET Nat
    OBVIOUS
  <2> HIDE DEF I
  <2> QED BY <1>1, <1>2, <2>1, SetInduction
<1> QED BY <1>3, <1>f

\* pick takes an element of every set that has one
Picks(pick, S) == \A A \in SUBSET S : A # {} => pick[A] \in A

\* what is folded, element by element
Folded(it, S, pick, a, F) ==
  it = [A \in SUBSET S |-> IF A = {} THEN a ELSE F[pick[A]][it[A \ {pick[A]}]]]

\* A fold over a finite set is defined, whatever order its elements are taken in.
LEMMA FoldExists ==
  ASSUME NEW S, IsFiniteSet(S), NEW T, NEW a \in T, NEW F \in [S -> [T -> T]],
         NEW pick, Picks(pick, S)
  PROVE  \E it \in [SUBSET S -> T] : Folded(it, S, pick, a, F)
<1> DEFINE U == [SUBSET S -> T]
           zero == [A \in SUBSET S |-> a]
           Step(k, h) == [A \in SUBSET S |-> IF Cardinality(A) = k
                                             THEN F[pick[A]][h[A \ {pick[A]}]] ELSE h[A]]
           G == [k \in Nat |-> [h \in U |-> IF k = 0 THEN h ELSE Step(k, h)]]
           n == Cardinality(S)
<1>f. \A A \in SUBSET S : IsFiniteSet(A) /\ Cardinality(A) \in Nat /\ Cardinality(A) <= n
  BY FS_Subset, FS_CardinalityType
<1>n. n \in Nat
  BY FS_CardinalityType
<1>e. \A A \in SUBSET S : Cardinality(A) = 0 <=> A = {}
  BY <1>f, FS_EmptySet
<1>p. ASSUME NEW A \in SUBSET S, A # {}
      PROVE  /\ pick[A] \in S /\ pick[A] \in A /\ A \ {pick[A]} \in SUBSET S
             /\ Cardinality(A \ {pick[A]}) = Cardinality(A) - 1
  <2>1. pick[A] \in A
    BY <1>p DEF Picks
  <2> QED BY <1>f, <2>1, FS_RemoveElement
<1>1. zero \in U
  OBVIOUS
<1>2. ASSUME NEW k \in Nat \ {0}, NEW h \in U PROVE Step(k, h) \in U
  <2>1. ASSUME NEW A \in SUBSET S, Cardinality(A) = k
        PROVE  F[pick[A]][h[A \ {pick[A]}]] \in T
    <3>1. A # {}
      BY <1>e, <2>1
    <3>2. pick[A] \in S /\ A \ {pick[A]} \in SUBSET S
      BY <1>p, <3>1
    <3> QED BY <3>2
  <2> QED BY <2>1
<1>3. G \in Steps(U)
  <2>1. \A k \in Nat, h \in U : (IF k = 0 THEN h ELSE Step(k, h)) \in U
    <3> HIDE DEF Step, U
    <3> QED BY <1>2
  <2> HIDE DEF Step, U
  <2> QED BY <2>1 DEF Steps
<1>4. PICK g : Computes(g, U, zero, G, n)
  <2> HIDE DEF G, U, zero, n
  <2> QED BY <1>1, <1>3, <1>n, Recursion
<1>5. /\ g \in [0 .. n -> U] /\ g[0] = zero
      /\ \A k \in 1 .. n : g[k] = Step(k, g[k - 1])
  <2>1. g \in [0 .. n -> U] /\ g[0] = zero /\ \A k \in 1 .. n : g[k] = G[k][g[k - 1]]
    <3> HIDE DEF G, U, zero, n
    <3> QED BY <1>4 DEF Computes
  <2>2. ASSUME NEW k \in 1 .. n PROVE g[k] = Step(k, g[k - 1])
    <3>1. k \in Nat /\ k # 0 /\ g[k - 1] \in U
      <4> HIDE DEF U, n
      <4> QED BY <1>n, <2>1
    <3>2. G[k][g[k - 1]] = Step(k, g[k - 1])
      <4> HIDE DEF U, Step
      <4> QED BY <3>1
    <3> QED BY <2>1, <3>2
  <2> QED BY <2>1, <2>2
<1> HIDE DEF G
<1>6. ASSUME NEW A \in SUBSET S, NEW k \in 1 .. n
      PROVE  g[k][A] = IF Cardinality(A) = k THEN F[pick[A]][g[k - 1][A \ {pick[A]}]]
                       ELSE g[k - 1][A]
  <2>1. PICK h : h = g[k - 1]
    OBVIOUS
  <2>2. g[k] = Step(k, h)
    BY <1>5, <2>1
  <2>3. Step(k, h)[A] = IF Cardinality(A) = k THEN F[pick[A]][h[A \ {pick[A]}]] ELSE h[A]
    OBVIOUS
  <2> QED BY <2>1, <2>2, <2>3
<1>7. ASSUME NEW A \in SUBSET S PROVE g[n][A] = g[Cardinality(A)][A]
  <2> DEFINE c == Cardinality(A)
             I == {k \in 0 .. n : k >= c => g[k][A] = g[c][A]}
  <2>1. c \in Nat /\ c <= n
    BY <1>f
  <2>2. 0 \in I
    BY <1>n, <2>1
  <2>3. ASSUME NEW k \in 0 .. n - 1, k \in I PROVE k + 1 \in I
    <3>1. CASE k + 1 = c
      BY <2>1, <3>1
    <3>2. CASE k + 1 # c
      <4>1. k + 1 \in 1 .. n /\ k + 1 - 1 = k
        BY <1>n
      <4>2. g[k + 1][A] = g[k][A]
        <5>1. PICK j : j = k + 1
          OBVIOUS
        <5>2. j \in 1 .. n /\ j - 1 = k /\ Cardinality(A) # j
          BY <3>2, <4>1, <5>1
        <5>3. g[j][A] = g[j - 1][A]
          <6> HIDE DEF n
          <6> QED BY <1>6, <5>2
        <5> QED BY <5>1, <5>2, <5>3
      <4> HIDE DEF c, n
      <4> QED BY <1>n, <2>1, <2>3, <3>2, <4>1, <4>2
    <3> QED BY <3>1, <3>2
  <2>4. 0 .. n \subseteq I
    <3> HIDE DEF I, n
    <3> QED BY <1>n, <2>2, <2>3, UpTo
  <2>5. n \in I
    <3> HIDE DEF I, n
    <3> QED BY <1>n, <2>4
  <2> QED BY <1>n, <2>1, <2>5
<1> DEFINE it == g[n]
<1>8. ASSUME NEW A \in SUBSET S
      PROVE  it[A] = IF A = {} THEN a ELSE F[pick[A]][it[A \ {pick[A]}]]
  <2>1. CASE A = {}
    <3>1. it[A] = g[0][A]
      BY <1>7, <1>e, <2>1
    <3> QED BY <1>5, <2>1, <3>1
  <2>2. CASE A # {}
    <3> DEFINE B == A \ {pick[A]}
               k == Cardinality(A)
    <3>1. k \in 1 .. n /\ B \in SUBSET S /\ Cardinality(B) = k - 1
      BY <1>e, <1>f, <1>n, <1>p, <2>2
    <3>2. it[A] = g[k][A] /\ it[B] = g[k - 1][B]
      BY <1>7, <3>1
    <3>3. g[k][A] = F[pick[A]][g[k - 1][B]]
      BY <1>6, <3>1
    <3> QED BY <2>2, <3>2, <3>3
  <2> QED BY <2>1, <2>2
<1>9. it \in U
  BY <1>5, <1>n
<1>10. it = [A \in SUBSET S |-> it[A]]
  BY <1>9
<1>11. Folded(it, S, pick, a, F)
  <2> HIDE DEF it
  <2> QED BY <1>8, <1>10 DEF Folded
<1> QED BY <1>9, <1>11

\* what the numbers that f has on S add up to
Total(f, S) ==
  LET it[A \in SUBSET S] == IF A = {} THEN 0
                            ELSE LET x == CHOOSE x \in A : TRUE IN f[x] + it[A \ {x}]
  IN  it[S]

Sums(it, f, S) ==
  it = [A \in SUBSET S |-> IF A = {} THEN 0
                           ELSE f[CHOOSE x \in A : TRUE] + it[A \ {CHOOSE x \in A : TRUE}]]

Numbers(f, S) == \A x \in S : f[x] \in Int

LEMMA TotalDefined ==
  ASSUME NEW S, IsFiniteSet(S), NEW f, Numbers(f, S)
  PROVE  \E it \in [SUBSET S -> Int] : Sums(it, f, S) /\ Total(f, S) = it[S]
<1> DEFINE pick == [A \in SUBSET S |-> CHOOSE x \in A : TRUE]
           F == [x \in S |-> [n \in Int |-> f[x] + n]]
           sum == CHOOSE it : Sums(it, f, S)
<1>1. Picks(pick, S)
  BY DEF Picks
<1>2. F \in [S -> [Int -> Int]] /\ 0 \in Int
  BY DEF Numbers
<1>3. PICK it \in [SUBSET S -> Int] : Folded(it, S, pick, 0, F)
  <2> HIDE DEF pick, F
  <2> QED BY <1>1, <1>2, FoldExists
<1>4. Sums(it, f, S)
  <2>1. ASSUME NEW A \in SUBSET S, A # {}
        PROVE  F[pick[A]][it[A \ {pick[A]}]]
                 = f[CHOOSE x \in A : TRUE] + it[A \ {CHOOSE x \in A : TRUE}]
    <3>1. PICK x : x = CHOOSE y \in A : TRUE
      OBVIOUS
    <3>2. x \in S /\ pick[A] = x /\ it[A \ {x}] \in Int
      BY <2>1, <3>1
    <3>3. F[x][it[A \ {x}]] = f[x] + it[A \ {x}]
      BY <3>2
    <3> QED BY <3>1, <3>2, <3>3, Zenon
  <2> HIDE DEF F, pick
  <2> QED BY <1>3, <2>1 DEF Folded, Sums
<1>5. Total(f, S) = sum[S]
  BY Zenon DEF Total, Sums
<1>6. Sums(sum, f, S)
  <2>1. \E any : Sums(any, f, S)
    BY <1>4
  <2> QED BY <2>1
<1> HIDE DEF sum
<1> DEFINE C == {A \in SUBSET S : sum[A] = it[A]}
<1>7. {} \in C
  BY <1>4, <1>6 DEF Sums
<1>8. ASSUME NEW A \in SUBSET S, A # {}, \A x \in A : A \ {x} \in C PROVE A \in C
  <2>1. PICK x : x = CHOOSE y \in A : TRUE
    OBVIOUS
  <2>2. x \in A
    BY <1>8, <2>1
  <2>3. sum[A] = f[x] + sum[A \ {x}] /\ it[A] = f[x] + it[A \ {x}]
    BY <1>4, <1>6, <1>8, <2>1 DEF Sums
  <2> QED BY <1>8, <2>2, <2>3
<1>9. S \in C
  <2> HIDE DEF C
  <2> QED BY <1>7, <1>8, FiniteInduction
<1> QED BY <1>4, <1>5, <1>9

\* The element that a sum takes first may be any other.
LEMMA AnyFirst ==
  ASSUME NEW S, IsFiniteSet(S), NEW f, Numbers(f, S), NEW it \in [SUBSET S -> Int], Sums(it, f, S)
  PROVE  \A A \in SUBSET S : \A x \in A : it[A] = f[x] + it[A \ {x}]
<1> DEFINE C == {A \in SUBSET S : \A x \in A : it[A] = f[x] + it[A \ {x}]}
<1>1. {} \in C
  OBVIOUS
<1>2. ASSUME NEW A \in SUBSET S, A # {}, \A x \in A : A \ {x} \in C PROVE A \in C
  <2>1. PICK c : c = CHOOSE x \in A : TRUE
    OBVIOUS
  <2>2. c \in A
    BY <1>2, <2>1
  <2>3. it[A] = f[c] + it[A \ {c}]
    BY <1>2, <2>1 DEF Sums
  <2>4. ASSUME NEW x \in A, x # c PROVE it[A] = f[x] + it[A \ {x}]
    <3>1. it[A \ {c}] = f[x] + it[(A \ {c}) \ {x}]
      BY <1>2, <2>2, <2>4
    <3>2. it[A \ {x}] = f[c] + it[(A \ {x}) \ {c}]
      BY <1>2, <2>2, <2>4
    <3>3. (A \ {c}) \ {x} = (A \ {x}) \ {c}
      OBVIOUS
    <3>4. PICK B : B = (A \ {x}) \ {c}
      OBVIOUS
    <3>5. f[x] \in Int /\ f[c] \in Int /\ it[B] \in Int
      BY <2>2, <2>4, <3>4 DEF Numbers
    <3>6. /\ it[A] = f[c] + it[A \ {c}] /\ it[A \ {c}] = f[x] + it[B]
          /\ it[A \ {x}] = f[c] + it[B]
      BY <2>3, <3>1, <3>2, <3>3, <3>4, Zenon
    <3> QED BY <3>5, <3>6
  <2> QED BY <2>3, <2>4
<1>3. SUBSET S \subseteq C
  <2> HIDE DEF C
  <2> QED BY <1>1, <1>2, FiniteInduction
<1> QED BY <1>3

\* A sum is the one of a smaller set and what was taken away.
LEMMA TotalStep ==
  ASSUME NEW S, IsFiniteSet(S), NEW f, Numbers(f, S)
  PROVE  /\ Total(f, S) \in Int
         /\ S = {} => Total(f, S) = 0
         /\ \A x \in S : Total(f, S) = f[x] + Total(f, S \ {x})
<1>1. PICK it \in [SUBSET S -> Int] : Sums(it, f, S) /\ Total(f, S) = it[S]
  BY TotalDefined
<1>a. \A x \in S : it[S] = f[x] + it[S \ {x}]
  BY <1>1, AnyFirst
<1>2. ASSUME NEW x \in S PROVE Total(f, S) = f[x] + Total(f, S \ {x})
  <2> DEFINE R == S \ {x}
  <2>1. IsFiniteSet(R) /\ Numbers(f, R)
    BY FS_Subset DEF Numbers
  <2>2. PICK jt \in [SUBSET R -> Int] : Sums(jt, f, R) /\ Total(f, R) = jt[R]
    BY <2>1, TotalDefined
  <2> DEFINE C == {A \in SUBSET R : it[A] = jt[A]}
  <2>3. {} \in C
    BY <1>1, <2>2 DEF Sums
  <2>4. ASSUME NEW A \in SUBSET R, A # {}, \A y \in A : A \ {y} \in C PROVE A \in C
    <3>1. PICK y : y = CHOOSE z \in A : TRUE
      OBVIOUS
    <3>2. y \in A
      BY <2>4, <3>1
    <3>3. it[A] = f[y] + it[A \ {y}] /\ jt[A] = f[y] + jt[A \ {y}]
      BY <1>1, <2>2, <2>4, <3>1 DEF Sums
    <3> QED BY <2>4, <3>2, <3>3
  <2>5. R \in C
    <3> HIDE DEF C, R
    <3> QED BY <2>1, <2>3, <2>4, FiniteInduction
  <2>6. it[S] = f[x] + it[R]
    BY <1>a
  <2> QED BY <1>1, <2>2, <2>5, <2>6
<1>3. S = {} => it[S] = 0
  BY <1>1 DEF Sums
<1> QED BY <1>1, <1>2, <1>3

LEMMA TotalEqual ==
  ASSUME NEW S, NEW f, NEW g, \A x \in S : f[x] = g[x]
  PROVE  Total(f, S) = Total(g, S)
<1> DEFINE F(it) == [A \in SUBSET S |-> IF A = {} THEN 0
                       ELSE f[CHOOSE x \in A : TRUE] + it[A \ {CHOOSE x \in A : TRUE}]]
           G(it) == [A \in SUBSET S |-> IF A = {} THEN 0
                       ELSE g[CHOOSE x \in A : TRUE] + it[A \ {CHOOSE x \in A : TRUE}]]
<1>1. ASSUME NEW it PROVE F(it) = G(it)
  <2>1. ASSUME NEW A \in SUBSET S, A # {}
        PROVE  f[CHOOSE x \in A : TRUE] = g[CHOOSE x \in A : TRUE]
    <3>1. (CHOOSE x \in A : TRUE) \in S
      BY <2>1
    <3> QED BY <3>1
  <2> QED BY <2>1
<1>2. Total(f, S) = (CHOOSE it : it = F(it))[S] /\ Total(g, S) = (CHOOSE it : it = G(it))[S]
  BY Zenon DEF Total
<1>3. (CHOOSE it : it = F(it)) = (CHOOSE it : it = G(it))
  <2> HIDE DEF F, G
  <2> QED BY <1>1, Zenon
<1> QED BY <1>2, <1>3, Zenon

\* Sums of two kinds of numbers are related on a finite set if they are on the
\* empty set and each element keeps them related.
LEMMA TotalsRelated ==
  ASSUME NEW S, IsFiniteSet(S), NEW f, NEW g, Numbers(f, S), Numbers(g, S), NEW R,
         <<0, 0>> \in R,
         \A x \in S, m \in Int, n \in Int : <<m, n>> \in R => <<f[x] + m, g[x] + n>> \in R
  PROVE  <<Total(f, S), Total(g, S)>> \in R
<1> DEFINE C == {A \in SUBSET S : <<Total(f, A), Total(g, A)>> \in R}
<1>1. \A A \in SUBSET S : IsFiniteSet(A) /\ Numbers(f, A) /\ Numbers(g, A)
  BY FS_Subset DEF Numbers
<1>2. {} \in C
  <2>1. Total(f, {}) = 0 /\ Total(g, {}) = 0
    BY <1>1, TotalStep
  <2> QED BY <2>1
<1>3. ASSUME NEW A \in SUBSET S, A # {}, \A x \in A : A \ {x} \in C PROVE A \in C
  <2>1. PICK x \in A : TRUE
    BY <1>3
  <2>2. PICK B : B = A \ {x}
    OBVIOUS
  <2>3. B \in SUBSET S /\ <<Total(f, B), Total(g, B)>> \in R
    BY <1>3, <2>1, <2>2
  <2>4. Total(f, B) \in Int /\ Total(g, B) \in Int
    BY <1>1, <2>3, TotalStep
  <2>5. Total(f, A) = f[x] + Total(f, B) /\ Total(g, A) = g[x] + Total(g, B)
    BY <1>1, <2>1, <2>2, TotalStep
  <2>6. <<f[x] + Total(f, B), g[x] + Total(g, B)>> \in R
    BY <2>1, <2>3, <2>4
  <2> QED BY <2>5, <2>6
<1>4. S \in C
  <2> HIDE DEF C
  <2> QED BY <1>2, <1>3, FiniteInduction
<1> QED BY <1>4

LEMMA TotalScaled ==
  ASSUME NEW S, IsFiniteSet(S), NEW c \in Int, NEW f, NEW g, Numbers(f, S),
         \A x \in S : g[x] = c * f[x]
  PROVE  Total(g, S) = c * Total(f, S)
<1> DEFINE R == {z \in Int \X Int : z[2] = c * z[1]}
<1>1. Numbers(g, S)
  BY DEF Numbers
<1>2. <<0, 0>> \in R
  OBVIOUS
<1>3. ASSUME NEW x \in S, NEW m \in Int, NEW n \in Int, <<m, n>> \in R
      PROVE  <<f[x] + m, g[x] + n>> \in R
  <2>1. PICK u \in Int : u = f[x]
    BY DEF Numbers
  <2>2. c * (u + m) = c * u + c * m /\ c * u \in Int /\ c * m \in Int
    BY <2>1
  <2>3. g[x] = c * u /\ n = c * m
    BY <1>3, <2>1
  <2> QED BY <2>1, <2>2, <2>3
<1>4. <<Total(f, S), Total(g, S)>> \in R
  <2> HIDE DEF R
  <2> QED BY <1>1, <1>2, <1>3, TotalsRelated
<1> QED BY <1>4

\* Numbers that agree but for multiples of m have sums that do.
LEMMA TotalRemainder ==
  ASSUME NEW S, IsFiniteSet(S), NEW m \in Nat \ {0}, NEW f, NEW g, Numbers(f, S), Numbers(g, S),
         \A x \in S : f[x] % m = g[x] % m
  PROVE  Total(f, S) % m = Total(g, S) % m
<1> DEFINE R == {z \in Int \X Int : z[1] % m = z[2] % m}
<1>2. <<0, 0>> \in R
  OBVIOUS
<1>3. ASSUME NEW x \in S, NEW a \in Int, NEW b \in Int, <<a, b>> \in R
      PROVE  <<f[x] + a, g[x] + b>> \in R
  <2>1. PICK u \in Int, v \in Int : u = f[x] /\ v = g[x]
    BY DEF Numbers
  <2>2. PICK q \in Int : u = v + q * m
    BY <2>1, SameRemainder
  <2>3. PICK p \in Int : a = b + p * m
    BY <1>3, SameRemainder
  <2>4. u + a = (v + b) + (q + p) * m
    <3>1. (q + p) * m = q * m + p * m /\ q * m \in Int /\ p * m \in Int
      BY <2>2, <2>3
    <3> QED BY <2>1, <2>2, <2>3, <3>1
  <2>5. PICK s \in Int, t \in Int, k \in Int : s = u + a /\ t = v + b /\ k = q + p
    BY <2>1, <2>2, <2>3
  <2>6. s % m = t % m
    <3>1. s = t + k * m
      BY <2>4, <2>5
    <3> QED BY <3>1, SameRemainder
  <2> QED BY <2>1, <2>5, <2>6
<1>4. <<Total(f, S), Total(g, S)>> \in R
  <2> HIDE DEF R
  <2> QED BY <1>2, <1>3, TotalsRelated
<1> QED BY <1>4

\* The sum of sums.
LEMMA TotalOfSums ==
  ASSUME NEW S, IsFiniteSet(S), NEW f, NEW g, NEW h, Numbers(f, S), Numbers(g, S),
         \A x \in S : h[x] = f[x] + g[x]
  PROVE  Total(h, S) = Total(f, S) + Total(g, S)
<1> DEFINE C == {A \in SUBSET S : Total(h, A) = Total(f, A) + Total(g, A)}
<1>1. \A A \in SUBSET S :
        IsFiniteSet(A) /\ Numbers(f, A) /\ Numbers(g, A) /\ Numbers(h, A)
  BY FS_Subset DEF Numbers
<1>2. {} \in C
  <2>1. Total(f, {}) = 0 /\ Total(g, {}) = 0 /\ Total(h, {}) = 0
    BY <1>1, TotalStep
  <2> QED BY <2>1
<1>3. ASSUME NEW A \in SUBSET S, A # {}, \A x \in A : A \ {x} \in C PROVE A \in C
  <2>1. PICK x \in A : TRUE
    BY <1>3
  <2>2. PICK B : B = A \ {x}
    OBVIOUS
  <2>3. B \in SUBSET S /\ Total(h, B) = Total(f, B) + Total(g, B)
    BY <1>3, <2>1, <2>2
  <2>4. Total(f, B) \in Int /\ Total(g, B) \in Int
    BY <1>1, <2>3, TotalStep
  <2>5. /\ Total(f, A) = f[x] + Total(f, B) /\ Total(g, A) = g[x] + Total(g, B)
        /\ Total(h, A) = h[x] + Total(h, B)
    BY <1>1, <2>1, <2>2, TotalStep
  <2>6. f[x] \in Int /\ g[x] \in Int /\ h[x] = f[x] + g[x]
    BY <2>1 DEF Numbers
  <2> QED BY <2>3, <2>4, <2>5, <2>6
<1>4. S \in C
  <2> HIDE DEF C
  <2> QED BY <1>2, <1>3, FiniteInduction
<1> QED BY <1>4

\* Numbers may be moved to other places.
LEMMA TotalMoved ==
  ASSUME NEW S, IsFiniteSet(S), NEW T, NEW p \in [S -> T], NEW f, NEW g, Numbers(f, T),
         \A x, y \in S : p[x] = p[y] => x = y, \A y \in T : \E x \in S : p[x] = y,
         \A x \in S : g[x] = f[p[x]]
  PROVE  Total(g, S) = Total(f, T)
<1> DEFINE Image(A) == {p[x] : x \in A}
           C == {A \in SUBSET S : IsFiniteSet(Image(A)) /\ Total(g, A) = Total(f, Image(A))}
<1>1. \A A \in SUBSET S : IsFiniteSet(A) /\ Numbers(g, A) /\ Numbers(f, Image(A))
  BY FS_Subset DEF Numbers
<1>2. {} \in C
  <2>1. Image({}) = {} /\ IsFiniteSet({}) /\ Numbers(f, {}) /\ Numbers(g, {})
    BY FS_EmptySet DEF Numbers
  <2>2. Total(f, {}) = 0 /\ Total(g, {}) = 0
    BY <2>1, TotalStep
  <2> QED BY <2>1, <2>2
<1>3. ASSUME NEW A \in SUBSET S, A # {}, \A x \in A : A \ {x} \in C PROVE A \in C
  <2>1. PICK x \in A : TRUE
    BY <1>3
  <2>2. PICK B : B = A \ {x}
    OBVIOUS
  <2>3. B \in SUBSET S /\ IsFiniteSet(Image(B)) /\ Total(g, B) = Total(f, Image(B))
    BY <1>3, <2>1, <2>2
  <2>4. PICK y : y = p[x]
    OBVIOUS
  <2>5. Image(A) = Image(B) \cup {y} /\ Image(A) \ {y} = Image(B) /\ y \in Image(A)
    BY <2>1, <2>2, <2>4
  <2>6. IsFiniteSet(Image(A))
    <3>1. IsFiniteSet(Image(B) \cup {y})
      <4> HIDE DEF Image
      <4> QED BY <2>3, FS_AddElement
    <3> QED BY <2>5, <3>1, Zenon
  <2>7. Total(g, A) = g[x] + Total(g, B)
    BY <1>1, <2>1, <2>2, TotalStep
  <2>8. Total(f, Image(A)) = f[y] + Total(f, Image(B))
    <3>1. \A z \in Image(A) : Total(f, Image(A)) = f[z] + Total(f, Image(A) \ {z})
      <4> HIDE DEF Image
      <4> QED BY <1>1, <2>6, TotalStep
    <3> QED BY <2>5, <3>1
  <2>9. g[x] = f[y]
    BY <2>1, <2>4
  <2> QED BY <2>3, <2>6, <2>7, <2>8, <2>9
<1>4. S \in C
  <2> HIDE DEF C
  <2> QED BY <1>2, <1>3, FiniteInduction
<1>5. Image(S) = T
  OBVIOUS
<1> QED BY <1>4, <1>5

\* The sum of a table is that of its rows and that of its columns.
LEMMA TotalSwapped ==
  ASSUME NEW S, IsFiniteSet(S), NEW T, IsFiniteSet(T), NEW F, \A x \in S, y \in T : F[x][y] \in Int
  PROVE  Total([x \in S |-> Total([y \in T |-> F[x][y]], T)], S)
           = Total([y \in T |-> Total([x \in S |-> F[x][y]], S)], T)
<1> DEFINE row(x) == [y \in T |-> F[x][y]]
           column(y, A) == [x \in A |-> F[x][y]]
           ByRows(A) == Total([x \in A |-> Total(row(x), T)], A)
           Columns(A) == [y \in T |-> Total(column(y, A), A)]
           C == {A \in SUBSET S : ByRows(A) = Total(Columns(A), T)}
<1>1. \A A \in SUBSET S : IsFiniteSet(A)
  BY FS_Subset
<1>2. \A x \in S : Numbers(row(x), T)
  BY DEF Numbers
<1>3. \A A \in SUBSET S : \A y \in T : Numbers(column(y, A), A)
  BY DEF Numbers
<1>4. \A A \in SUBSET S : Numbers([x \in A |-> Total(row(x), T)], A)
  <2> HIDE DEF row
  <2> QED BY <1>2, TotalStep DEF Numbers
<1>5. \A A \in SUBSET S : Numbers(Columns(A), T)
  <2> HIDE DEF column
  <2> QED BY <1>1, <1>3, TotalStep DEF Numbers
<1>6. {} \in C
  <2>1. ByRows({}) = 0
    <3>1. PICK f : f = [x \in {} |-> Total(row(x), T)]
      OBVIOUS
    <3>2. IsFiniteSet({}) /\ Numbers(f, {})
      BY FS_EmptySet DEF Numbers
    <3>3. Total(f, {}) = 0
      BY <3>2, TotalStep
    <3> HIDE DEF row
    <3> QED BY <3>1, <3>3, Zenon
  <2>2. \A y \in T : Total(column(y, {}), {}) = 0
    <3> HIDE DEF column
    <3> QED BY <1>1, <1>3, TotalStep
  <2>3. Total(Columns({}), T) = 0 * Total(Columns({}), T)
    <3>1. \A y \in T : Columns({})[y] = 0 * Columns({})[y] /\ 0 \in Int
      <4> HIDE DEF column
      <4> QED BY <2>2
    <3>2. Numbers(Columns({}), T)
      <4> HIDE DEF Columns
      <4> QED BY <1>5
    <3> HIDE DEF Columns
    <3> QED BY <3>1, <3>2, TotalScaled
  <2>4. Total(Columns({}), T) \in Int
    <3> HIDE DEF Columns
    <3> QED BY <1>5, TotalStep
  <2>5. 0 * Total(Columns({}), T) = 0
    <3> HIDE DEF Columns
    <3> QED BY <2>4
  <2> HIDE DEF ByRows, Columns
  <2> QED BY <2>1, <2>3, <2>5
<1>7. ASSUME NEW A \in SUBSET S, A # {}, \A x \in A : A \ {x} \in C PROVE A \in C
  <2>1. PICK x \in A : TRUE
    BY <1>7
  <2>2. PICK B : B = A \ {x}
    OBVIOUS
  <2>3. B \in SUBSET S /\ ByRows(B) = Total(Columns(B), T)
    BY <1>7, <2>1, <2>2
  <2>4. ByRows(A) = Total(row(x), T) + ByRows(B)
    <3> DEFINE f == [z \in A |-> Total(row(z), T)]
               g == [z \in B |-> Total(row(z), T)]
    <3>1. Total(f, A) = f[x] + Total(f, B)
      <4> HIDE DEF row
      <4> QED BY <1>1, <1>4, <2>1, <2>2, TotalStep
    <3>2. Total(f, B) = Total(g, B)
      <4>1. \A z \in B : f[z] = g[z]
        BY <2>2
      <4> HIDE DEF f, g
      <4> QED BY <4>1, TotalEqual
    <3>3. f[x] = Total(row(x), T)
      BY <2>1
    <3> QED BY <3>1, <3>2, <3>3
  <2>5. \A y \in T : Columns(A)[y] = row(x)[y] + Columns(B)[y]
    <3> SUFFICES ASSUME NEW y \in T
                 PROVE  Total(column(y, A), A) = F[x][y] + Total(column(y, B), B)
      OBVIOUS
    <3>1. Total(column(y, A), A) = column(y, A)[x] + Total(column(y, A), B)
      <4> HIDE DEF column
      <4> QED BY <1>1, <1>3, <2>1, <2>2, TotalStep
    <3>2. Total(column(y, A), B) = Total(column(y, B), B)
      <4>1. \A z \in B : column(y, A)[z] = column(y, B)[z]
        BY <2>2
      <4> HIDE DEF column
      <4> QED BY <4>1, TotalEqual
    <3>3. column(y, A)[x] = F[x][y]
      BY <2>1
    <3> QED BY <3>1, <3>2, <3>3
  <2>6. Total(Columns(A), T) = Total(row(x), T) + Total(Columns(B), T)
    <3>1. Numbers(row(x), T) /\ Numbers(Columns(B), T)
      <4> HIDE DEF row, Columns
      <4> QED BY <1>2, <1>5, <2>1, <2>3
    <3> HIDE DEF row, Columns
    <3> QED BY <2>5, <3>1, TotalOfSums
  <2> HIDE DEF ByRows, row, Columns
  <2> QED BY <2>3, <2>4, <2>6
<1>8. S \in C
  <2> HIDE DEF C
  <2> QED BY <1>6, <1>7, FiniteInduction
<1> QED BY <1>8

LEMMA Climbs ==
  ASSUME NEW a \in Int, NEW b \in Int, NEW c \in Int, NEW x \in Int, NEW y \in Int
  PROVE  /\ (b - a <= x /\ c - b <= y) => c - a <= y + x
         /\ (x <= b - a /\ y <= c - b) => y + x <= c - a
OBVIOUS

\* The last number of a sum over the first naturals.
LEMMA TotalLast ==
  ASSUME NEW k \in Nat, NEW f, Numbers(f, 0 .. k)
  PROVE  Total(f, 0 .. k) = f[k] + Total(f, 0 .. k - 1) /\ f[k] \in Int
<1>1. IsFiniteSet(0 .. k) /\ k \in 0 .. k
  BY FS_Interval
<1>2. (0 .. k) \ {k} = 0 .. k - 1
  OBVIOUS
<1>3. Total(f, 0 .. k) = f[k] + Total(f, (0 .. k) \ {k})
  <2>1. PICK A : A = 0 .. k
    OBVIOUS
  <2>2. IsFiniteSet(A) /\ Numbers(f, A) /\ k \in A
    BY <1>1, <2>1
  <2>3. Total(f, A) = f[k] + Total(f, A \ {k})
    BY <2>2, TotalStep
  <2> QED BY <2>1, <2>3, Zenon
<1>4. f[k] \in Int
  BY <1>1 DEF Numbers
<1> QED BY <1>2, <1>3, <1>4, Zenon

\* A sum over the first naturals lies between what its bounds climb.
LEMMA TotalBetween ==
  ASSUME NEW n \in Nat, NEW f, Numbers(f, 0 .. n - 1),
         NEW lo \in [0 .. n -> Int], NEW hi \in [0 .. n -> Int],
         \A k \in 0 .. n - 1 : lo[k + 1] - lo[k] <= f[k] /\ f[k] <= hi[k + 1] - hi[k]
  PROVE  lo[n] - lo[0] <= Total(f, 0 .. n - 1) /\ Total(f, 0 .. n - 1) <= hi[n] - hi[0]
<1> DEFINE T(k) == Total(f, 0 .. k - 1)
           S == {k \in 0 .. n : /\ T(k) \in Int
                                /\ lo[k] - lo[0] <= T(k)
                                /\ T(k) <= hi[k] - hi[0]}
<1>1. 0 \in S
  <2>1. Total(f, {}) = 0
    <3>1. IsFiniteSet({}) /\ Numbers(f, {})
      BY FS_EmptySet DEF Numbers
    <3> QED BY <3>1, TotalStep
  <2>2. 0 .. 0 - 1 = {} /\ lo[0] \in Int /\ hi[0] \in Int /\ 0 \in 0 .. n
    OBVIOUS
  <2>3. T(0) = 0
    BY <2>1, <2>2, Zenon
  <2> HIDE DEF T
  <2> QED BY <2>2, <2>3
<1>2. ASSUME NEW k \in 0 .. n - 1, k \in S PROVE k + 1 \in S
  <2>1. k \in Nat /\ Numbers(f, 0 .. k) /\ (k + 1) - 1 = k
    BY DEF Numbers
  <2>2. Total(f, 0 .. k) = f[k] + Total(f, 0 .. k - 1) /\ f[k] \in Int
    BY <2>1, TotalLast
  <2>3. T(k + 1) = f[k] + T(k)
    BY <2>1, <2>2, Zenon
  <2> HIDE DEF T
  <2>4. k + 1 \in 0 .. n /\ k \in 0 .. n /\ 0 \in 0 .. n
    OBVIOUS
  <2>5. lo[k] \in Int /\ hi[k] \in Int /\ lo[k + 1] \in Int /\ hi[k + 1] \in Int
        /\ lo[0] \in Int /\ hi[0] \in Int
    BY <2>4
  <2>6. T(k) \in Int /\ lo[k] - lo[0] <= T(k) /\ T(k) <= hi[k] - hi[0]
    BY <1>2
  <2>7. lo[k + 1] - lo[k] <= f[k] /\ f[k] <= hi[k + 1] - hi[k]
    OBVIOUS
  <2> HIDE DEF S
  <2>8. lo[k + 1] - lo[0] <= f[k] + T(k) /\ f[k] + T(k) <= hi[k + 1] - hi[0]
    BY <2>2, <2>5, <2>6, <2>7, Climbs
  <2>9. f[k] + T(k) \in Int
    <3>1. \A x, y \in Int : x + y \in Int
      OBVIOUS
    <3>2. f[k] \in Int /\ T(k) \in Int
      BY <2>2, <2>6, Zenon
    <3> QED BY <3>1, <3>2, Zenon
  <2>10. k + 1 \in 0 .. n /\ T(k + 1) \in Int /\ lo[k + 1] - lo[0] <= T(k + 1)
         /\ T(k + 1) <= hi[k + 1] - hi[0]
    BY <2>3, <2>4, <2>8, <2>9, Zenon
  <2> QED BY <2>10, Zenon DEF S
<1>3. 0 .. n \subseteq S
  <2> HIDE DEF S
  <2> QED BY <1>1, <1>2, UpTo
<1>4. n \in S
  BY <1>3
<1> QED BY <1>4


Highest(A) == CHOOSE x \in A : \A y \in A : x >= y

\* Folding the places 1 .. n from the left, step k by F[k].
FoldsUp(it, T, n, a, F) ==
  it = [A \in SUBSET (1 .. n) |-> IF A = {} THEN a ELSE F[Highest(A)][it[A \ {Highest(A)}]]]

LEMMA HighestOf ==
  ASSUME NEW n \in Nat, NEW A \in SUBSET (1 .. n), A # {}
  PROVE  Highest(A) \in A
<1>1. A \in SUBSET Int /\ n \in Int /\ \A x \in A : x <= n
  OBVIOUS
<1>2. \E x \in A : \A y \in A : y <= x
  BY <1>1, GreatestInteger
<1>3. \E x \in A : \A y \in A : x >= y
  BY <1>1, <1>2
<1> QED BY <1>3 DEF Highest

LEMMA FoldUpExists ==
  ASSUME NEW n \in Nat, NEW T, NEW a \in T, NEW F \in [1 .. n -> [T -> T]]
  PROVE  \E it \in [SUBSET (1 .. n) -> T] : FoldsUp(it, T, n, a, F)
<1> DEFINE S == 1 .. n
           pick == [A \in SUBSET S |-> Highest(A)]
<1>1. IsFiniteSet(S)
  BY FS_Interval
<1>2. \A A \in SUBSET S : A # {} => Highest(A) \in A
  BY HighestOf
<1>3. Picks(pick, S)
  BY <1>2 DEF Picks
<1>4. PICK it \in [SUBSET S -> T] : Folded(it, S, pick, a, F)
  <2> HIDE DEF pick
  <2> QED BY <1>1, <1>3, FoldExists
<1>5. \A A \in SUBSET S : pick[A] = Highest(A)
  OBVIOUS
<1>6. FoldsUp(it, T, n, a, F)
  <2> HIDE DEF pick
  <2> QED BY <1>4, <1>5 DEF Folded, FoldsUp
<1> QED BY <1>4, <1>6

LEMMA Prefixes ==
  ASSUME NEW n \in Nat, NEW k \in 1 .. n
  PROVE  1 .. k \in SUBSET (1 .. n) /\ 1 .. k # {} /\ Highest(1 .. k) = k /\ (1 .. k) \ {k} = 1 .. k - 1
<1>1. \E x \in 1 .. k : \A y \in 1 .. k : x >= y
  OBVIOUS
<1>2. Highest(1 .. k) \in 1 .. k /\ \A y \in 1 .. k : Highest(1 .. k) >= y
  BY <1>1 DEF Highest
<1>3. k \in 1 .. k
  OBVIOUS
<1>4. Highest(1 .. k) = k
  <2>1. Highest(1 .. k) >= k /\ Highest(1 .. k) <= k /\ Highest(1 .. k) \in Int
    BY <1>2, <1>3
  <2> QED BY <2>1
<1> QED BY <1>4
=============================================================================
