-------------------------- MODULE BlockModesProofs --------------------------
(***************************************************************************)
(* The loops over single blocks for every input and every counter: what    *)
(* they leave in the memory, and how many blocks the counter of            *)
(* incrementIv lasts for.                                                  *)
(***************************************************************************)
EXTENDS BlockModes, NumberTheorems

-----------------------------------------------------------------------------
(* How often a digit carries.  incrementIv carries out of a digit twice in *)
(* r increments: when it becomes r - 1, and when it becomes 0.             *)

\* the carries out of a digit that has gone from 0 to x, not reduced
Carries(x, r) == 2 * (x \div r) + (IF x % r = r - 1 THEN 1 ELSE 0)

LEMMA CarriesType ==
  ASSUME NEW r \in Nat \ {0}, NEW x \in Nat
  PROVE  Carries(x, r) \in Nat
<1>1. x \div r \in Nat
  BY Division
<1>2. QED
  BY <1>1 DEF Carries

\* One increment carries if RollsOver says so.
LEMMA CarriesStep ==
  ASSUME NEW r \in Nat \ {0, 1}, NEW x \in Nat
  PROVE  Carries(x + 1, r) =
           Carries(x, r) + (IF RollsOver(x % r, r) THEN 1 ELSE 0)
<1>0. r \in Nat \ {0} /\ r >= 2
  OBVIOUS
<1> DEFINE q == x \div r
           z == x % r
<1>1. q \in Nat /\ z \in 0 .. r - 1 /\ x = z + q * r
  BY <1>0, Division
<1>2. q * r \in Nat
  BY <1>1
<1> HIDE DEF q, z
<1>3. x + 1 = q * r + (z + 1) /\ z + 1 \in Nat
  BY <1>1, <1>2
<1>4. /\ (x + 1) % r = (z + 1) % r
      /\ (x + 1) \div r = q + ((z + 1) \div r)
  <2>1. /\ (q * r + (z + 1)) % r = (z + 1) % r
        /\ (q * r + (z + 1)) \div r = q + ((z + 1) \div r)
    BY <1>0, <1>1, <1>3, DivShift
  <2>2. QED
    BY <1>3, <2>1
<1>5. CASE z = r - 1
  <2>1. z + 1 = 1 * r + 0
    BY <1>5
  <2>3. (z + 1) % r = 0 /\ (z + 1) \div r = 1
    <3>1. (1 * r + 0) % r = 0 % r /\ (1 * r + 0) \div r = 1 + (0 \div r)
      BY <1>0, DivShift
    <3>2. 0 % r = 0 /\ 0 \div r = 0
      BY <1>0
    <3>3. QED
      BY <2>1, <3>1, <3>2
  <2>4. (x + 1) % r = 0 /\ (x + 1) \div r = q + 1
    BY <1>4, <2>3
  <2>5. QED
    BY <1>1, <1>5, <2>4 DEF Carries, RollsOver, q, z
<1>6. CASE z # r - 1
  <2>1. z + 1 \in 0 .. r - 1
    BY <1>1, <1>6
  <2>2. (z + 1) % r = z + 1 /\ (z + 1) \div r = 0
    <3>1. \A y \in 0 .. r - 1 : y % r = y /\ y \div r = 0
      OBVIOUS
    <3>2. QED
      BY <2>1, <3>1
  <2>3. (x + 1) % r = z + 1 /\ (x + 1) \div r = q
    BY <1>1, <1>4, <2>2
  <2>4. QED
    BY <1>1, <1>6, <2>3 DEF Carries, RollsOver, q, z
<1>7. QED
  BY <1>5, <1>6

LEMMA CarriesShift ==
  ASSUME NEW r \in Nat \ {0}, NEW x \in Nat, NEW m \in Nat
  PROVE  Carries(x + m * r, r) = Carries(x, r) + 2 * m
<1>1. x + m * r = m * r + x
  OBVIOUS
<1>2. /\ (x + m * r) % r = x % r
      /\ (x + m * r) \div r = m + (x \div r)
  <2>1. /\ (m * r + x) % r = x % r
        /\ (m * r + x) \div r = m + (x \div r)
    BY DivShift
  <2>2. QED
    BY <1>1, <2>1
<1>3. x \div r \in Nat
  BY Division
<1>4. QED
  BY <1>2, <1>3 DEF Carries

-----------------------------------------------------------------------------
(* A counter after t increments. *)

\* a is the counter d after t increments, its digits not reduced: each counts
\* the carries of the one below.
Follows(a, d, t, r, n) ==
  /\ a \in [0 .. n - 1 -> Nat]
  /\ a[0] = d[0] + t
  /\ \A k \in 1 .. n - 1 :
       a[k] = d[k] + Carries(a[k - 1], r) - Carries(d[k - 1], r)

\* c is the counter d after t increments.
Counts(c, d, t, r, n) ==
  \E a \in [0 .. n - 1 -> Nat] :
    Follows(a, d, t, r, n) /\ c = [k \in 0 .. n - 1 |-> a[k] % r]

LEMMA CountsFirst ==
  ASSUME NEW r \in Nat \ {0}, NEW n \in Nat \ {0}, NEW d \in Digits(r, n)
  PROVE  Counts(d, d, 0, r, n)
<1>1. d \in [0 .. n - 1 -> Nat]
  BY DigitsAreNaturals
<1>2. \A k \in 0 .. n - 1 : d[k] \in 0 .. r - 1
  BY DEF Digits
<1>3. \A x \in 0 .. r - 1 : x % r = x
  OBVIOUS
<1>4. d = [k \in 0 .. n - 1 |-> d[k] % r]
  <2>1. \A k \in 0 .. n - 1 : d[k] % r = d[k]
    BY <1>2, <1>3
  <2>2. QED
    BY <1>1, <2>1
<1>5. Follows(d, d, 0, r, n)
  <2>1. 0 \in 0 .. n - 1
    OBVIOUS
  <2>2. d[0] = d[0] + 0
    BY <1>1, <2>1
  <2>3. ASSUME NEW k \in 1 .. n - 1
        PROVE  d[k] = d[k] + Carries(d[k - 1], r) - Carries(d[k - 1], r)
    <3>1. k \in 0 .. n - 1 /\ k - 1 \in 0 .. n - 1
      OBVIOUS
    <3>2. d[k] \in Nat /\ d[k - 1] \in Nat
      BY <1>1, <3>1
    <3>3. Carries(d[k - 1], r) \in Nat
      BY <3>2, CarriesType
    <3>4. QED
      BY <3>2, <3>3
  <2>4. QED
    BY <1>1, <2>2, <2>3 DEF Follows
<1>6. QED
  BY <1>1, <1>4, <1>5 DEF Counts

LEMMA CountsType ==
  ASSUME NEW r \in Nat \ {0}, NEW n \in Nat \ {0}, NEW d, NEW t, NEW c,
         Counts(c, d, t, r, n)
  PROVE  c \in Digits(r, n)
<1>1. PICK a \in [0 .. n - 1 -> Nat] : c = [k \in 0 .. n - 1 |-> a[k] % r]
  BY DEF Counts
<1>2. \A k \in 0 .. n - 1 : a[k] % r \in 0 .. r - 1
  BY Division
<1>3. QED
  BY <1>1, <1>2 DEF Digits

\* incrementIv is the next of them.
LEMMA CountsNext ==
  ASSUME NEW r \in Nat \ {0, 1}, NEW n \in Nat \ {0}, NEW d \in Digits(r, n),
         NEW t \in Nat, NEW c, Counts(c, d, t, r, n)
  PROVE  Counts(Increment(c, r, n), d, t + 1, r, n)
<1>0. r \in Nat \ {0}
  OBVIOUS
<1>1. PICK a \in [0 .. n - 1 -> Nat] :
        Follows(a, d, t, r, n) /\ c = [k \in 0 .. n - 1 |-> a[k] % r]
  BY DEF Counts
<1> DEFINE reached(k) == \A j \in 0 .. k - 1 : RollsOver(c[j], r)
           b == [k \in 0 .. n - 1 |-> IF reached(k) THEN a[k] + 1 ELSE a[k]]
<1>2. b \in [0 .. n - 1 -> Nat]
  <2>1. \A k \in 0 .. n - 1 : (IF reached(k) THEN a[k] + 1 ELSE a[k]) \in Nat
    OBVIOUS
  <2> HIDE DEF reached
  <2>2. QED
    BY <2>1
<1>3. \A k \in 0 .. n - 1 : c[k] = a[k] % r /\ a[k] \in Nat
  BY <1>1
<1>4. \A k \in 0 .. n - 1 : b[k] = IF reached(k) THEN a[k] + 1 ELSE a[k]
  OBVIOUS
<1>d. d \in [0 .. n - 1 -> Nat]
  BY <1>0, DigitsAreNaturals
<1>5. Increment(c, r, n) = [k \in 0 .. n - 1 |-> b[k] % r]
  <2>1. ASSUME NEW k \in 0 .. n - 1
        PROVE  (IF reached(k) THEN (c[k] + 1) % r ELSE c[k]) = b[k] % r
    <3>1. \A x \in Nat : ((x % r) + 1) % r = (x + 1) % r
      <4>1. TAKE x \in Nat
      <4>2. x % r \in 0 .. r - 1 /\ x \div r \in Nat /\ x = (x % r) + (x \div r) * r
        BY <1>0, Division
      <4>3. x + 1 = (x \div r) * r + ((x % r) + 1) /\ (x % r) + 1 \in Nat
        BY <4>2
      <4>4. (((x \div r) * r) + ((x % r) + 1)) % r = ((x % r) + 1) % r
        BY <1>0, <4>2, <4>3, DivShift
      <4>5. QED
        BY <4>3, <4>4
    <3> HIDE DEF reached, b
    <3>2. QED
      BY <1>3, <1>4, <3>1
  <2> HIDE DEF b
  <2>2. QED
    BY <2>1 DEF Increment
<1>6. Follows(b, d, t + 1, r, n)
  <2>0. 0 \in 0 .. n - 1
    OBVIOUS
  <2>1. b[0] = d[0] + (t + 1)
    <3>1. reached(0)
      OBVIOUS
    <3>2. a[0] = d[0] + t /\ d[0] \in Nat
      BY <1>1, <1>d, <2>0 DEF Follows
    <3> HIDE DEF reached, b
    <3>3. b[0] = a[0] + 1
      BY <1>4, <2>0, <3>1
    <3>4. QED
      BY <3>2, <3>3
  <2>2. ASSUME NEW k \in 1 .. n - 1
        PROVE  b[k] = d[k] + Carries(b[k - 1], r) - Carries(d[k - 1], r)
    <3>1. k \in 0 .. n - 1 /\ k - 1 \in 0 .. n - 1
      OBVIOUS
    <3>2. reached(k) <=> reached(k - 1) /\ RollsOver(a[k - 1] % r, r)
      <4>1. 0 .. k - 1 = (0 .. (k - 1) - 1) \cup {k - 1}
        OBVIOUS
      <4>2. c[k - 1] = a[k - 1] % r
        BY <1>3, <3>1
      <4>3. QED
        BY <4>1, <4>2
    <3> HIDE DEF reached, b
    <3>3. a[k] = d[k] + Carries(a[k - 1], r) - Carries(d[k - 1], r)
      BY <1>1 DEF Follows
    <3>4. a[k - 1] \in Nat /\ d[k - 1] \in Nat /\ d[k] \in Nat
      BY <1>d, <3>1
    <3>5. Carries(a[k - 1], r) \in Nat /\ Carries(d[k - 1], r) \in Nat
      BY <1>0, <3>4, CarriesType
    <3>6. Carries(a[k - 1] + 1, r) =
            Carries(a[k - 1], r) + (IF RollsOver(a[k - 1] % r, r) THEN 1 ELSE 0)
      BY <3>4, CarriesStep
    <3>7. CASE reached(k - 1)
      <4>1. b[k - 1] = a[k - 1] + 1
        BY <1>4, <3>1, <3>7
      <4>2. b[k] = IF RollsOver(a[k - 1] % r, r) THEN a[k] + 1 ELSE a[k]
        BY <1>4, <3>1, <3>2, <3>7
      <4>a. a[k] \in Nat
        BY <1>3, <3>1
      <4> DEFINE y == IF RollsOver(a[k - 1] % r, r) THEN 1 ELSE 0
      <4>3. y \in Nat
        OBVIOUS
      <4>4. b[k] = a[k] + y /\ Carries(b[k - 1], r) = Carries(a[k - 1], r) + y
        BY <3>6, <4>1, <4>2, <4>a
      <4> HIDE DEF y
      <4>5. PICK v : v = Carries(a[k - 1], r)
        OBVIOUS
      <4>6. PICK w : w = Carries(d[k - 1], r)
        OBVIOUS
      <4>7. PICK x : x = d[k]
        OBVIOUS
      <4>8. x \in Nat /\ v \in Nat /\ w \in Nat /\ b[k] = (x + v - w) + y
        BY <3>3, <3>4, <3>5, <4>4, <4>5, <4>6, <4>7
      <4>9. b[k] = x + (v + y) - w
        BY <4>3, <4>8
      <4>10. QED
        BY <4>4, <4>5, <4>6, <4>7, <4>9
    <3>8. CASE ~reached(k - 1)
      <4>1. b[k - 1] = a[k - 1] /\ b[k] = a[k]
        BY <1>4, <3>1, <3>2, <3>8
      <4>2. QED
        BY <3>3, <4>1
    <3>9. QED
      BY <3>7, <3>8
  <2> HIDE DEF b
  <2>3. QED
    BY <1>2, <2>1, <2>2 DEF Follows
<1> HIDE DEF b
<1>7. QED
  BY <1>2, <1>5, <1>6 DEF Counts

\* Numbers with the same digit are multiples of the radix apart.
LEMMA SameDigit ==
  ASSUME NEW r \in Nat \ {0}, NEW x \in Nat, NEW y \in Nat, x < y, x % r = y % r
  PROVE  \E m \in Nat \ {0} : y = x + m * r
<1> DEFINE p == x \div r
           q == y \div r
           z == x % r
<1>1. /\ p \in Nat /\ q \in Nat /\ z \in Nat
      /\ x = z + p * r /\ y = z + q * r
  <2>1. \A v \in Nat : /\ v \div r \in Nat
                        /\ v % r \in 0 .. r - 1
                        /\ v = (v % r) + (v \div r) * r
    BY Division, Zenon
  <2>2. p \in Nat /\ q \in Nat /\ z \in 0 .. r - 1
        /\ x = z + p * r /\ y = z + q * r
    BY <2>1, Zenon
  <2> HIDE DEF p, q, z
  <2>3. QED
    BY <2>2
<1> HIDE DEF p, q, z
<1>2. p * r \in Nat /\ q * r \in Nat
  BY <1>1
<1>3. p * r < q * r
  BY <1>1, <1>2
<1>4. q - p \in Nat \ {0}
  <2>1. ~ (q <= p)
    BY <1>1, <1>3
  <2>2. QED
    BY <1>1, <2>1
<1>5. (q - p) * r = q * r - p * r
  BY <1>1
<1>6. y = x + (q - p) * r
  BY <1>1, <1>2, <1>5
<1>7. QED
  BY <1>4, <1>6

\* Factors and order.
LEMMA HalfRadix ==
  ASSUME NEW r \in Nat, NEW m \in Nat, NEW l \in Nat, NEW w \in Nat,
         2 * m = l * r
  PROVE  (m * r) * w >= (l * r) * (w * (r \div 2))
<1> DEFINE h == r \div 2
<1>1. h \in Nat /\ 2 * h <= r
  OBVIOUS
<1> HIDE DEF h
<1>2. l * (2 * h) <= l * r
  BY <1>1
<1>3. l * (2 * h) = 2 * (l * h) /\ l * h \in Nat
  BY <1>1
<1>4. l * h <= m
  BY <1>2, <1>3
<1>5. (l * h) * (r * w) <= m * (r * w)
  <2>1. r * w \in Nat
    OBVIOUS
  <2>2. \A x, y, z \in Nat : x <= y => x * z <= y * z
    OBVIOUS
  <2>3. QED
    BY <1>3, <1>4, <2>1, <2>2
<1>6. (l * h) * (r * w) = (l * r) * (w * h) /\ m * (r * w) = (m * r) * w
  BY <1>1
<1>7. QED
  BY <1>5, <1>6 DEF h

\* A counter comes back only after half the values of each digit but the lowest,
\* and all the values of that one.
LEMMA CountsApart ==
  ASSUME NEW r \in Nat \ {0, 1}, NEW n \in Nat \ {0}, NEW d \in Digits(r, n),
         NEW t \in Nat, NEW u \in Nat, t < u,
         NEW c, Counts(c, d, t, r, n), Counts(c, d, u, r, n)
  PROVE  u - t >= r * Weight(r \div 2, n - 1)[n - 1]
<1>0. r \in Nat \ {0} /\ r \div 2 \in Nat \ {0} /\ n - 1 \in Nat
  OBVIOUS
<1>1. PICK a \in [0 .. n - 1 -> Nat] :
        Follows(a, d, t, r, n) /\ c = [k \in 0 .. n - 1 |-> a[k] % r]
  BY DEF Counts
<1>2. PICK b \in [0 .. n - 1 -> Nat] :
        Follows(b, d, u, r, n) /\ c = [k \in 0 .. n - 1 |-> b[k] % r]
  BY DEF Counts
<1>3. \A k \in 0 .. n - 1 : a[k] \in Nat /\ b[k] \in Nat /\ a[k] % r = b[k] % r
  <2>1. TAKE k \in 0 .. n - 1
  <2>2. c[k] = a[k] % r /\ c[k] = b[k] % r
    BY <1>1, <1>2
  <2>3. QED
    BY <2>2
<1>d. d \in [0 .. n - 1 -> Nat]
  BY <1>0, DigitsAreNaturals
<1> DEFINE W == Weight(r \div 2, n - 1)
<1>4. /\ W \in [0 .. n - 1 -> Nat] /\ W[0] = 1
      /\ \A k \in 1 .. n - 1 : W[k] = W[k - 1] * (r \div 2)
  BY <1>0, WeightFacts
<1> HIDE DEF W
<1> DEFINE Apart(k) == \E m \in Nat \ {0} : /\ b[k] = a[k] + m * r
                                            /\ u - t >= (m * r) * W[k]
           S == {k \in 0 .. n - 1 : Apart(k)}
<1>5. 0 \in S
  <2>1. 0 \in 0 .. n - 1
    BY <1>0
  <2>2. a[0] = d[0] + t /\ b[0] = d[0] + u /\ d[0] \in Nat
    BY <1>1, <1>2, <1>d, <2>1 DEF Follows
  <2>3. a[0] < b[0]
    BY <2>2
  <2>4. PICK m \in Nat \ {0} : b[0] = a[0] + m * r
    BY <1>0, <1>3, <2>1, <2>3, SameDigit
  <2>5. (m * r) * W[0] = m * r /\ m * r \in Nat
    BY <1>0, <1>4
  <2>6. u - t = m * r
    <3>1. PICK x : x = d[0]
      OBVIOUS
    <3>2. PICK y : y = m * r
      OBVIOUS
    <3>3. x \in Nat /\ y \in Nat /\ x + u = (x + t) + y
      BY <2>2, <2>4, <2>5, <3>1, <3>2
    <3>4. u - t = y
      BY <3>3
    <3>5. QED
      BY <3>2, <3>4
  <2>7. u - t >= (m * r) * W[0]
    BY <2>5, <2>6
  <2>8. Apart(0)
    BY <2>4, <2>7
  <2> HIDE DEF Apart
  <2>9. QED
    BY <2>1, <2>8
<1>6. ASSUME NEW k \in 0 .. (n - 1) - 1, k \in S PROVE k + 1 \in S
  <2>1. k \in 0 .. n - 1 /\ k + 1 \in 1 .. n - 1 /\ k + 1 \in 0 .. n - 1
        /\ (k + 1) - 1 = k
    BY <1>0
  <2>2. PICK m \in Nat \ {0} : b[k] = a[k] + m * r /\ u - t >= (m * r) * W[k]
    BY <1>6
  <2>3. /\ a[k + 1] = d[k + 1] + Carries(a[k], r) - Carries(d[k], r)
        /\ b[k + 1] = d[k + 1] + Carries(b[k], r) - Carries(d[k], r)
    BY <1>1, <1>2, <2>1 DEF Follows
  <2>4. Carries(b[k], r) = Carries(a[k], r) + 2 * m
    <3>1. Carries(a[k] + m * r, r) = Carries(a[k], r) + 2 * m
      BY <1>0, <1>3, <2>1, CarriesShift
    <3>2. QED
      BY <2>2, <3>1
  <2>5. Carries(a[k], r) \in Nat /\ Carries(d[k], r) \in Nat /\ d[k + 1] \in Nat
    BY <1>0, <1>3, <1>d, <2>1, CarriesType
  <2>6. b[k + 1] = a[k + 1] + 2 * m
    <3> DEFINE D == d[k + 1]
               C == Carries(a[k], r)
               C0 == Carries(d[k], r)
    <3>1. D \in Nat /\ C \in Nat /\ C0 \in Nat /\ 2 * m \in Nat
      BY <2>5
    <3>2. a[k + 1] = D + C - C0 /\ b[k + 1] = D + (C + 2 * m) - C0
      BY <2>3, <2>4
    <3> HIDE DEF D, C, C0, S, Apart
    <3>3. QED
      BY <3>1, <3>2
  <2>7. a[k + 1] \in Nat /\ b[k + 1] \in Nat /\ a[k + 1] % r = b[k + 1] % r
    BY <1>3, <2>1
  <2>8. a[k + 1] < b[k + 1]
    BY <2>6, <2>7
  <2>9. PICK l \in Nat \ {0} : b[k + 1] = a[k + 1] + l * r
    BY <1>0, <2>7, <2>8, SameDigit
  <2>10. l * r \in Nat
    BY <1>0
  <2>11. 2 * m = l * r
    <3>1. \A x, y, z \in Nat : x + y = x + z => y = z
      OBVIOUS
    <3>2. a[k + 1] + 2 * m = a[k + 1] + l * r /\ 2 * m \in Nat
      BY <2>6, <2>9
    <3>3. QED
      BY <2>7, <2>10, <3>1, <3>2
  <2>12. W[k] \in Nat /\ W[k + 1] = W[k] * (r \div 2)
    BY <1>4, <2>1
  <2>13. (m * r) * W[k] >= (l * r) * W[k + 1]
    BY <1>0, <2>11, <2>12, HalfRadix
  <2>14. (m * r) * W[k] \in Nat /\ (l * r) * W[k + 1] \in Nat
    <3>1. W[k + 1] \in Nat
      BY <1>4, <2>1
    <3>2. \A x, y \in Nat : x * y \in Nat
      OBVIOUS
    <3>3. m * r \in Nat
      BY <1>0, <3>2
    <3>4. QED
      BY <2>10, <2>12, <3>1, <3>2, <3>3
  <2>15. u - t >= (l * r) * W[k + 1]
    BY <2>2, <2>13, <2>14
  <2>16. QED
    BY <2>1, <2>9, <2>15
<1>7. n - 1 \in S
  <2>1. 0 .. n - 1 \subseteq S
    <3> HIDE DEF S
    <3> QED BY <1>0, <1>5, <1>6, UpTo
  <2>2. n - 1 \in 0 .. n - 1
    BY <1>0
  <2> HIDE DEF S
  <2>3. QED
    BY <2>1, <2>2
<1>8. PICK m \in Nat \ {0} : u - t >= (m * r) * W[n - 1]
  BY <1>7
<1>9. W[n - 1] \in Nat
  BY <1>0, <1>4
<1>10. (m * r) * W[n - 1] >= r * W[n - 1]
  <2>1. m * r >= r /\ m * r \in Nat
    BY <1>0
  <2>2. \A x, y, z \in Nat : x >= y => x * z >= y * z
    OBVIOUS
  <2>3. QED
    BY <1>0, <1>9, <2>1, <2>2
<1>11. (m * r) * W[n - 1] \in Nat /\ r * W[n - 1] \in Nat
  <2>1. \A x, y \in Nat : x * y \in Nat
    OBVIOUS
  <2>2. m * r \in Nat
    BY <1>0, <2>1
  <2>3. QED
    BY <1>0, <1>9, <2>1, <2>2
<1>12. QED
  BY <1>8, <1>10, <1>11 DEF W

-----------------------------------------------------------------------------
(* Blocks, and the constants. *)

LEMMA SymDiffFacts ==
  /\ \A A, B : SymDiff(A, B) = SymDiff(B, A)
  /\ \A A, B : SymDiff(SymDiff(A, B), B) = A
BY DEF SymDiff

LEMMA SameEnc == \A a, b : Enc({a}) = Enc({b}) => a = b
<1> SUFFICES ASSUME NEW a, NEW b, Enc({a}) = Enc({b}) PROVE a = b
  OBVIOUS
<1>1. <<E, {a}>> = <<E, {b}>>
  BY DEF Enc
<1>2. {a} = {b}
  BY <1>1
<1>3. QED
  BY <1>2

LEMMA Sizes == Byte \in Nat \ {0, 1} /\ Bytes \in Nat \ {0} /\ N \in Nat
<1>1. Len(Plain) \in Nat
  BY LengthAssumption
<1>2. QED
  BY <1>1, CounterAssumption DEF N

-----------------------------------------------------------------------------
(* The inductive invariant. *)

Types ==
  /\ mode \in {"memcpy", "memmgr", "ctr"}
  /\ inplace \in BOOLEAN
  /\ iv0 \in IvBytes
  /\ i \in 1 .. N + 1
  /\ pc \in {"loop", "encrypt", "xor", "restore", "done", "aborted"}
  /\ pc \in {"encrypt", "xor", "restore"} => mode = "ctr" /\ i <= N
  /\ DOMAIN mem = 1 .. 2 * N
  /\ mem = [k \in 1 .. 2 * N |-> mem[k]]

\* c is the counter of block k of a cipher that began with v.
CounterOf(c, k, v) ==
  /\ Counts(c, v, k - 1, Byte, Bytes)
  /\ k = 1 => c = v

\* Block k of the output is the input mixed with its encrypted counter.
Mixed(block, k, v) ==
  \E c \in IvBytes :
    CounterOf(c, k, v) /\ block = SymDiff(Enc({c}), {Plain[k]})

\* What counter mode knows between its steps.
Stages ==
  mode = "ctr" /\ ~inplace =>
    /\ CounterOf(iv, i, iv0)
    /\ \A k \in 1 .. i - 1 : Mixed(mem[N + k], k, iv0)
    /\ pc \in {"encrypt", "xor", "restore"} => temp = {Plain[i]}
    /\ pc = "encrypt" => mem[i] = {iv}
    /\ pc = "xor" => mem[N + i] = Enc({iv})
    /\ pc = "restore" => Mixed(mem[N + i], i, iv0)

IInv == Types /\ Chained /\ InputKept /\ Stages

LEMMA InitInv == Init => IInv
<1> SUFFICES ASSUME Init PROVE IInv
  OBVIOUS
<1> USE Sizes
<1>1. Types
  <2>1. mem = [k \in 1 .. 2 * N |-> IF k <= N THEN {Plain[k]} ELSE {}]
    BY DEF Init
  <2>2. DOMAIN mem = 1 .. 2 * N /\ mem = [k \in 1 .. 2 * N |-> mem[k]]
    BY <2>1
  <2>3. QED
    BY <2>2 DEF Init, Types
<1>2. \A k \in 1 .. N : mem[k] = {Plain[k]}
  <2>1. \A k \in 1 .. N : k \in 1 .. 2 * N /\ k <= N
    OBVIOUS
  <2>2. QED
    BY <2>1 DEF Init
<1>3. Chained
  <2>1. i = 1 /\ 1 .. i - 1 = {}
    BY DEF Init
  <2>2. QED
    BY <1>2, <2>1 DEF Chained
<1>4. InputKept
  BY <1>2 DEF InputKept, In
<1>5. Stages
  <2>1. i = 1 /\ 1 .. i - 1 = {} /\ iv = iv0 /\ pc = "loop" /\ iv0 \in IvBytes
    BY DEF Init
  <2>2. Counts(iv0, iv0, 1 - 1, Byte, Bytes)
    BY <2>1, CountsFirst DEF IvBytes
  <2>3. QED
    BY <2>1, <2>2 DEF Stages, CounterOf
<1>6. QED
  BY <1>1, <1>3, <1>4, <1>5 DEF IInv

-----------------------------------------------------------------------------
(* The steps of CBC. *)

LEMMA MemcpyStep == IInv /\ cbc_memcpy => IInv'
<1> SUFFICES ASSUME IInv, cbc_memcpy PROVE IInv'
  OBVIOUS
<1> USE Sizes
<1>1. /\ Types /\ Chained /\ InputKept
      /\ mode = "memcpy" /\ pc = "loop" /\ i \in 1 .. N
      /\ UNCHANGED <<mode, inplace, iv0, temp, iv>>
  BY DEF IInv, cbc_memcpy, InLoop, Types
<1>2. Stages'
  BY <1>1 DEF Stages
<1>3. CASE pc' = "done" /\ UNCHANGED <<mem, i>>
  <2>1. Types'
    BY <1>1, <1>3 DEF Types
  <2>2. Chained'
    BY <1>1, <1>3 DEF Chained, Out
  <2>3. InputKept'
    BY <1>1, <1>3 DEF InputKept, In
  <2>4. QED
    BY <1>2, <2>1, <2>2, <2>3 DEF IInv
<1>4. CASE /\ mem' = [mem EXCEPT ![Out(i)] = Enc(current_data)]
           /\ i' = i + 1
           /\ UNCHANGED <<pc, ret>>
  <2>1. Out(i) \in 1 .. 2 * N /\ \A k \in 1 .. N : k # i => k # Out(i)
    BY <1>1 DEF Out, Types
  <2>2. Types'
    <3>1. DOMAIN mem' = 1 .. 2 * N /\ mem' = [k \in 1 .. 2 * N |-> mem'[k]]
      BY <1>1, <1>4 DEF Types
    <3>2. i' \in 1 .. N + 1
      BY <1>1, <1>4
    <3>3. QED
      BY <1>1, <1>4, <3>1, <3>2 DEF Types
  <2>3. Chained'
    <3>1. \A k \in 1 .. N : mem[k] = {Plain[k]} \/ k < i
      <4>1. \A k \in i .. N : mem[k] = {Plain[k]}
        BY <1>1 DEF Chained
      <4>2. \A k \in 1 .. N : k \in i .. N \/ k < i
        BY <1>1
      <4>3. QED
        BY <4>1, <4>2
    <3>2. ASSUME NEW k \in (i + 1) .. N PROVE mem'[k] = {Plain[k]}
      <4>1. k \in 1 .. N /\ k \in 1 .. 2 * N /\ k # i /\ ~ (k < i)
        BY <1>1
      <4>2. QED
        BY <1>1, <1>4, <2>1, <3>1, <4>1 DEF Types
    <3>3. ASSUME NEW k \in 1 .. i - 1
          PROVE  /\ mem'[Out(k)] = mem[Out(k)]
                 /\ k # 1 => mem'[Out(k - 1)] = mem[Out(k - 1)]
      <4>1. Out(k) \in 1 .. 2 * N /\ Out(k) # Out(i)
        BY <1>1 DEF Out, Types
      <4>2. k # 1 => Out(k - 1) \in 1 .. 2 * N /\ Out(k - 1) # Out(i)
        BY <1>1 DEF Out, Types
      <4>3. QED
        BY <1>1, <1>4, <4>1, <4>2 DEF Types
    <3>4. mem'[Out(i)] = Enc(SymDiff({Plain[i]}, current_iv))
      <4>1. mem'[Out(i)] = Enc(current_data)
        BY <1>1, <1>4, <2>1 DEF Types
      <4>2. mem[i] = {Plain[i]}
        BY <1>1, <3>1
      <4>3. current_data = SymDiff(current_iv, {Plain[i]})
        BY <4>2 DEF current_data, In
      <4>4. SymDiff(current_iv, {Plain[i]}) = SymDiff({Plain[i]}, current_iv)
        BY SymDiffFacts
      <4>5. QED
        BY <4>1, <4>3, <4>4
    <3>5. i # 1 => mem'[Out(i - 1)] = mem[Out(i - 1)]
      <4>1. i # 1 => i - 1 \in 1 .. i - 1
        BY <1>1
      <4>2. QED
        BY <3>3, <4>1
    <3>6. \A k : Out(k)' = Out(k)
      BY <1>1 DEF Out
    <3>7. ASSUME NEW k \in 1 .. i
          PROVE  mem'[Out(k)] = Enc(SymDiff({Plain[k]},
                                   IF k = 1 THEN {Iv} ELSE mem'[Out(k - 1)]))
      <4>1. CASE k = i
        BY <3>4, <3>5, <4>1 DEF current_iv
      <4>2. CASE k # i
        <5>1. k \in 1 .. i - 1
          BY <1>1, <4>2
        <5>2. mem[Out(k)] = Enc(SymDiff({Plain[k]},
                                   IF k = 1 THEN {Iv} ELSE mem[Out(k - 1)]))
          BY <1>1, <5>1 DEF Chained
        <5>3. QED
          BY <3>3, <5>1, <5>2
      <4>3. QED
        BY <4>1, <4>2
    <3>8. i' - 1 = i
      BY <1>1, <1>4
    <3>9. \A k \in 1 .. i' - 1 :
            mem'[Out(k)'] = Enc(SymDiff({Plain[k]},
                              IF k = 1 THEN {Iv} ELSE mem'[Out(k - 1)']))
      BY <3>6, <3>7, <3>8
    <3>10. \A k \in i' .. N : mem'[k] = {Plain[k]}
      BY <1>4, <3>2
    <3>11. QED
      BY <3>9, <3>10 DEF Chained
  <2>4. InputKept'
    <3>1. CASE inplace
      BY <1>1, <3>1 DEF InputKept
    <3>2. CASE ~inplace
      <4>1. ASSUME NEW k \in 1 .. N PROVE mem'[k] = {Plain[k]}
        <5>1. mem[k] = {Plain[k]}
          BY <1>1, <3>2 DEF InputKept, In
        <5>2. k \in 1 .. 2 * N /\ k # Out(i)
          BY <1>1, <3>2 DEF Out
        <5>3. QED
          BY <1>1, <1>4, <5>1, <5>2 DEF Types
      <4>2. QED
        BY <4>1 DEF InputKept, In
    <3>3. QED
      BY <3>1, <3>2
  <2>5. QED
    BY <1>2, <2>2, <2>3, <2>4 DEF IInv
<1>5. QED
  BY <1>3, <1>4 DEF cbc_memcpy

LEMMA MemmgrStep == IInv /\ cbc_memmgr => IInv'
<1> SUFFICES ASSUME IInv, cbc_memmgr PROVE IInv'
  OBVIOUS
<1> USE Sizes
<1>1. /\ Types /\ InputKept
      /\ mode = "memmgr" /\ pc = "loop" /\ pc' = "aborted"
      /\ UNCHANGED <<mode, inplace, iv0, mem, i, temp, iv>>
  BY DEF IInv, cbc_memmgr, InLoop
<1>2. Types'
  BY <1>1 DEF Types
<1>3. Chained' /\ Stages'
  BY <1>1 DEF Chained, Stages
<1>4. InputKept'
  BY <1>1 DEF InputKept, In
<1>5. QED
  BY <1>2, <1>3, <1>4 DEF IInv

-----------------------------------------------------------------------------
(* The steps of counter mode. *)

\* What a step that writes one block leaves alone.
LEMMA OtherBlocks ==
  ASSUME NEW f, NEW g, NEW n, NEW o \in 1 .. n, NEW x,
         f = [k \in 1 .. n |-> f[k]], g = [f EXCEPT ![o] = x]
  PROVE  /\ DOMAIN g = 1 .. n
         /\ g = [k \in 1 .. n |-> g[k]]
         /\ g[o] = x
         /\ \A k \in 1 .. n : k # o => g[k] = f[k]
OBVIOUS

LEMMA SaveStep == IInv /\ ctr_Save => IInv'
<1> SUFFICES ASSUME IInv, ctr_Save PROVE IInv'
  OBVIOUS
<1> USE Sizes
<1>1. /\ Types /\ InputKept /\ Stages
      /\ mode = "ctr" /\ pc = "loop" /\ i \in 1 .. N
      /\ temp' = mem[i]
      /\ mem' = [mem EXCEPT ![i] = {iv}]
      /\ pc' = "encrypt"
      /\ UNCHANGED <<mode, inplace, iv0, i, iv>>
  BY DEF IInv, ctr_Save, InLoop, Types, In
<1>2. /\ i \in 1 .. 2 * N
      /\ mem = [k \in 1 .. 2 * N |-> mem[k]]
  BY <1>1 DEF Types
<1>3. /\ DOMAIN mem' = 1 .. 2 * N
      /\ mem' = [k \in 1 .. 2 * N |-> mem'[k]]
      /\ mem'[i] = {iv}
      /\ \A k \in 1 .. 2 * N : k # i => mem'[k] = mem[k]
  BY <1>1, <1>2, OtherBlocks
<1>4. Types'
  BY <1>1, <1>3 DEF Types
<1>5. Chained'
  BY <1>1 DEF Chained
<1>6. InputKept'
  <2>1. CASE inplace
    BY <1>1, <2>1 DEF InputKept
  <2>2. CASE ~inplace
    <3>1. \A k \in 1 .. N : mem[k] = {Plain[k]}
      BY <1>1, <2>2 DEF InputKept, In
    <3>2. \A k \in 1 .. N : k # i => mem'[k] = {Plain[k]}
      BY <1>3, <3>1
    <3>3. temp' = {Plain[i]}
      BY <1>1, <3>1
    <3>4. QED
      BY <1>1, <3>2, <3>3 DEF InputKept, In
  <2>3. QED
    BY <2>1, <2>2
<1>7. Stages'
  <2>1. CASE inplace
    BY <1>1, <2>1 DEF Stages
  <2>2. CASE ~inplace
    <3>1. CounterOf(iv, i, iv0) /\ \A k \in 1 .. i - 1 : Mixed(mem[N + k], k, iv0)
      BY <1>1, <2>2 DEF Stages
    <3>2. \A k \in 1 .. i - 1 : mem'[N + k] = mem[N + k]
      <4>1. \A k \in 1 .. i - 1 : N + k \in 1 .. 2 * N /\ N + k # i
        BY <1>1
      <4>2. QED
        BY <1>3, <4>1
    <3>3. \A k \in 1 .. i - 1 : Mixed(mem'[N + k], k, iv0)
      BY <3>1, <3>2
    <3>4. temp' = {Plain[i]}
      BY <1>1, <2>2 DEF InputKept, In
    <3>5. QED
      BY <1>1, <1>3, <3>1, <3>3, <3>4 DEF Stages
  <2>3. QED
    BY <2>1, <2>2
<1>8. QED
  BY <1>4, <1>5, <1>6, <1>7 DEF IInv

\* The steps that write the output.
LEMMA OutputStep ==
  ASSUME IInv, mode = "ctr", pc \in {"encrypt", "xor"},
         NEW block, mem' = [mem EXCEPT ![Out(i)] = block],
         pc' \in {"xor", "restore"},
         UNCHANGED <<mode, inplace, iv0, i, temp, iv>>,
         ~inplace =>
           /\ pc' = "xor" => block = Enc({iv})
           /\ pc' = "restore" => Mixed(block, i, iv0)
  PROVE  IInv'
<1> USE Sizes
<1>1. Types /\ InputKept /\ Stages /\ i \in 1 .. N
  BY DEF IInv, Types
<1>2. Out(i) \in 1 .. 2 * N /\ mem = [k \in 1 .. 2 * N |-> mem[k]]
  BY <1>1 DEF Types, Out
<1>3. /\ DOMAIN mem' = 1 .. 2 * N
      /\ mem' = [k \in 1 .. 2 * N |-> mem'[k]]
      /\ mem'[Out(i)] = block
      /\ \A k \in 1 .. 2 * N : k # Out(i) => mem'[k] = mem[k]
  BY <1>1, <1>2, OtherBlocks
<1>4. Types'
  BY <1>1, <1>3 DEF Types
<1>5. Chained'
  BY <1>1 DEF Chained
<1>6. CASE inplace
  <2>1. InputKept' /\ Stages'
    BY <1>6 DEF InputKept, Stages
  <2>2. QED
    BY <1>4, <1>5, <2>1 DEF IInv
<1>7. CASE ~inplace
  <2>1. Out(i) = N + i
    BY <1>7 DEF Out
  <2>2. \A k \in 1 .. N : mem'[k] = mem[k]
    <3>1. \A k \in 1 .. N : k \in 1 .. 2 * N /\ k # N + i
      BY <1>1
    <3>2. QED
      BY <1>3, <2>1, <3>1
  <2>3. InputKept'
    <3>1. ASSUME NEW k \in 1 .. N
          PROVE  mem[k] = {Plain[k]} \/ (k = i /\ temp = {Plain[k]})
      BY <1>1, <1>7 DEF InputKept, In
    <3>2. QED
      BY <2>2, <3>1 DEF InputKept, In
  <2>4. \A k \in 1 .. i - 1 : Mixed(mem'[N + k], k, iv0)
    <3>1. \A k \in 1 .. i - 1 : Mixed(mem[N + k], k, iv0)
      BY <1>1, <1>7 DEF Stages
    <3>2. \A k \in 1 .. i - 1 : N + k \in 1 .. 2 * N /\ N + k # N + i
      BY <1>1
    <3>3. \A k \in 1 .. i - 1 : mem'[N + k] = mem[N + k]
      BY <1>3, <2>1, <3>2
    <3>4. QED
      BY <3>1, <3>3
  <2>5. CounterOf(iv, i, iv0) /\ temp = {Plain[i]}
    BY <1>1, <1>7 DEF Stages
  <2>6. Stages'
    BY <1>3, <1>7, <2>1, <2>4, <2>5 DEF Stages
  <2>7. QED
    BY <1>4, <1>5, <2>3, <2>6 DEF IInv
<1>8. QED
  BY <1>6, <1>7

LEMMA EncryptStep == IInv /\ ctr_Encrypt => IInv'
<1> SUFFICES ASSUME IInv, ctr_Encrypt PROVE IInv'
  OBVIOUS
<1>1. /\ pc = "encrypt" /\ mode = "ctr" /\ pc' = "xor"
      /\ mem' = [mem EXCEPT ![Out(i)] = Enc(mem[i])]
      /\ UNCHANGED <<mode, inplace, iv0, i, temp, iv>>
  BY DEF IInv, Types, ctr_Encrypt, In
<1>2. ~inplace => mem[i] = {iv}
  BY <1>1 DEF IInv, Stages
<1>3. QED
  BY <1>1, <1>2, OutputStep

LEMMA XorStep == IInv /\ ctr_Xor => IInv'
<1> SUFFICES ASSUME IInv, ctr_Xor PROVE IInv'
  OBVIOUS
<1> USE Sizes
<1> DEFINE block == SymDiff(mem[Out(i)], temp)
<1>1. /\ pc = "xor" /\ mode = "ctr" /\ pc' = "restore"
      /\ mem' = [mem EXCEPT ![Out(i)] = block]
      /\ UNCHANGED <<mode, inplace, iv0, i, temp, iv>>
      /\ i \in 1 .. N
  BY DEF IInv, Types, ctr_Xor
<1>2. ~inplace => Mixed(block, i, iv0)
  <2>1. SUFFICES ASSUME ~inplace PROVE Mixed(block, i, iv0)
    OBVIOUS
  <2>2. CounterOf(iv, i, iv0) /\ mem[N + i] = Enc({iv}) /\ Out(i) = N + i
    BY <1>1, <2>1 DEF IInv, Stages, Out
  <2>3. iv \in IvBytes
    BY <2>2, CountsType DEF CounterOf, IvBytes
  <2>4. block = SymDiff(Enc({iv}), {Plain[i]})
    BY <1>1, <2>1, <2>2 DEF IInv, Stages
  <2>5. QED
    BY <2>2, <2>3, <2>4 DEF Mixed
<1> HIDE DEF block
<1>3. QED
  BY <1>1, <1>2, OutputStep

LEMMA RestoreStep == IInv /\ ctr_Restore => IInv'
<1> SUFFICES ASSUME IInv, ctr_Restore PROVE IInv'
  OBVIOUS
<1> USE Sizes
<1>1. /\ Types /\ InputKept /\ Stages
      /\ mode = "ctr" /\ pc = "restore" /\ i \in 1 .. N
      /\ mem' = [mem EXCEPT ![i] = temp]
      /\ iv' = Increment(iv, Byte, Bytes)
      /\ i' = i + 1
      /\ pc' = "loop"
      /\ UNCHANGED <<mode, inplace, iv0, temp>>
  BY DEF IInv, ctr_Restore, Types, In
<1>2. /\ i \in 1 .. 2 * N
      /\ mem = [k \in 1 .. 2 * N |-> mem[k]]
  BY <1>1 DEF Types
<1>3. /\ DOMAIN mem' = 1 .. 2 * N
      /\ mem' = [k \in 1 .. 2 * N |-> mem'[k]]
      /\ mem'[i] = temp
      /\ \A k \in 1 .. 2 * N : k # i => mem'[k] = mem[k]
  BY <1>1, <1>2, OtherBlocks
<1>4. Types'
  <2>1. i' \in 1 .. N + 1
    BY <1>1
  <2>2. QED
    BY <1>1, <1>3, <2>1 DEF Types
<1>5. Chained'
  BY <1>1 DEF Chained
<1>6. CASE inplace
  <2>1. InputKept' /\ Stages'
    BY <1>1, <1>6 DEF InputKept, Stages
  <2>2. QED
    BY <1>4, <1>5, <2>1 DEF IInv
<1>7. CASE ~inplace
  <2>1. /\ CounterOf(iv, i, iv0)
        /\ \A k \in 1 .. i - 1 : Mixed(mem[N + k], k, iv0)
        /\ temp = {Plain[i]}
        /\ Mixed(mem[N + i], i, iv0)
    BY <1>1, <1>7 DEF Stages
  <2>2. InputKept'
    <3>1. ASSUME NEW k \in 1 .. N PROVE mem'[k] = {Plain[k]}
      <4>1. CASE k = i
        BY <1>3, <2>1, <4>1
      <4>2. CASE k # i
        <5>1. mem[k] = {Plain[k]}
          BY <1>1, <1>7, <4>2 DEF InputKept, In
        <5>2. QED
          BY <1>3, <4>2, <5>1
      <4>3. QED
        BY <4>1, <4>2
    <3>2. QED
      BY <3>1 DEF InputKept, In
  <2>3. \A k \in 1 .. i' - 1 : Mixed(mem'[N + k], k, iv0)
    <3>1. \A k \in 1 .. i : N + k \in 1 .. 2 * N /\ N + k # i
      BY <1>1
    <3>2. \A k \in 1 .. i : k \in 1 .. i - 1 \/ k = i
      BY <1>1
    <3>3. \A k \in 1 .. i : Mixed(mem'[N + k], k, iv0)
      BY <1>3, <2>1, <3>1, <3>2
    <3>4. i' - 1 = i
      BY <1>1
    <3>5. QED
      BY <3>3, <3>4
  <2>4. CounterOf(iv', i', iv0)
    <3>1. i - 1 \in Nat /\ iv0 \in Digits(Byte, Bytes)
      BY <1>1 DEF Types, IvBytes
    <3>2. Counts(Increment(iv, Byte, Bytes), iv0, (i - 1) + 1, Byte, Bytes)
      BY <2>1, <3>1, CountsNext DEF CounterOf
    <3>3. (i - 1) + 1 = i' - 1 /\ i' # 1
      BY <1>1
    <3>4. QED
      BY <1>1, <3>2, <3>3 DEF CounterOf
  <2>5. Stages'
    BY <1>1, <2>3, <2>4 DEF Stages
  <2>6. QED
    BY <1>4, <1>5, <2>2, <2>5 DEF IInv
<1>8. QED
  BY <1>6, <1>7

LEMMA NextStep == IInv /\ [Next]_vars => IInv'
<1> SUFFICES ASSUME IInv, [Next]_vars PROVE IInv'
  OBVIOUS
<1>1. CASE Return
  <2>1. /\ pc = "loop" /\ pc' = "done"
        /\ UNCHANGED <<mode, inplace, iv0, mem, i, temp, iv>>
    BY <1>1 DEF Return
  <2>2. Types'
    BY <2>1 DEF IInv, Types
  <2>3. Chained'
    BY <2>1 DEF IInv, Chained, Out
  <2>4. InputKept'
    BY <2>1 DEF IInv, InputKept, In
  <2>5. Stages'
    BY <2>1 DEF IInv, Stages
  <2>6. QED
    BY <2>2, <2>3, <2>4, <2>5 DEF IInv
<1>2. CASE UNCHANGED vars
  BY <1>2 DEF vars, IInv, Types, Chained, Out, InputKept, In, Stages
<1>3. QED
  BY <1>1, <1>2, MemcpyStep, MemmgrStep, SaveStep, EncryptStep, XorStep,
     RestoreStep DEF Next

-----------------------------------------------------------------------------
(* The theorems. *)

\* What the loops know is so in every state, for every input and counter.
THEOREM Invariance == Spec => []IInv
<1>1. QED
  BY InitInv, NextStep, PTL DEF Spec

\* Aes_encrypt_cbc_run: the output is chained, in place or not, and the part of the
\* input not read yet is as it was, for every length.
THEOREM CbcChained == Spec => []Chained
<1>1. IInv => Chained
  BY DEF IInv
<1>2. QED
  BY <1>1, Invariance, PTL

\* Aes_encrypt_ctr_run gives back the input it writes its counters over.
THEOREM CtrKeepsInput == Spec => []InputKept
<1>1. IInv => InputKept
  BY DEF IInv
<1>2. QED
  BY <1>1, Invariance, PTL

LEMMA FreshCounters == IInv => KeystreamFresh
<1> SUFFICES ASSUME IInv, mode = "ctr", ~inplace PROVE KeystreamFresh
  BY DEF KeystreamFresh
<1> USE Sizes
<1> DEFINE stream == [k \in 1 .. i - 1 |-> SymDiff(mem[Out(k)], {Plain[k]})]
<1>1. /\ \A k \in 1 .. i - 1 : Mixed(mem[N + k], k, iv0)
      /\ i \in 1 .. N + 1 /\ iv0 \in Digits(Byte, Bytes)
  BY DEF IInv, Stages, Types, IvBytes
<1>2. \A k \in 1 .. i - 1 : \E c \in IvBytes :
        CounterOf(c, k, iv0) /\ stream[k] = Enc({c})
  <2>1. TAKE k \in 1 .. i - 1
  <2>2. PICK c \in IvBytes :
          CounterOf(c, k, iv0) /\ mem[N + k] = SymDiff(Enc({c}), {Plain[k]})
    BY <1>1 DEF Mixed
  <2>3. stream[k] = SymDiff(SymDiff(Enc({c}), {Plain[k]}), {Plain[k]})
    BY <2>2 DEF Out
  <2>4. stream[k] = Enc({c})
    BY <2>3, SymDiffFacts
  <2> HIDE DEF stream
  <2>5. QED
    BY <2>2, <2>4
<1> HIDE DEF stream
<1>3. ASSUME i > 1 PROVE stream[1] = Enc({iv0})
  <2>1. 1 \in 1 .. i - 1
    BY <1>1, <1>3
  <2>2. PICK c \in IvBytes : CounterOf(c, 1, iv0) /\ stream[1] = Enc({c})
    BY <1>2, <2>1
  <2>3. QED
    BY <2>2 DEF CounterOf
<1>4. ASSUME NEW k \in 1 .. i - 1, NEW l \in 1 .. i - 1,
             stream[k] = stream[l], k < l
      PROVE  FALSE
  <2>1. PICK c \in IvBytes : CounterOf(c, k, iv0) /\ stream[k] = Enc({c})
    BY <1>2
  <2>2. PICK e \in IvBytes : CounterOf(e, l, iv0) /\ stream[l] = Enc({e})
    BY <1>2
  <2>3. c = e
    BY <1>4, <2>1, <2>2, SameEnc
  <2>4. /\ Counts(c, iv0, k - 1, Byte, Bytes)
        /\ Counts(c, iv0, l - 1, Byte, Bytes)
    BY <2>1, <2>2, <2>3 DEF CounterOf
  <2>5. k - 1 \in Nat /\ l - 1 \in Nat /\ k - 1 < l - 1
    BY <1>1, <1>4
  <2> DEFINE M == Byte * Weight(Byte \div 2, Bytes - 1)[Bytes - 1]
  <2>6. (l - 1) - (k - 1) >= M
    BY <1>1, <2>4, <2>5, CountsApart
  <2>7. M \in Nat /\ N \in 0 .. M
    <3>1. Byte \div 2 \in Nat /\ Bytes - 1 \in Nat
      OBVIOUS
    <3>2. Weight(Byte \div 2, Bytes - 1)[Bytes - 1] \in Nat
      BY <3>1, WeightFacts
    <3>3. QED
      BY <3>2, LengthAssumption DEF N
  <2> HIDE DEF M
  <2>8. QED
    BY <1>1, <1>4, <2>6, <2>7
<1>5. \A k, l \in 1 .. i - 1 : stream[k] = stream[l] => k = l
  <2>1. TAKE k, l \in 1 .. i - 1
  <2>2. k = l \/ k < l \/ l < k
    BY <1>1
  <2>3. QED
    BY <1>4, <2>2
<1>6. QED
  BY <1>2, <1>3, <1>5 DEF KeystreamFresh, stream

\* Aes_encrypt_ctr_run mixes no two blocks with the same keystream, as long as the
\* input has no more blocks than incrementIv has counters.
THEOREM NoCounterTwice == Spec => []KeystreamFresh
<1>1. QED
  BY FreshCounters, Invariance, PTL
=============================================================================
