------------------------------ MODULE MCCurve ------------------------------
(***************************************************************************)
(* The points of both implementations on a curve of 104 points over the    *)
(* integers modulo 101, with a base point of order 13: the operands and    *)
(* the properties of MCArith's jobs on points.                             *)
(***************************************************************************)
EXTENDS Ge

R == INSTANCE Ge25519

VARIABLE job

Order == 13

\* a point in the coordinates of ed25519, with some Z; and in those of the reference
Extended(q, z) == [X |-> El(q[1] * z, 101), Y |-> El(q[2] * z, 101), Z |-> El(z, 101),
                   T |-> El(((q[1] * q[2]) % P) * z, 101)]
RefExtended(q, z) == [x |-> (q[1] * z) % P, y |-> (q[2] * z) % P, z |-> z,
                      t |-> (((q[1] * q[2]) % P) * z) % P]

Point(t) == ge_p1p1_to_p3(ge_p3_0, t)

\* the affine points of a p3 or p2, and of a p1p1
Affine(h) == <<(h.X.v * Inv[h.Z.v]) % P, (h.Y.v * Inv[h.Z.v]) % P>>
RefAffine(h) == <<(h.x * Inv[h.z]) % P, (h.y * Inv[h.z]) % P>>
\* a p3, with a T that fits
Is(h, q) == Affine(h) = q /\ h.T.v = (h.X.v * h.Y.v * Inv[h.Z.v]) % P
RefIs(h, q) == RefAffine(h) = q /\ h.t = (h.x * h.y * Inv[h.z]) % P
Bounded(h) == \A c \in DOMAIN h : h[c].b <= 101

Few == {q \in Curve : q[1] < 8}
Scalars == {MapThenSumSet(LAMBDA i : t[i] * 16^i, 0 .. 3) :
              t \in [0 .. 3 -> {0, 1, 7, 8, 15}]} \cap 0 .. 2^(N - 3) - 1
Pairs == {s \in Scalars : s % 16 \in {1, 15} /\ (s \div 16) % 16 \in {0, 8}}

CurveInputs == [add      |-> Curve \X Few,
                double   |-> Curve \X {1, 2, 50},
                decode   |-> [y : 0 .. 127, sign : {0, 1}],
                base     |-> Scalars,
                two      |-> Pairs \X {s + 6 : s \in Pairs} \X {q \in Few : q[1] = 2},
                exchange |-> {8 * (s % 512) + 7 : s \in Scalars} \X {q \in Few : q[1] < 4}]

-----------------------------------------------------------------------------
Asked(kind) == job[1] = kind /\ Len(job) = 2
Input == job[2]

\* What the formulas give is the sum on the curve, for every pair of points,
\* equal, opposite and neutral ones among them, and every coordinate Z.
PointsRight ==
  /\ Asked("add") =>
       LET p == Extended(Input[1], 3)
           q == Extended(Input[2], 5)
           c == ge_p3_to_cached(q)
           k == Precomputed(Input[2])
           sum == Plus(Input[1], Input[2])
           difference == Plus(Input[1], Minus(Input[2]))
           rp == RefExtended(Input[1], 3)
       IN  /\ Is(Point(ge_add(p, c)), sum)
           /\ Is(Point(ge_madd(p, k)), sum)
           /\ Is(Point(ge_sub(p, c)), difference)
           /\ Is(Point(ge_msub(p, k)), difference)
           /\ RefIs(R!p1p1_to_p3(R!add_p1p1(rp, RefExtended(Input[2], 5))), sum)
           /\ RefIs(R!ge25519_mixadd2(rp, [x |-> Input[2][1], y |-> Input[2][2]]), sum)
           /\ R!ge25519_isneutral_vartime(R!p1p1_to_p3(R!add_p1p1(rp, RefExtended(Input[2], 5))))
                <=> sum = Neutral
  /\ Asked("double") =>
       LET two == Plus(Input[1], Input[1])
       IN  /\ Is(Point(ge_p3_dbl(Extended(Input[1], Input[2]))), two)
           /\ RefIs(R!p1p1_to_p3(R!dbl_p1p1(RefExtended(Input[1], Input[2]))), two)

\* A point that is packed and unpacked comes back negated; what is not the
\* encoding of a point is refused; numbers of the prime or more are taken
\* modulo it.
EncodingRight ==
  /\ Asked("double") =>
       LET s == ge_p3_tobytes(Extended(Input[1], Input[2]))
           h == ge_frombytes_negate_vartime(s)
           r == R!ge25519_unpackneg_vartime(s)
       IN  /\ s = R!ge25519_pack(RefExtended(Input[1], Input[2]))
           /\ s.y \in Residues
           /\ h.ok /\ Is(h.point, Minus(Input[1]))
           /\ r.ok /\ RefIs(r.point, Minus(Input[1]))
  /\ Asked("decode") =>
       LET there == {q \in Curve : q[2] = Input.y % P}
           h == ge_frombytes_negate_vartime(Input)
           r == R!ge25519_unpackneg_vartime(Input)
       IN  /\ h.ok <=> there # {}
           /\ r.ok <=> there # {}
           /\ h.ok => Affine(h.point) \in there /\ Affine(h.point) = RefAffine(r.point)

\* Multiples of the base point and of two points at once, and the ladder of
\* the key exchange, give the multiples that the addition law of the curve makes.
MultiplesRight ==
  LET Base_(n) == Multiples(Base, Order)[n % Order]
      Multiple(q, n) ==    \* of the 104 points: n is 8 a + b
        Plus(Multiples(Doubled(q, 3), 13)[(n % 104) \div 8], Multiples(q, 8)[n % 8])
      Mont(q) == ((1 + q[2]) * Inv[(1 - q[2]) % P]) % P
  IN  /\ Asked("base") =>
           /\ Is(ge_scalarmult_base(Input), Base_(Input))
           /\ RefIs(R!ge25519_scalarmult_base(Input), Base_(Input))
      /\ Asked("two") =>
           LET a == Input[1]
               b == Input[2]
               q == Input[3]
               sum == Plus(Multiple(q, a), Base_(b))
           IN  /\ Affine(ge_double_scalarmult_vartime(a, Extended(q, 3), b)) = sum
               /\ RefIs(R!ge25519_double_scalarmult_vartime(
                          RefExtended(q, 3), a, RefExtended(Base, 1), b), sum)
      /\ Asked("exchange") =>
           LET q == Input[2]
           IN  ed25519_key_exchange(q[2], Input[1])
                 = Mont(Multiple(q, Clamp(Input[1])))

\* No limb ever grows beyond what the next product can take: every result is
\* within the bounds of a carried product.
LimbsBounded ==
  /\ Asked("add") =>
       LET p == Extended(Input[1], 3)
           c == ge_p3_to_cached(Extended(Input[2], 5))
           k == Precomputed(Input[2])
       IN  \A h \in {ge_add(p, c), ge_sub(p, c), ge_madd(p, k), ge_msub(p, k)} :
             Bounded(Point(h))
  /\ Asked("double") => Bounded(Point(ge_p3_dbl(Extended(Input[1], Input[2]))))
  /\ Asked("decode") => LET h == ge_frombytes_negate_vartime(Input)
                          IN  h.ok => Bounded(h.point)
  /\ Asked("base") => Bounded(ge_scalarmult_base(Input))
  /\ Asked("two") => Bounded(ge_double_scalarmult_vartime(Input[1], Extended(Input[3], 3), Input[2]))
=============================================================================
