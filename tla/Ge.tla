--------------------------------- MODULE Ge ---------------------------------
(***************************************************************************)
(* ed25519/ge.c and the ladder of key_exchange.c.  A field element is its  *)
(* value modulo P and a bound b of its limbs, in hundredths of 2^25 (2^24  *)
(* at odd places), as the comments of fe.c count them: sums and            *)
(* differences are not carried, and a product of limbs above 3.3 would     *)
(* overflow.  What the functions of fe.c do inside is in module Fe.        *)
(***************************************************************************)
EXTENDS Edwards, Recode

CONSTANTS Base      \* the base point, of odd order

Broken == 10000     \* the bound of what came out of an overflow

El(v, b) == [v |-> v % P, b |-> b]
Carried(v, ok) == El(v, IF ok THEN 101 ELSE Broken)

fe_0 == El(0, 0)
fe_1 == El(1, 1)
fe_add(f, g) == El(f.v + g.v, f.b + g.b)
fe_sub(f, g) == El(f.v - g.v, f.b + g.b)
fe_neg(f) == El(-f.v, f.b)
fe_mul(f, g) == Carried(f.v * g.v, f.b <= 330 /\ g.b <= 330)
fe_sq(f) == Carried(f.v * f.v, f.b <= 330)
fe_sq2(f) == Carried(2 * f.v * f.v, f.b <= 330)
fe_mul121666(f) == El(Inv[(1 + D) % P] * f.v, IF f.b <= 220 THEN 110 ELSE Broken)
fe_invert(f) == Carried(Inv[f.v], f.b <= 330)
fe_pow22523(f) == Carried(Pow(f.v, (P - 5) \div 8), f.b <= 330)
fe_cswap(f, g, b) == IF b = 1 THEN <<g, f>> ELSE <<f, g>>

\* the canonical value, or something that is none if a bound was too large
fe_tobytes(f) == IF f.b <= 220 THEN f.v ELSE P
fe_isnegative(f) == fe_tobytes(f) % 2
fe_isnonzero(f) == fe_tobytes(f) # 0
fe_frombytes(y) == El(y, 101)

d == El(D, 100)
d2 == El(2 * D, 100)
sqrtm1 == El(RootMinusOne, 100)

-----------------------------------------------------------------------------
(* Points: p2 has X, Y, Z; p3 also T = XY/Z; p1p1 is ((X:Z), (Y:T)).  A p1p1 *)
(* is written over the point r, which is ge_p3_0 where the code has a local  *)
(* that is not set yet: nothing of it is left.                               *)

ge_p2_0 == [X |-> fe_0, Y |-> fe_1, Z |-> fe_1]
ge_p3_0 == [X |-> fe_0, Y |-> fe_1, Z |-> fe_1, T |-> fe_0]

ge_p1p1_to_p2(r, p) ==
  [r EXCEPT !.X = fe_mul(p.X, p.T), !.Y = fe_mul(p.Y, p.Z), !.Z = fe_mul(p.Z, p.T)]
ge_p1p1_to_p3(r, p) ==
  [r EXCEPT !.X = fe_mul(p.X, p.T), !.Y = fe_mul(p.Y, p.Z), !.Z = fe_mul(p.Z, p.T),
            !.T = fe_mul(p.X, p.Y)]
ge_p3_to_p2(p) == [X |-> p.X, Y |-> p.Y, Z |-> p.Z]
ge_p3_to_cached(p) ==
  [YplusX |-> fe_add(p.Y, p.X), YminusX |-> fe_sub(p.Y, p.X), Z |-> p.Z,
   T2d |-> fe_mul(p.T, d2)]

\* the four additions: sums, products, and what the formula makes of them
Combine(a, b, c, t0) ==
  [X |-> fe_sub(a, b), Y |-> fe_add(a, b), Z |-> fe_add(t0, c), T |-> fe_sub(t0, c)]
Uncombine(a, b, c, t0) ==
  [X |-> fe_sub(a, b), Y |-> fe_add(a, b), Z |-> fe_sub(t0, c), T |-> fe_add(t0, c)]

Twice(f) == fe_add(f, f)

ge_add(p, q) ==
  Combine(fe_mul(fe_add(p.Y, p.X), q.YplusX), fe_mul(fe_sub(p.Y, p.X), q.YminusX),
          fe_mul(q.T2d, p.T), Twice(fe_mul(p.Z, q.Z)))
ge_sub(p, q) ==
  Uncombine(fe_mul(fe_add(p.Y, p.X), q.YminusX), fe_mul(fe_sub(p.Y, p.X), q.YplusX),
            fe_mul(q.T2d, p.T), Twice(fe_mul(p.Z, q.Z)))
ge_madd(p, q) ==
  Combine(fe_mul(fe_add(p.Y, p.X), q.yplusx), fe_mul(fe_sub(p.Y, p.X), q.yminusx),
          fe_mul(q.xy2d, p.T), Twice(p.Z))

\* mutant of ge_msub: the signs of the last two stay those of ge_madd
ge_msub_Signs(p, q) ==
  Combine(fe_mul(fe_add(p.Y, p.X), q.yminusx), fe_mul(fe_sub(p.Y, p.X), q.yplusx),
          fe_mul(q.xy2d, p.T), Twice(p.Z))

ge_msub(p, q) ==
  Uncombine(fe_mul(fe_add(p.Y, p.X), q.yminusx), fe_mul(fe_sub(p.Y, p.X), q.yplusx),
            fe_mul(q.xy2d, p.T), Twice(p.Z))

\* mutant of ge_p2_dbl: 2 Z^2 is a sum that nobody carries
ge_p2_dbl_NoCarry(p) ==
  LET xx == fe_sq(p.X)
      yy == fe_sq(p.Y)
      sum == fe_add(yy, xx)
      difference == fe_sub(yy, xx)
  IN  [X |-> fe_sub(fe_sq(fe_add(p.X, p.Y)), sum), Y |-> sum, Z |-> difference,
       T |-> fe_sub(Twice(fe_sq(p.Z)), difference)]

ge_p2_dbl(p) ==
  LET xx == fe_sq(p.X)
      yy == fe_sq(p.Y)
      sum == fe_add(yy, xx)
      difference == fe_sub(yy, xx)
  IN  [X |-> fe_sub(fe_sq(fe_add(p.X, p.Y)), sum), Y |-> sum, Z |-> difference,
       T |-> fe_sub(fe_sq2(p.Z), difference)]
ge_p3_dbl(p) == ge_p2_dbl(ge_p3_to_p2(p))

-----------------------------------------------------------------------------
(* Encodings: y, and the parity of x in the bit above it.                    *)

ge_tobytes(h) ==
  LET recip == fe_invert(h.Z)
  IN  [y |-> fe_tobytes(fe_mul(h.Y, recip)), sign |-> fe_isnegative(fe_mul(h.X, recip))]
ge_p3_tobytes(h) == ge_tobytes(h)

\* mutant of ge_frombytes_negate_vartime: the second candidate is not tried
ge_frombytes_OneRoot(s) ==
  LET Y == fe_frombytes(s.y)
      yy == fe_sq(Y)
      u == fe_sub(yy, fe_1)
      v == fe_add(fe_mul(yy, d), fe_1)
      v3 == fe_mul(fe_sq(v), v)
      uv7 == fe_mul(fe_mul(fe_sq(v3), v), u)
      X == fe_mul(fe_mul(fe_pow22523(uv7), v3), u)
      signed == IF fe_isnegative(X) = s.sign THEN fe_neg(X) ELSE X
  IN  [ok |-> ~fe_isnonzero(fe_sub(fe_mul(fe_sq(X), v), u)),
       point |-> [X |-> signed, Y |-> Y, Z |-> fe_1, T |-> fe_mul(signed, Y)]]

\* the point minus the one that is encoded; not ok if there is none
ge_frombytes_negate_vartime(s) ==
  LET Y == fe_frombytes(s.y)
      yy == fe_sq(Y)
      u == fe_sub(yy, fe_1)
      v == fe_add(fe_mul(yy, d), fe_1)
      v3 == fe_mul(fe_sq(v), v)
      uv7 == fe_mul(fe_mul(fe_sq(v3), v), u)
      root == fe_mul(fe_mul(fe_pow22523(uv7), v3), u)
      vxx == fe_mul(fe_sq(root), v)
      first == ~fe_isnonzero(fe_sub(vxx, u))
      X == IF first THEN root ELSE fe_mul(root, sqrtm1)
      signed == IF fe_isnegative(X) = s.sign THEN fe_neg(X) ELSE X
  IN  [ok |-> first \/ ~fe_isnonzero(fe_add(vxx, u)),
       point |-> [X |-> signed, Y |-> Y, Z |-> fe_1, T |-> fe_mul(signed, Y)]]

-----------------------------------------------------------------------------
(* Multiples.  The tables of precomp_data.h hold y + x, y - x and 2dxy of    *)
(* base[i][j] = (j + 1) 256^i B, and of Bi[j] = (2j + 1) B.                  *)

Precomputed(q) ==
  [yplusx |-> El(q[2] + q[1], 100), yminusx |-> El(q[2] - q[1], 100),
   xy2d |-> El(2 * D * ((q[1] * q[2]) % P), 100)]

base ==
  LET shifted[i \in 0 .. Nibbles \div 2 - 1] ==
        IF i = 0 THEN Base ELSE Doubled(shifted[i - 1], 8)
  IN  [i \in 0 .. Nibbles \div 2 - 1 |->
         [j \in 0 .. 7 |-> Precomputed(Multiples(shifted[i], 8)[j + 1])]]
Bi == [j \in 0 .. 7 |-> Precomputed(Multiples(Base, 15)[2 * j + 1])]

\* mutant of select: the product of a negated entry keeps its sign
select_KeepProduct(pos, b) ==
  LET babs == IF b < 0 THEN -b ELSE b
      t == IF babs = 0 THEN [yplusx |-> fe_1, yminusx |-> fe_1, xy2d |-> fe_0]
           ELSE base[pos][babs - 1]
  IN  IF b < 0 THEN [yplusx |-> t.yminusx, yminusx |-> t.yplusx, xy2d |-> t.xy2d] ELSE t

\* b times an entry of the table, by conditional moves
select(pos, b) ==
  LET babs == IF b < 0 THEN -b ELSE b
      t == IF babs = 0 THEN [yplusx |-> fe_1, yminusx |-> fe_1, xy2d |-> fe_0]
           ELSE base[pos][babs - 1]
  IN  IF b < 0 THEN [yplusx |-> t.yminusx, yminusx |-> t.yplusx, xy2d |-> fe_neg(t.xy2d)]
      ELSE t

ge_scalarmult_base(a) ==
  LET e == signed_nibbles(a)
      Every2(from) == [k \in 1 .. Nibbles \div 2 |-> from + 2 * (k - 1)]
      Add(h, i) == ge_p1p1_to_p3(h, ge_madd(h, select(i \div 2, e[i])))
      Dbl(s) == ge_p1p1_to_p2(s, ge_p2_dbl(s))
      odd == FoldLeft(Add, ge_p3_0, Every2(1))
      sixteen == ge_p1p1_to_p3(ge_p3_0, ge_p2_dbl(Dbl(Dbl(Dbl(ge_p3_to_p2(odd))))))
  IN  FoldLeft(Add, sixteen, Every2(0))

\* A, 3A, 5A, ..., 15A
OddMultiples(A) ==
  LET A2 == ge_p1p1_to_p3(ge_p3_0, ge_p3_dbl(A))
      c[j \in 0 .. 7] == ge_p3_to_cached(IF j = 0 THEN A
                                         ELSE ge_p1p1_to_p3(ge_p3_0, ge_add(A2, c[j - 1])))
  IN  c

ge_double_scalarmult_vartime(a, A, b) ==
  LET aslide == slide(a)
      bslide == slide(b)
      Ai == OddMultiples(A)
      u(t) == ge_p1p1_to_p3(ge_p3_0, t)
      WithA(t, i) == CASE aslide[i] > 0 -> ge_add(u(t), Ai[aslide[i] \div 2])
                       [] aslide[i] < 0 -> ge_sub(u(t), Ai[(-aslide[i]) \div 2])
                       [] OTHER         -> t
      WithB(t, i) == CASE bslide[i] > 0 -> ge_madd(u(t), Bi[bslide[i] \div 2])
                       [] bslide[i] < 0 -> ge_msub(u(t), Bi[(-bslide[i]) \div 2])
                       [] OTHER         -> t
      used == {i \in 0 .. N - 1 : aslide[i] # 0 \/ bslide[i] # 0}
      top == IF used = {} THEN -1 ELSE Max(used)
  IN  FoldLeft(LAMBDA r, i : ge_p1p1_to_p2(r, WithB(WithA(ge_p2_dbl(r), i), i)),
               ge_p2_0, [k \in 1 .. top + 1 |-> top + 1 - k])

-----------------------------------------------------------------------------
(* The ladder: x2/z2 and x3/z3 differ by the point whose x coordinate on the *)
(* Montgomery curve is x1.                                                   *)

Rung(x1, s) ==
  LET minus3 == fe_sub(s.x3, s.z3)
      minus2 == fe_sub(s.x2, s.z2)
      plus2 == fe_add(s.x2, s.z2)
      plus3 == fe_add(s.x3, s.z3)
      cross == fe_mul(minus3, plus2)
      other == fe_mul(plus3, minus2)
      bb == fe_sq(minus2)
      aa == fe_sq(plus2)
      e == fe_sub(aa, bb)
  IN  [x2 |-> fe_mul(aa, bb),
       z2 |-> fe_mul(e, fe_add(bb, fe_mul121666(e))),
       x3 |-> fe_sq(fe_add(cross, other)),
       z3 |-> fe_mul(x1, fe_sq(fe_sub(cross, other)))]

\* mutant of CondSwap: only the x coordinates change places
CondSwap_OnlyX(s, b) ==
  LET x == fe_cswap(s.x2, s.x3, b)
  IN  [s EXCEPT !.x2 = x[1], !.x3 = x[2]]

CondSwap(s, b) ==
  LET x == fe_cswap(s.x2, s.x3, b)
      z == fe_cswap(s.z2, s.z3, b)
  IN  [x2 |-> x[1], x3 |-> x[2], z2 |-> z[1], z3 |-> z[2]]

\* a multiple of eight with its highest bit but one set
Clamp(e) == (e % 2^(N - 2)) - (e % 8) + 2^(N - 2)

ed25519_key_exchange(y, secret) ==
  LET e == Clamp(secret)
      u == fe_frombytes(y)
      x1 == fe_mul(fe_add(u, fe_1), fe_invert(fe_sub(fe_1, u)))
      start == [x2 |-> fe_1, z2 |-> fe_0, x3 |-> x1, z3 |-> fe_1, swap |-> 0]
      Turn(s, pos) ==
        LET t == Rung(x1, CondSwap(s, (s.swap + Bit(e, pos)) % 2))
        IN  [s EXCEPT !.x2 = t.x2, !.z2 = t.z2, !.x3 = t.x3, !.z3 = t.z3,
                      !.swap = Bit(e, pos)]
      turned == FoldLeft(Turn, start, [k \in 1 .. N - 1 |-> N - 1 - k])
      end == CondSwap(turned, turned.swap)
  IN  fe_tobytes(fe_mul(end.x2, fe_invert(end.z2)))
=============================================================================
