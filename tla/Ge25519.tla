------------------------------ MODULE Ge25519 ------------------------------
(***************************************************************************)
(* ed25519_ref_c/ge25519.c.  A field element is its value: the reference   *)
(* reduces after every operation (module Fe25519).  Coordinates and names  *)
(* are those of the code: p1p1 is ((x:z), (y:t)), p3 has t = xy/z.         *)
(***************************************************************************)
EXTENDS Edwards, Recode

CONSTANT Base       \* the base point

mul(f, g) == (f * g) % P
add(f, g) == (f + g) % P
sub(f, g) == (f - g) % P

p1p1_to_p2(r, p) ==
  [r EXCEPT !.x = mul(p.x, p.t), !.y = mul(p.y, p.z), !.z = mul(p.z, p.t)]
p1p1_to_p3(p) ==
  [x |-> mul(p.x, p.t), y |-> mul(p.y, p.z), z |-> mul(p.z, p.t), t |-> mul(p.x, p.y)]

add_p1p1(p, q) ==
  LET a == mul(sub(p.y, p.x), sub(q.y, q.x))
      b == mul(add(p.x, p.y), add(q.x, q.y))
      c == mul(mul(p.t, q.t), (2 * D) % P)
      dd == mul(2, mul(p.z, q.z))
  IN  [x |-> sub(b, a), t |-> sub(dd, c), z |-> add(dd, c), y |-> add(b, a)]

\* the second point is affine
ge25519_mixadd2(r, q) ==
  p1p1_to_p3(add_p1p1(r, [x |-> q.x, y |-> q.y, z |-> 1, t |-> mul(q.x, q.y)]))

dbl_p1p1(p) ==
  LET a == mul(p.x, p.x)
      b == mul(p.y, p.y)
      z == sub(b, a)
  IN  [x |-> sub(sub(mul(add(p.x, p.y), add(p.x, p.y)), a), b), z |-> z,
       t |-> sub(z, mul(2, mul(p.z, p.z))), y |-> sub(-a, b)]

setneutral == [x |-> 0, y |-> 1, z |-> 1, t |-> 0]

ge25519_isneutral_vartime(p) == p.x = 0 /\ p.y = p.z

ge25519_pack(p) ==
  LET zi == Inv[p.z] IN [y |-> mul(p.y, zi), sign |-> mul(p.x, zi) % 2]

ge25519_unpackneg_vartime(s) ==
  LET y == s.y % P
      num == sub(mul(y, y), 1)
      den == add(1, mul(mul(y, y), D))
      den2 == mul(den, den)
      den6 == mul(mul(den2, den2), den2)
      power == Pow(mul(mul(den6, num), den), (P - 5) \div 8)
      first == mul(mul(mul(mul(power, num), den), den), den)
      Root(x) == mul(mul(x, x), den) = num
      x == IF Root(first) THEN first ELSE mul(first, RootMinusOne)
      signed == IF x % 2 # 1 - s.sign THEN (-x) % P ELSE x
  IN  [ok |-> Root(x), point |-> [x |-> signed, y |-> y, z |-> 1, t |-> mul(signed, y)]]

\* pre[s2 s1], with two bits of each scalar
Table(p1, p2) ==
  LET Sum(p, q) == p1p1_to_p3(add_p1p1(p, q))
      Dbl(p) == p1p1_to_p3(dbl_p1p1(p))
      one == <<p1, Dbl(p1), Sum(p1, Dbl(p1))>>
      two == <<p2, Dbl(p2), Sum(p2, Dbl(p2))>>
  IN  [k \in 0 .. 15 |->
         LET i == k % 4
             j == k \div 4
         IN  CASE k = 0            -> setneutral
               [] i > 0 /\ j = 0   -> one[i]
               [] i = 0 /\ j > 0   -> two[j]
               [] i = 2 /\ j = 2   -> Dbl(Sum(p1, p2))
               [] OTHER            -> Sum(one[i], two[j])]

ge25519_double_scalarmult_vartime(p1, s1, p2, s2) ==
  LET pre == Table(p1, p2)
      b == sc25519_2interleave2(s1, s2)
      top == N \div 2 - 2
      Quadruple(r) == LET s == p1p1_to_p2(r, dbl_p1p1(r)) IN <<s, dbl_p1p1(s)>>
      Step(r, i) ==
        LET q == Quadruple(r)
            u == p1p1_to_p3(q[2])
            t == IF b[i] # 0 THEN add_p1p1(u, pre[b[i]]) ELSE q[2]
        IN  IF i # 0 THEN p1p1_to_p2(IF b[i] # 0 THEN u ELSE q[1], t) ELSE p1p1_to_p3(t)
  IN  FoldLeft(Step, pre[b[top]], [k \in 1 .. top |-> top - k])

\* ge25519_base.data: entry 5 pos + k is k 8^pos B
Eightfold[i \in 0 .. N \div 3 - 1] ==
  IF i = 0 THEN Base ELSE Doubled(Eightfold[i - 1], 3)
ge25519_base_multiples_affine ==
  [i \in 0 .. N \div 3 - 1 |-> [k \in 0 .. 4 |-> Multiples(Eightfold[i], 4)[k]]]

\* no entry is chosen for 4: the recoding gives none
choose_t(pos, b) ==
  LET babs == IF b < 0 THEN -b ELSE b
      t == ge25519_base_multiples_affine[pos][IF b = 4 THEN 0 ELSE babs]
  IN  [x |-> IF b < 0 THEN (-t[1]) % P ELSE t[1], y |-> t[2]]

ge25519_scalarmult_base(s) ==
  LET b == sc25519_window3(s)
      t == choose_t(0, b[0])
  IN  FoldLeft(LAMBDA r, i : ge25519_mixadd2(r, choose_t(i, b[i])),
               [x |-> t.x, y |-> t.y, z |-> 1, t |-> mul(t.x, t.y)],
               [i \in 1 .. N \div 3 - 1 |-> i])
=============================================================================
