------------------------------ MODULE Sc25519 ------------------------------
(***************************************************************************)
(* ed25519_ref_c/sc25519.c: scalars of the reference implementation, on    *)
(* limbs of a byte (radix B here), reduced modulo m by Barrett's method.   *)
(***************************************************************************)
EXTENDS Integers, Sequences, FiniteSetsExt, SequencesExt

CONSTANTS B,       \* 256
          K,       \* 32: limbs of a scalar
          Modulus  \* the order of the base point

Digits == 0 .. K - 1
NumberOf(r, n) == MapThenSumSet(LAMBDA i : r[i] * B^i, 0 .. n - 1)
LimbsOf(v, n) == [i \in 0 .. n - 1 |-> (v \div B^i) % B]

m == LimbsOf(Modulus, K)
mu == LimbsOf(B^(2 * K) \div Modulus, K + 1)
Upward(n) == [i \in 1 .. n |-> i - 1]

\* a[i] - t[i] for every limb, with borrow; pb is the borrow before a limb
Borrow(a, t) ==
  LET pb[i \in 0 .. K] == IF i = 0 THEN 0
                          ELSE IF a[i - 1] < t[i - 1] + pb[i - 1] THEN 1 ELSE 0
  IN  [limbs  |-> [i \in Digits |-> a[i] - (t[i] + pb[i]) + pb[i + 1] * B],
       borrow |-> pb[K]]

reduce_add_sub(r) ==
  LET d == Borrow(r, m) IN IF d.borrow = 1 THEN r ELSE d.limbs

\* Barrett: columns of a product, and the carry of one column into the next
Columns(x, n, y, k, cols) ==
  [c \in cols |-> MapThenSumSet(LAMBDA i : IF c - i \in 0 .. k - 1 THEN x[i] * y[c - i] ELSE 0,
                                0 .. n - 1)]
Spill(r, i) == [r EXCEPT ![i + 1] = @ + r[i] \div B]
CarryOut(r, i) == [r EXCEPT ![i] = @ % B, ![i + 1] = @ + r[i] \div B]

\* q3, the quotient or one or two less: the columns below K - 1 are left out,
\* and only the two columns before those of q3 are carried
q3(x) ==
  LET upper == [j \in 0 .. K |-> x[j + K - 1]]
      all   == Columns(mu, K + 1, upper, K + 1, 0 .. 2 * K + 1)
      q2    == Spill(Spill([c \in DOMAIN all |-> IF c < K - 1 THEN 0 ELSE all[c]], K - 1), K)
  IN  [j \in 0 .. K |-> q2[j + K + 1]]

barrett_reduce(x) ==
  LET r2 == FoldLeft(CarryOut, Columns(m, K, q3(x), K + 1, 0 .. K), Upward(K))
  IN  reduce_add_sub(reduce_add_sub(Borrow(x, r2).limbs))

sc25519_from64bytes(x) == barrett_reduce(x)
sc25519_from32bytes(x) == barrett_reduce([i \in 0 .. 2 * K - 1 |-> IF i < K THEN x[i] ELSE 0])

sc25519_add(x, y) ==
  reduce_add_sub(FoldLeft(CarryOut, [i \in Digits |-> x[i] + y[i]], Upward(K - 1)))

sc25519_mul(x, y) ==
  barrett_reduce(FoldLeft(CarryOut, [c \in 0 .. 2 * K - 1 |-> Columns(x, K, y, K, {c})[c]],
                          Upward(2 * K - 1)))

sc25519_lt_vartime(x, y) ==
  \E i \in Digits : x[i] < y[i] /\ \A j \in i + 1 .. K - 1 : x[j] = y[j]
sc25519_iszero_vartime(x) == \A i \in Digits : x[i] = 0

\* the difference, not reduced: what remains of the borrow is dropped
sc25519_sub_nored(x, y) == Borrow(x, y).limbs
=============================================================================
