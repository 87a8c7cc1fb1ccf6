------------------------------ MODULE Fe25519 ------------------------------
(***************************************************************************)
(* ed25519_ref_c/fe25519.c: the field of the reference implementation, on  *)
(* unsigned limbs of a byte each (Bits bits here).  The modulus is         *)
(* 2^(Bits*Limbs - 1) - Fold, so the last limb of a reduced number has one *)
(* bit less than the others.                                               *)
(***************************************************************************)
EXTENDS Integers, Sequences, FiniteSetsExt, SequencesExt

CONSTANTS Bits,    \* 8
          Limbs,   \* 32
          Fold     \* 19

Places == 0 .. Limbs - 1
End == Limbs - 1
Radix == 2^Bits
Top == 2^(Bits - 1)          \* the first bit that is not in the last limb

Prime == 2^(Bits * Limbs - 1) - Fold
Value(r) == MapThenSumSet(LAMBDA i : r[i] * 2^(Bits * i), Places)

\* one of the passes of reduce_add_sub and reduce_mul: the excess of the last
\* limb, folded, goes to the first one; then the limbs are carried upwards
Ripple(r, i) == [r EXCEPT ![i] = @ % Radix, ![i + 1] = @ + r[i] \div Radix]

Pass(r, rep) ==
  FoldLeft(Ripple,
           [r EXCEPT ![End] = @ % Top, ![0] = r[0] + Fold * (r[End] \div Top)],
           [i \in 1 .. End |-> i - 1])

reduce(r, reps) == FoldLeft(Pass, r, [i \in 1 .. reps |-> i])

\* mutant of reduce_add_sub: one pass only
reduce_add_sub_Once(r) == reduce(r, 1)

reduce_add_sub(r) == reduce(r, 4)
reduce_mul(r) == reduce(r, 2)

fe25519_unpack(x) == [x EXCEPT ![End] = @ % Top]

IsAllOnes(r) == /\ r[End] = Top - 1
                /\ \A i \in 1 .. End - 1 : r[i] = Radix - 1
                /\ r[0] >= Radix - Fold

\* subtracts the modulus, once, from a number that shows it
fe25519_freeze(r) ==
  IF IsAllOnes(r)
  THEN [i \in Places |-> CASE i = 0    -> r[0] - (Radix - Fold)
                           [] i = End -> r[i] - (Top - 1)
                           [] OTHER    -> r[i] - (Radix - 1)]
  ELSE r

fe25519_pack(x) == fe25519_freeze(x)
fe25519_iszero(x) == \A i \in Places : fe25519_freeze(x)[i] = 0
fe25519_iseq_vartime(x, y) == fe25519_freeze(x) = fe25519_freeze(y)
fe25519_getparity(x) == fe25519_freeze(x)[0] % 2
fe25519_setzero == [i \in Places |-> 0]
fe25519_setone == [i \in Places |-> IF i = 0 THEN 1 ELSE 0]

fe25519_add(x, y) == reduce_add_sub([i \in Places |-> x[i] + y[i]])

\* twice the modulus, limb by limb, is added so that no limb becomes negative
TwiceModulus == [i \in Places |-> CASE i = 0    -> 2 * (Radix - Fold)
                                    [] i = End -> 2 * (Top - 1)
                                    [] OTHER    -> 2 * (Radix - 1)]

Difference(x, y) == [i \in Places |-> x[i] + TwiceModulus[i] - y[i]]
fe25519_sub(x, y) == reduce_add_sub(Difference(x, y))
fe25519_neg(x) == fe25519_sub(fe25519_setzero, x)

\* schoolbook product; what lies beyond the last limb counts twice the fold
fe25519_mul(x, y) ==
  LET t[k \in 0 .. 2 * End] ==
        MapThenSumSet(LAMBDA i : IF k - i \in Places THEN x[i] * y[k - i] ELSE 0, Places)
  IN  reduce_mul([k \in Places |-> IF k = End THEN t[k]
                                   ELSE t[k] + 2 * Fold * t[k + Limbs]])
=============================================================================
