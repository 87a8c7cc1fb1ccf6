--------------------------------- MODULE Fe ---------------------------------
(***************************************************************************)
(* ed25519/fe.c, limb by limb.  A field element is a function from limb    *)
(* numbers to integers, limb i counting 2^Weight(i); limbs are signed and  *)
(* may be out of range until they are carried.  In the code there are ten  *)
(* limbs of 26 and 25 bits and 2^255 is folded as 19; here the number of   *)
(* limbs, their width and the fold are parameters.                         *)
(***************************************************************************)
EXTENDS Integers, Sequences, FiniteSetsExt, SequencesExt

CONSTANTS Limbs,    \* 10
          Narrow,   \* 25: bits of a limb at an odd place; one more at even places
          Fold,     \* 19: what 2^255 is, modulo the prime
          Factor    \* 121666

Places == 0 .. Limbs - 1
End == Limbs - 1

Width(i) == IF i % 2 = 0 THEN Narrow + 1 ELSE Narrow
Weight(i) == (i \div 2) * (2 * Narrow + 1) + (i % 2) * (Narrow + 1)

Prime == 2^Weight(Limbs) - Fold
Value(h) == MapThenSumSet(LAMBDA i : h[i] * 2^Weight(i), DOMAIN h)

fe_0 == [i \in Places |-> 0]
fe_1 == [fe_0 EXCEPT ![0] = 1]
fe_add(f, g) == [i \in Places |-> f[i] + g[i]]
fe_sub(f, g) == [i \in Places |-> f[i] - g[i]]
fe_neg(f) == [i \in Places |-> -f[i]]

-----------------------------------------------------------------------------
(* Carries.  carry_i rounds to the nearest; that of the last limb comes back *)
(* into the first one, folded.                                               *)

Carry(h, i) ==
  LET c == (h[i] + 2^(Width(i) - 1)) \div 2^Width(i)
      r == [h EXCEPT ![i] = @ - c * 2^Width(i)]
  IN  IF i = End THEN [r EXCEPT ![0] = @ + Fold * c]
                  ELSE [r EXCEPT ![i + 1] = @ + c]

\* 0, 4, 1, 5, 2, 6, 3, 7, 4, 8, 9, 0: two carries under way at a time
ProductCarries ==
  [k \in 1 .. Limbs |-> (k - 1) \div 2 + (IF k % 2 = 0 THEN Limbs \div 2 - 1 ELSE 0)]
  \o <<End, 0>>

\* 9, 1, 3, 5, 7, then 0, 2, 4, 6, 8
OddThenEven ==
  <<End>> \o [k \in 1 .. Limbs \div 2 - 1 |-> 2 * k - 1]
           \o [k \in 1 .. Limbs \div 2 |-> 2 * k - 2]

-----------------------------------------------------------------------------
(* Products.  The weight of f_i g_j is twice that of the place i + j when    *)
(* both are odd, and wraps around at the number of limbs.                    *)

\* mutant of Coefficient: no doubling of odd by odd in what wraps around
Coefficient_NoDouble(i, j) ==
  IF i + j >= Limbs THEN Fold ELSE IF i % 2 = 1 /\ j % 2 = 1 THEN 2 ELSE 1

Coefficient(i, j) == (IF i % 2 = 1 /\ j % 2 = 1 THEN 2 ELSE 1)
                     * (IF i + j >= Limbs THEN Fold ELSE 1)

Product(f, g) ==
  [k \in Places |->
     MapThenSumSet(LAMBDA i : LET j == (k - i) % Limbs IN Coefficient(i, j) * f[i] * g[j],
                   Places)]

\* the squarings sum over i <= j only, and double the terms off the diagonal
Square(f) ==
  [k \in Places |->
     MapThenSumSet(LAMBDA i : LET j == (k - i) % Limbs
                              IN  IF i > j THEN 0
                                  ELSE (IF i = j THEN 1 ELSE 2) * Coefficient(i, j) * f[i] * f[j],
                   Places)]

fe_mul(f, g) == FoldLeft(Carry, Product(f, g), ProductCarries)
fe_sq(f) == FoldLeft(Carry, Square(f), ProductCarries)
fe_sq2(f) == FoldLeft(Carry, [i \in Places |-> 2 * Square(f)[i]], ProductCarries)
fe_mul121666(f) == FoldLeft(Carry, [i \in Places |-> Factor * f[i]], OddThenEven)

\* the second half of fe_frombytes: the limbs as loaded, then carried
fe_frombytes_carry(h) == FoldLeft(Carry, h, OddThenEven)

-----------------------------------------------------------------------------
(* The canonical form.  q is the quotient by the prime, found from the limbs *)
(* alone: the sum it comes from is never formed.                             *)

\* mutant of Quotient: the half of the top limb's unit is not added
Quotient_NoRound(h) ==
  FoldLeft(LAMBDA q, i : (h[i] + q) \div 2^Width(i),
           (Fold * h[End]) \div 2^Narrow, [k \in 1 .. Limbs |-> k - 1])

Quotient(h) ==
  FoldLeft(LAMBDA q, i : (h[i] + q) \div 2^Width(i),
           (Fold * h[End] + 2^(Narrow - 1)) \div 2^Narrow,
           [k \in 1 .. Limbs |-> k - 1])

\* carries that round down, up to and out of the last limb
Floor(h, i) ==
  LET c == h[i] \div 2^Width(i)
      r == [h EXCEPT ![i] = @ - c * 2^Width(i)]
  IN  IF i = End THEN r ELSE [r EXCEPT ![i + 1] = @ + c]

fe_tobytes(h) ==
  FoldLeft(Floor, [h EXCEPT ![0] = @ + Fold * Quotient(h)],
           [k \in 1 .. Limbs |-> k - 1])

fe_isnegative(h) == Value(fe_tobytes(h)) % 2
fe_isnonzero(h) == fe_tobytes(h) # fe_0
=============================================================================
