------------------------------- MODULE Field -------------------------------
(***************************************************************************)
(* The functions of ed25519/fe.c, called in any order on any registers,    *)
(* the fe variables of a caller; a result may overwrite an operand.  Next  *)
(* to its limbs, each register has the number they are to stand for.  What *)
(* the functions do to limbs is in module Fe; the powers, which are chains *)
(* of squarings and products, are in module Chains.                        *)
(***************************************************************************)
EXTENDS Fe

CONSTANTS Registers,  \* the fe variables
          Loads,      \* limbs that come from bytes or from a table
          MaxCalls    \* bound on the calls of a run

\* The last limb is a narrow one, and the prime is a positive number.
Sized ==
  /\ Limbs \in Nat \ {0} /\ Limbs % 2 = 0 /\ Narrow \in Nat \ {0}
  /\ Fold \in Int /\ Factor \in Int /\ Prime \in Nat \ {0}

\* Limbs are any integers: signed, and out of range until they are carried.
Elements == [Places -> Int]

ASSUME FieldAssumption == Sized /\ Loads \subseteq Elements

VARIABLES reg,    \* the limbs of each register
          num,    \* the number they are to stand for
          calls   \* calls so far

registers == <<reg, num, calls>>

FieldInit ==
  /\ reg \in [Registers -> Loads]
  /\ num = [h \in Registers |-> Value(reg[h]) % Prime]
  /\ calls = 0

Call == calls < MaxCalls /\ calls' = calls + 1

\* a call that writes the element e, which is to be the number n
Write(h, e, n) ==
  /\ Call
  /\ reg' = [reg EXCEPT ![h] = e]
  /\ num' = [num EXCEPT ![h] = n % Prime]

Constant(h) == Write(h, fe_0, 0) \/ Write(h, fe_1, 1)
FromBytes(h) == \E e \in Loads : Write(h, fe_frombytes_carry(e), Value(e))
Copy(h, f) == Write(h, reg[f], num[f])
Neg(h, f) == Write(h, fe_neg(reg[f]), -num[f])
Sq(h, f) == Write(h, fe_sq(reg[f]), num[f] * num[f])
Sq2(h, f) == Write(h, fe_sq2(reg[f]), 2 * ((num[f] * num[f]) % Prime))
Mul121666(h, f) == Write(h, fe_mul121666(reg[f]), Factor * num[f])
Add(h, f, g) == Write(h, fe_add(reg[f], reg[g]), num[f] + num[g])
Sub(h, f, g) == Write(h, fe_sub(reg[f], reg[g]), num[f] - num[g])
Mul(h, f, g) == Write(h, fe_mul(reg[f], reg[g]), num[f] * num[g])

\* by bits that are masks in the code: f takes what g has, or they exchange it
CMov(f, g, b) == Write(f, IF b = 1 THEN reg[g] ELSE reg[f], IF b = 1 THEN num[g] ELSE num[f])
CSwap(f, g, b) ==
  LET Other(h) == CASE b = 1 /\ h = f -> g [] b = 1 /\ h = g -> f [] OTHER -> h
  IN  /\ Call
      /\ reg' = [h \in Registers |-> reg[Other(h)]]
      /\ num' = [h \in Registers |-> num[Other(h)]]

Return == calls = MaxCalls /\ UNCHANGED registers

FieldNext ==
  \/ \E h \in Registers : Constant(h) \/ FromBytes(h)
  \/ \E h, f \in Registers : Copy(h, f) \/ Neg(h, f) \/ Sq(h, f) \/ Sq2(h, f) \/ Mul121666(h, f)
  \/ \E h, f, g \in Registers : Add(h, f, g) \/ Sub(h, f, g) \/ Mul(h, f, g)
  \/ \E f, g \in Registers, b \in {0, 1} : CMov(f, g, b) \/ CSwap(f, g, b)
  \/ Return

FieldSpec == FieldInit /\ [][FieldNext]_registers

-----------------------------------------------------------------------------
\* Whatever was called before, every register still stands for its number: what
\* wraps around is folded with its weight, carries lose nothing in whichever
\* order they go, and sums that were not carried are good operands.
NumbersKept == \A h \in Registers : Value(reg[h]) % Prime = num[h]

\* the precondition that fe_tobytes states
InBounds(h) == \A i \in Places : 10 * h[i] \in -(11 * 2^Width(i)) .. 11 * 2^Width(i)

\* fe_tobytes gives the one number below the prime, in limbs of their width,
\* for any limbs within its precondition, negative numbers and multiples of the
\* prime among them: the quotient that it finds without forming the number, as
\* its comment proves, is right.  So are the parity and the test for zero.
BytesRight ==
  \A h \in Registers :
    InBounds(reg[h]) =>
      LET t == fe_tobytes(reg[h])
      IN  /\ \A i \in Places : t[i] \in 0 .. 2^Width(i) - 1
          /\ Value(t) = num[h]
          /\ fe_isnegative(reg[h]) = num[h] % 2
          /\ fe_isnonzero(reg[h]) <=> num[h] # 0
=============================================================================
