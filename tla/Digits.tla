------------------------------- MODULE Digits -------------------------------
(***************************************************************************)
(* Scalars written in digits, one recoding after the other, each in arrays *)
(* of the function that multiplies by the scalar and gone when it returns. *)
(* How the digits come about is in module Recode.                          *)
(***************************************************************************)
EXTENDS Recode

CONSTANTS Multipliers,  \* scalars that points are multiplied by
          Couples       \* two scalars that are written in one array

ASSUME ScalarAssumption == Multipliers \subseteq Nat /\ Couples \subseteq Nat \X Nat

VARIABLE written   \* by which recoding, which scalars, in which digits

Nothing == [by |-> "none", of |-> <<0, 0>>, digits |-> <<>>]

DigitsInit == written = Nothing

Recoded(by, a, b, digits) == written' = [by |-> by, of |-> <<a, b>>, digits |-> digits]

\* the size that the callers see to: "a[31] <= 127" for the base point; the others
\* are given scalars below 2^253, reduced or checked, and slide needs one free bit only
Below(a, bits) == a < 2^bits

Slide(a) == Below(a, N - 1) /\ Recoded("slide", a, 0, slide(a))
SignedNibbles(a) == Below(a, 4 * Nibbles - 1) /\ Recoded("nibbles", a, 0, signed_nibbles(a))
Window3(a) == Below(a, 3 * (N \div 3) - 2) /\ Recoded("window3", a, 0, sc25519_window3(a))
Window5(a) == Below(a, 5 * (N \div 5) - 2) /\ Recoded("window5", a, 0, sc25519_window5(a))
Interleave2(a, b) ==
  /\ Below(a, 2 * (N \div 2) - 2) /\ Below(b, 2 * (N \div 2) - 2)
  /\ Recoded("interleave", a, b, sc25519_2interleave2(a, b))

\* the multiplication is done
Drop == written # Nothing /\ written' = Nothing

DigitsNext ==
  \/ /\ written = Nothing
     /\ \/ \E a \in Multipliers : Slide(a) \/ SignedNibbles(a) \/ Window3(a) \/ Window5(a)
        \/ \E p \in Couples : Interleave2(p[1], p[2])
  \/ Drop

DigitsSpec == DigitsInit /\ [][DigitsNext]_written

-----------------------------------------------------------------------------
\* n digits of w bits add up to the number
Denotes(e, n, w, a) == MapThenSumSet(LAMBDA i : e[i] * 2^(w * i), 0 .. n - 1) = a

InTable(e, n, w) == \A i \in 0 .. n - 1 : e[i] \in -(2^(w - 1)) .. 2^(w - 1) - 1

\* Every signed recoding of a scalar adds up to the scalar, with digits that
\* the tables of multiples have an entry for: odd ones, or within half of the
\* radix.  The ones that slide adds where it has subtracted are not lost at the end
\* of the array, and no carry is left at the last digit of the others.
SignedDigits ==
  LET e == written.digits
      a == written.of[1]
      b == written.of[2]
      n == N \div 2 - 1
  IN  /\ written.by = "slide" =>
           /\ Denotes(e, N, 1, a)
           /\ \A i \in 0 .. N - 1 : e[i] = 0 \/ (e[i] % 2 = 1 /\ e[i] \in -15 .. 15)
      /\ written.by = "nibbles" =>
           Denotes(e, Nibbles, 4, a) /\ \A i \in 0 .. Nibbles - 1 : e[i] \in -8 .. 8
      /\ written.by = "window3" => Denotes(e, N \div 3, 3, a) /\ InTable(e, N \div 3, 3)
      /\ written.by = "window5" => Denotes(e, N \div 5, 5, a) /\ InTable(e, N \div 5, 5)
      /\ written.by = "interleave" =>
           /\ Denotes([i \in 0 .. n - 1 |-> e[i] % 4], n, 2, a)
           /\ Denotes([i \in 0 .. n - 1 |-> e[i] \div 4], n, 2, b)
=============================================================================
