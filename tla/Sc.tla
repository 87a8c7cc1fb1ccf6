--------------------------------- MODULE Sc ---------------------------------
(***************************************************************************)
(* ed25519/sc.c: scalars modulo the order l of the base point.  A number   *)
(* is 24 signed digits of radix 2^Bits (2^21 in the code).  The twelfth    *)
(* power of the radix is folded into six lower digits, as often as it      *)
(* takes, with carries between the folds that keep the digits small.       *)
(***************************************************************************)
EXTENDS Integers, Sequences, FiniteSetsExt, SequencesExt

CONSTANTS Bits,   \* 21
          Coef    \* <<666643, 470296, 654183, -997805, 136657, -683901>>

Half == 12
Digits == 0 .. 2 * Half - 1
Radix == 2^Bits

\* what the digits from n - 1 down to 0 come to, modulo m
ValueMod(s, n, m) ==
  FoldLeft(LAMBDA v, i : (v * Radix + s[n - i]) % m, 0, [i \in 1 .. n |-> i])

\* the twelfth power of the radix is what Coef says, modulo the order
Order == Radix^Half - MapThenSumSet(LAMBDA i : Coef[i] * Radix^(i - 1), 1 .. 6)

Up(from, to, by) == [k \in 1 .. (to - from) \div by + 1 |-> from + by * (k - 1)]
Down(from, to) == [k \in 1 .. from - to + 1 |-> from + 1 - k]

\* s_i times the radix to the twelfth, spread over the six digits from i - 12
FoldDown(s, i) ==
  [k \in Digits |->
     CASE k = i -> 0
       [] k \in i - Half .. i - Half + 5 -> s[k] + s[i] * Coef[k - (i - Half) + 1]
       [] OTHER -> s[k]]

CarryBy(s, i, c) == [s EXCEPT ![i] = @ - c * Radix, ![i + 1] = @ + c]
Round(s, i) == CarryBy(s, i, (s[i] + 2^(Bits - 1)) \div Radix)
Floor(s, i) == CarryBy(s, i, s[i] \div Radix)

Folds(s, from, to) == FoldLeft(FoldDown, s, Down(from, to))
Rounds(s, from, to) == FoldLeft(Round, s, Up(from, to, 2))
Floors(s, to) == FoldLeft(Floor, s, Up(0, to, 1))

\* mutant of Finish: the second of the two last folds is missing
Finish_OneFold(s) ==
  LET low  == Rounds(Rounds(Folds(s, 17, 12), 0, 10), 1, 11)
      once == Floors(FoldDown(low, 12), 11)
  IN  Floors(once, 10)

\* from the folding of s17 on, sc_reduce and sc_muladd are the same
Finish(s) ==
  LET low  == Rounds(Rounds(Folds(s, 17, 12), 0, 10), 1, 11)
      once == Floors(FoldDown(low, 12), 11)
  IN  Floors(FoldDown(once, 12), 10)

Middle(s) == Rounds(Rounds(Folds(s, 23, 18), 6, 16), 7, 15)

sc_reduce(s) == Finish(Middle(s))

\* c + a * b, digit by digit; numbers of 12 digits, the last one of any size
Convolve(a, b, c) ==
  [k \in Digits |->
     (IF k < Half THEN c[k] ELSE 0)
     + MapThenSumSet(LAMBDA i : IF k - i \in 0 .. Half - 1 THEN a[i] * b[k - i] ELSE 0,
                     0 .. Half - 1)]

sc_muladd(a, b, c) ==
  LET spread == Rounds(Rounds(Convolve(a, b, c), 0, 22), 1, 21)
  IN  Finish(Middle(spread))
=============================================================================
