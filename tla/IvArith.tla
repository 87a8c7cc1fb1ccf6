------------------------------ MODULE IvArith ------------------------------
(***************************************************************************)
(* The counter arithmetic of src/aes_fpga/aes_fpga.c, on numbers of n      *)
(* digits of radix r.  A number is the function from the places 0 .. n - 1 *)
(* to its digits, place 0 the least significant: iv[iv_length - 1] and     *)
(* iv_in.word_3.  char is unsigned, as it is on the ARM processors of the  *)
(* boards.                                                                 *)
(***************************************************************************)
EXTENDS Integers

Digits(r, n) == [0 .. n - 1 -> 0 .. r - 1]

\* r to the power of each place
Weight(r, n) ==
  LET w[k \in 0 .. n] == IF k = 0 THEN 1 ELSE w[k - 1] * r
  IN  w

\* the value of the lowest k digits of d, for each k
Low(d, r, n) ==
  LET v[k \in 0 .. n] ==
        IF k = 0 THEN 0 ELSE v[k - 1] + d[k - 1] * Weight(r, n)[k - 1]
  IN  v

Value(d, r, n) == Low(d, r, n)[n]

-----------------------------------------------------------------------------
(* addIvOpenssl, and the loop of addIvCipher over the words. *)

\* mutant of Sum: the carry is forgotten
Sum_NoCarry(low, s, r) == (low + (s.rest % r)) % r

\* iv[i] = low + currentNum + carry, in the loop state s
Sum(low, s, r) == (low + (s.rest % r) + s.carry) % r

\* The state after k digits: what is left of num, and the carry, which the code
\* tells from the new digit being less than the old one.  The word loop sets
\* currentNum to 0 after the first word: num is less than the radix there, so
\* that is num \div r.  Both loops stop early when the rest and the carry are 0.
LoopState(d, num, r, n) ==
  LET s[k \in 0 .. n] ==
        IF k = 0 THEN [rest |-> num, carry |-> 0]
        ELSE [rest  |-> s[k - 1].rest \div r,
              carry |-> IF Sum(d[k - 1], s[k - 1], r) < d[k - 1] THEN 1 ELSE 0]
  IN  s

Add(d, num, r, n) ==
  [k \in 0 .. n - 1 |-> Sum(d[k], LoopState(d, num, r, n)[k], r)]

-----------------------------------------------------------------------------
(* incrementIv: a digit is incremented if all the lower ones rolled over. *)

\* mutant of RollsOver: no digit ever carries
RollsOver_Never(digit, r) == FALSE

\* the loop goes on unless current < 0xff, current being the digit plus 1
RollsOver(digit, r) == digit + 1 >= r - 1

Increment(d, r, n) ==
  [k \in 0 .. n - 1 |->
     IF \A j \in 0 .. k - 1 : RollsOver(d[j], r) THEN (d[k] + 1) % r ELSE d[k]]

-----------------------------------------------------------------------------
(* fpga_aes_new: the words of iv_in, each of b bytes of iv. *)

Word(d, r, b, j) == Value([i \in 0 .. b - 1 |-> d[b * j + i]], r, b)

Pack(d, r, b, words) == [j \in 0 .. words - 1 |-> Word(d, r, b, j)]
=============================================================================
