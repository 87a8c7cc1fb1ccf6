------------------------------- MODULE Recode -------------------------------
(***************************************************************************)
(* How scalars are written in digits before points are multiplied by them. *)
(* ed25519/ge.c: in signed digits of four bits for the base point, and in  *)
(* few odd digits from -15 to 15, each at a bit of its own, for two points *)
(* at once.  The reference, in sc25519.c: in signed digits of three or     *)
(* five bits, and two scalars in one digit of two bits of each.  N is the  *)
(* number of bits of a scalar, 256 in the code.                            *)
(***************************************************************************)
EXTENDS Integers, Sequences, FiniteSetsExt, SequencesExt

CONSTANT N

ASSUME WidthAssumption == N \in Nat /\ N >= 8

Nibbles == N \div 4
Bit(a, i) == (a \div 2^i) % 2

\* the lowest n digits of w bits
Cut(a, n, w) == [i \in 0 .. n - 1 |-> (a \div 2^(w * i)) % 2^w]

\* one turn of the loop of ge_scalarmult_base
Nibble(s, i) ==
  LET d == s.e[i] + s.carry
      carry == (d + 8) \div 16
  IN  [e |-> [s.e EXCEPT ![i] = d - 16 * carry], carry |-> carry]

signed_nibbles(a) ==
  LET s == FoldLeft(Nibble, [e |-> Cut(a, Nibbles, 4), carry |-> 0],
                    [i \in 1 .. Nibbles - 1 |-> i - 1])
  IN  [s.e EXCEPT ![Nibbles - 1] = @ + s.carry]

\* one is added at place k: ones become zeroes up to the first zero, which
\* becomes one; beyond the last place it is lost
Increment(r, k) ==
  LET ones(z) == \A j \in k .. z - 1 : r[j] # 0
      zeroes == {z \in k .. N - 1 : r[z] = 0 /\ ones(z)}
  IN  [j \in DOMAIN r |-> IF j \in zeroes THEN 1
                          ELSE IF j >= k /\ ones(j) THEN 0 ELSE r[j]]

\* mutant of Gather: what is subtracted is not added again further up
Gather_NoIncrement(i, s, b) ==
  IF s.stop \/ i + b >= N THEN s
  ELSE LET w == s.r[i + b] * 2^b
           more == [s.r EXCEPT ![i] = @ + w, ![i + b] = 0]
           less == [s.r EXCEPT ![i] = @ - w, ![i + b] = 0]
       IN  CASE s.r[i] + w <= 15    -> [r |-> more, stop |-> FALSE]
             [] s.r[i] + w > 15 /\ s.r[i] - w >= -15
                                    -> [r |-> less, stop |-> FALSE]
             [] OTHER               -> [r |-> s.r, stop |-> TRUE]

\* the digit at i takes in the bit b places up, if there is one and it can
Gather(i, s, b) ==
  IF s.stop \/ i + b >= N THEN s
  ELSE LET w == s.r[i + b] * 2^b
           more == [s.r EXCEPT ![i] = @ + w, ![i + b] = 0]
           less == [s.r EXCEPT ![i] = @ - w]
       IN  CASE s.r[i] + w <= 15    -> [r |-> more, stop |-> FALSE]
             [] s.r[i] + w > 15 /\ s.r[i] - w >= -15
                                    -> [r |-> Increment(less, i + b), stop |-> FALSE]
             [] OTHER               -> [r |-> s.r, stop |-> TRUE]

\* the turn of the loop at place i
Gathered(r, i) ==
  IF r[i] = 0 THEN r
  ELSE FoldLeft(LAMBDA s, b : Gather(i, s, b),
                [r |-> r, stop |-> FALSE], [b \in 1 .. 6 |-> b]).r

slide(a) ==
  FoldLeft(Gathered, [i \in 0 .. N - 1 |-> Bit(a, i)], [i \in 1 .. N |-> i - 1])

\* one turn of the loops of the windows, on digits of w bits
Windowed(s, i, w) ==
  LET d == s.r[i] + s.carry
      e == d % 2^w
      c == e \div 2^(w - 1)
  IN  [r |-> [s.r EXCEPT ![i] = e - c * 2^w, ![i + 1] = @ + d \div 2^w], carry |-> c]

\* r is the scalar cut into n digits
Window(r, n, w) ==
  LET s == FoldLeft(LAMBDA t, i : Windowed(t, i, w), [r |-> r, carry |-> 0],
                    [i \in 1 .. n - 1 |-> i - 1])
  IN  [s.r EXCEPT ![n - 1] = @ + s.carry]

sc25519_window3(a) == Window(Cut(a, N \div 3, 3), N \div 3, 3)
sc25519_window5(a) == Window(Cut(a, N \div 5, 5), N \div 5, 5)
sc25519_2interleave2(a, b) ==
  [i \in 0 .. N \div 2 - 2 |-> Cut(a, N \div 2, 2)[i] + 4 * Cut(b, N \div 2, 2)[i]]
=============================================================================
