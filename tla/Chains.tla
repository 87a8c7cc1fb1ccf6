------------------------------- MODULE Chains -------------------------------
(***************************************************************************)
(* The addition chains for powers of a field element: fe_invert and        *)
(* fe_pow22523 of ed25519, fe25519_invert and fe25519_pow2523 of the       *)
(* reference, crecip of curve_25519_test.c.  Each is a straight list of    *)
(* squarings and multiplications on a few variables that are used again    *)
(* and again.  A variable holds the power of z it is, as the set of ones   *)
(* in its exponent: squaring moves them up one place, and multiplying puts *)
(* them together.                                                          *)
(***************************************************************************)
EXTENDS Integers, Sequences

Sq(to, from) == <<[to |-> to, of |-> <<from>>]>>
Mul(to, a, b) == <<[to |-> to, of |-> <<a, b>>]>>
Times(code, n) == [k \in 1 .. n * Len(code) |-> code[1 + ((k - 1) % Len(code))]]
\* fe_sq(to, from), then for (i = 1; i < n; ++i) fe_sq(to, to)
Sqs(to, from, n) == Sq(to, from) \o Times(Sq(to, to), n - 1)
\* for (i = 2; i < n; i += 2) { square(a, b); square(b, a); }
Turns(a, b, n) == Times(Sq(a, b) \o Sq(b, a), (n - 2) \div 2)

\* mutant of fe_invert: a loop that runs once too often
fe_invert_Loop ==
  Sqs("t0", "z", 1) \o Sqs("t1", "t0", 2) \o Mul("t1", "z", "t1") \o Mul("t0", "t0", "t1")
  \o Sqs("t2", "t0", 1) \o Mul("t1", "t1", "t2") \o Sqs("t2", "t1", 5) \o Mul("t1", "t2", "t1")
  \o Sqs("t2", "t1", 10) \o Mul("t2", "t2", "t1") \o Sqs("t3", "t2", 21) \o Mul("t2", "t3", "t2")
  \o Sqs("t2", "t2", 10) \o Mul("t1", "t2", "t1") \o Sqs("t2", "t1", 50) \o Mul("t2", "t2", "t1")
  \o Sqs("t3", "t2", 100) \o Mul("t2", "t3", "t2") \o Sqs("t2", "t2", 50) \o Mul("t1", "t2", "t1")
  \o Sqs("t1", "t1", 5) \o Mul("out", "t1", "t0")

fe_invert ==
  Sqs("t0", "z", 1) \o Sqs("t1", "t0", 2) \o Mul("t1", "z", "t1") \o Mul("t0", "t0", "t1")
  \o Sqs("t2", "t0", 1) \o Mul("t1", "t1", "t2") \o Sqs("t2", "t1", 5) \o Mul("t1", "t2", "t1")
  \o Sqs("t2", "t1", 10) \o Mul("t2", "t2", "t1") \o Sqs("t3", "t2", 20) \o Mul("t2", "t3", "t2")
  \o Sqs("t2", "t2", 10) \o Mul("t1", "t2", "t1") \o Sqs("t2", "t1", 50) \o Mul("t2", "t2", "t1")
  \o Sqs("t3", "t2", 100) \o Mul("t2", "t3", "t2") \o Sqs("t2", "t2", 50) \o Mul("t1", "t2", "t1")
  \o Sqs("t1", "t1", 5) \o Mul("out", "t1", "t0")

fe_pow22523 ==
  Sqs("t0", "z", 1) \o Sqs("t1", "t0", 2) \o Mul("t1", "z", "t1") \o Mul("t0", "t0", "t1")
  \o Sqs("t0", "t0", 1) \o Mul("t0", "t1", "t0") \o Sqs("t1", "t0", 5) \o Mul("t0", "t1", "t0")
  \o Sqs("t1", "t0", 10) \o Mul("t1", "t1", "t0") \o Sqs("t2", "t1", 20) \o Mul("t1", "t2", "t1")
  \o Sqs("t1", "t1", 10) \o Mul("t0", "t1", "t0") \o Sqs("t1", "t0", 50) \o Mul("t1", "t1", "t0")
  \o Sqs("t2", "t1", 100) \o Mul("t1", "t2", "t1") \o Sqs("t1", "t1", 50) \o Mul("t0", "t1", "t0")
  \o Sqs("t0", "t0", 2) \o Mul("out", "t0", "z")

\* fe25519_invert, and crecip, which is the same code on another type; variables
\* are named for the power they end with
InvertStart ==
  Sq("z2", "z") \o Sq("t1", "z2") \o Sq("t0", "t1") \o Mul("z9", "t0", "z")
  \o Mul("z11", "z9", "z2") \o Sq("t0", "z11") \o Mul("z2_5_0", "t0", "z9")
  \o Sq("t0", "z2_5_0") \o Sq("t1", "t0") \o Sq("t0", "t1") \o Sq("t1", "t0") \o Sq("t0", "t1")
  \o Mul("z2_10_0", "t0", "z2_5_0")

fe25519_invert ==
  InvertStart
  \o Sq("t0", "z2_10_0") \o Sq("t1", "t0") \o Turns("t0", "t1", 10) \o Mul("z2_20_0", "t1", "z2_10_0")
  \o Sq("t0", "z2_20_0") \o Sq("t1", "t0") \o Turns("t0", "t1", 20) \o Mul("t0", "t1", "z2_20_0")
  \o Sq("t1", "t0") \o Sq("t0", "t1") \o Turns("t1", "t0", 10) \o Mul("z2_50_0", "t0", "z2_10_0")
  \o Sq("t0", "z2_50_0") \o Sq("t1", "t0") \o Turns("t0", "t1", 50) \o Mul("z2_100_0", "t1", "z2_50_0")
  \o Sq("t1", "z2_100_0") \o Sq("t0", "t1") \o Turns("t1", "t0", 100) \o Mul("t1", "t0", "z2_100_0")
  \o Sq("t0", "t1") \o Sq("t1", "t0") \o Turns("t0", "t1", 50) \o Mul("t0", "t1", "z2_50_0")
  \o Sq("t1", "t0") \o Sq("t0", "t1") \o Sq("t1", "t0") \o Sq("t0", "t1") \o Sq("t1", "t0")
  \o Mul("out", "t1", "z11")

crecip == fe25519_invert

fe25519_pow2523 ==
  Sq("z2", "z") \o Sqs("t", "z2", 2) \o Mul("z9", "t", "z") \o Mul("z11", "z9", "z2")
  \o Sq("t", "z11") \o Mul("z2_5_0", "t", "z9")
  \o Sqs("t", "z2_5_0", 5) \o Mul("z2_10_0", "t", "z2_5_0")
  \o Sqs("t", "z2_10_0", 10) \o Mul("z2_20_0", "t", "z2_10_0")
  \o Sqs("t", "z2_20_0", 20) \o Mul("t", "t", "z2_20_0")
  \o Sqs("t", "t", 10) \o Mul("z2_50_0", "t", "z2_10_0")
  \o Sqs("t", "z2_50_0", 50) \o Mul("z2_100_0", "t", "z2_50_0")
  \o Sqs("t", "z2_100_0", 100) \o Mul("t", "t", "z2_100_0")
  \o Sqs("t", "t", 50) \o Mul("t", "t", "z2_50_0")
  \o Sqs("t", "t", 2) \o Mul("out", "t", "z")

Code == [fe_invert |-> fe_invert, fe_pow22523 |-> fe_pow22523, crecip |-> crecip,
         fe25519_invert |-> fe25519_invert, fe25519_pow2523 |-> fe25519_pow2523]

Start == [ok |-> TRUE, power |-> [x \in {"z"} |-> {0}]]

\* One instruction.  What it reads must have been set; and exponents that
\* shared a one would carry, which no chain here needs.
Execute(s, op) ==
  LET read == {op.of[i] : i \in DOMAIN op.of}
      of(x) == s.power[x]
      result == IF Len(op.of) = 1 THEN {b + 1 : b \in of(op.of[1])}
                ELSE of(op.of[1]) \cup of(op.of[2])
      ready == /\ read \subseteq DOMAIN s.power
               /\ Len(op.of) = 2 => of(op.of[1]) \cap of(op.of[2]) = {}
  IN  IF s.ok /\ ready
      THEN [ok |-> TRUE,
            power |-> [x \in DOMAIN s.power \cup {op.to} |-> IF x = op.to THEN result ELSE of(x)]]
      ELSE [s EXCEPT !.ok = FALSE]

\* the prime less two, 2^255 - 21; and (prime - 5) / 8, which is 2^252 - 3
ToInvert == 0 .. 254 \ {2, 4}
ToRoot == 0 .. 251 \ {1}

Wanted == [fe_invert |-> ToInvert, crecip |-> ToInvert, fe25519_invert |-> ToInvert,
           fe_pow22523 |-> ToRoot, fe25519_pow2523 |-> ToRoot]

\* Every instruction of the chain f, taken in quarters, can be executed, and
\* leaves the wanted power in out.
Arrives(f) ==
  LET Quarter(k) == (k * Len(Code[f])) \div 4
      After(s, k) ==
        LET after[n \in Quarter(k - 1) .. Quarter(k)] ==
              IF n = Quarter(k - 1) THEN s ELSE Execute(after[n - 1], Code[f][n])
        IN  after[Quarter(k)]
      first == After(Start, 1)
      second == After(first, 2)
      third == After(second, 3)
      end == After(third, 4)
  IN  /\ first.ok /\ second.ok /\ third.ok /\ end.ok
      /\ "out" \in DOMAIN end.power /\ end.power["out"] = Wanted[f]
=============================================================================
