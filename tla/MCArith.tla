------------------------------ MODULE MCArith ------------------------------
(***************************************************************************)
(* The arithmetic of the system on small instances.  A state is a request  *)
(* of MemSize, the registers of Field, a scalar of Digits, or a job: an    *)
(* algorithm and its input.  The properties compare what the algorithm     *)
(* computes with the numbers it is about.                                  *)
(***************************************************************************)
EXTENDS MemSize, Field, Digits

VARIABLE job

Plane == INSTANCE Edwards WITH P <- 101, D <- 29
TheBase == CHOOSE q \in Plane!Curve :
             q # Plane!Neutral /\ Plane!Multiples(q, 13)[13] = Plane!Neutral
Points == INSTANCE MCCurve WITH P <- 101, D <- 29, Base <- TheBase

Digit == INSTANCE Sc WITH Bits <- 2, Coef <- <<1, 1, 1, -2, 1, -1>>
Ref  == INSTANCE Fe25519 WITH Bits <- 5, Limbs <- 3, Fold <- 3
Barrett == INSTANCE Sc25519 WITH B <- 4, K <- 3, Modulus <- 17
Bits  == INSTANCE Layout
Power == INSTANCE Chains
Hash == INSTANCE Sha512

Idle == <<"none">>

\* limbs of a reduced number of the reference field: the last one has a bit less
Reduced == {[i \in 0 .. 2 |-> t[i + 1]] : t \in {0, 1, 28, 29, 31} \X {0, 1, 29, 31} \X {0, 1, 15}}

\* a scalar of 24 digits in runs of four
Runs == [0 .. 5 -> 0 .. 3]
Spread(t, n) == [k \in 0 .. n - 1 |-> t[(6 * k) \div n]]
Halves == {t \in [0 .. 5 -> {0, 1, 3}] : t[1] = t[0] /\ t[4] = t[2] /\ t[5] \in {0, 1}}

Inputs == Points!CurveInputs @@ [
           reference |-> Reduced \X Reduced,
           reduce    |-> Runs,
           muladd    |-> Halves \X Halves,
           barrett   |-> Runs,
           bit       |-> (DOMAIN Bits!Conversions) \X (0 .. 519),
           chain     |-> DOMAIN Power!Code,
           hash      |-> (0 .. 300) \X {0, 1, 32, 64, 111, 127, 128, 129},
           rounds    |-> 1 .. 20]

\* limbs at and around their bounds, numbers at and around multiples of the prime
Unreduced == {[i \in 0 .. 3 |-> t[i + 1]] :
                t \in {<<14, 7, 15, 7>>, <<-17, -8, -17, -8>>, <<15, 8, 15, 8>>,
                       <<17, 0, -1, 7>>, <<-14, -7, -15, -7>>}}

\* every scalar of 12 bits, and the largest that the recodings take: of 13 bits the
\* windows, of 14 an interleaving, of 15 the others
Recodable == 0 .. 4095 \cup 7936 .. 8191 \cup 32512 .. 32767
Interleavings == {<<a, 16383 - a>> : a \in 0 .. 2047}

\* the jobs of the runs of Field and of Digits, which the others leave alone
Limbed == <<"limbs">>
Scalar == <<"scalars">>
Resting == reg = [h \in Registers |-> fe_0] /\ num = [h \in Registers |-> 0] /\ calls = MaxCalls

Asked(kind) == job[1] = kind /\ Len(job) = 2
Input == job[2]

MCInit == /\ Init /\ DigitsInit
          /\ \/ Resting /\ job \in {Idle, Scalar} \cup {<<kind>> : kind \in DOMAIN Inputs}
             \/ FieldInit /\ job = Limbed

Request == job = Idle /\ Next /\ UNCHANGED <<registers, written, job>>
Calculate == job = Limbed /\ FieldNext /\ UNCHANGED <<vars, written, job>>
InDigits == job = Scalar /\ DigitsNext /\ UNCHANGED <<vars, registers, job>>

Ask == /\ Len(job) = 1 /\ job \notin {Idle, Limbed, Scalar}
       /\ \E in \in Inputs[job[1]] : job' = <<job[1], in>>
       /\ UNCHANGED <<vars, registers, written>>
Answered == Len(job) = 2 /\ job' = <<job[1]>> /\ UNCHANGED <<vars, registers, written>>

MCNext == Request \/ Calculate \/ InDigits \/ Ask \/ Answered

MCSpec == MCInit /\ [][MCNext]_<<vars, registers, written, job>>
-----------------------------------------------------------------------------
\* sc_reduce and sc_muladd end with the one number below the order, in digits
\* that are not negative, after folds that leave negative digits everywhere.  The
\* order is just above the twelfth power of the radix: the last digit can be one
\* more than the others.  Barrett's quotient is at most two too small, so that two
\* subtractions reduce every number of twice the length, sums and products too.
ScalarsReduced ==
  LET l == Digit!Order
      mod(s, n) == Digit!ValueMod(s, n, l)
      Canonical(s, n) == /\ \A i \in 0 .. 10 : s[i] \in 0 .. Digit!Radix - 1
                         /\ s[11] \in 0 .. Digit!Radix
                         /\ Digit!ValueMod(s, 12, 2 * l) = n
      TimesMod(a, n) == FoldLeft(LAMBDA v, i : (v * Digit!Radix + a[12 - i] * n) % l,
                                 0, [i \in 1 .. 12 |-> i])
  IN  /\ Asked("reduce") =>
           LET s == Spread(Input, 24) IN Canonical(Digit!sc_reduce(s), mod(s, 24))
      /\ Asked("muladd") =>
           LET a == Spread(Input[1], 12)
               b == Spread(Input[2], 12)
               c == Spread([Input[1] EXCEPT ![0] = 3], 12)
           IN  Canonical(Digit!sc_muladd(a, b, c), (TimesMod(a, mod(b, 12)) + mod(c, 12)) % l)
      /\ Asked("barrett") =>
           LET v(r) == Barrett!NumberOf(r, 3)
               x == Barrett!sc25519_from32bytes([i \in 0 .. 5 |-> Input[i]])
               y == Barrett!sc25519_from32bytes([i \in 0 .. 5 |-> Input[(i + 3) % 6]])
           IN  /\ v(Barrett!sc25519_from64bytes(Input)) = Barrett!NumberOf(Input, 6) % 17
               /\ v(x) = Barrett!NumberOf(Input, 3) % 17
               /\ v(Barrett!sc25519_add(x, y)) = (v(x) + v(y)) % 17
               /\ v(Barrett!sc25519_mul(x, y)) = (v(x) * v(y)) % 17
               /\ Barrett!sc25519_lt_vartime(x, y) <=> v(x) < v(y)
               /\ v(Barrett!sc25519_sub_nored(x, y)) = (v(x) - v(y)) % 64

\* The reference field: what is added, subtracted and multiplied is right modulo
\* the prime, and sums and differences come back below 2^255, where freezing
\* subtracts the modulus as often as it must.
ReferenceField ==
  Asked("reference") =>
    LET x == Input[1]
        y == Input[2]
        v(r) == Ref!Value(r)
        IsNumber(r, n) == Ref!Value(Ref!fe25519_freeze(r)) = n % Ref!Prime
        sum == Ref!fe25519_add(x, y)
        difference == Ref!fe25519_sub(x, y)
    IN  /\ IsNumber(sum, v(x) + v(y))
        /\ IsNumber(difference, v(x) - v(y))
        /\ IsNumber(Ref!fe25519_neg(x), -v(x))
        /\ v(Ref!fe25519_mul(x, y)) % Ref!Prime = (v(x) * v(y)) % Ref!Prime
        /\ Ref!fe25519_iseq_vartime(Ref!fe25519_sub(sum, y), x)
        /\ Ref!fe25519_iszero(Ref!fe25519_sub(x, y)) <=> v(x) % Ref!Prime = v(y) % Ref!Prime
        /\ Ref!fe25519_getparity(difference) = ((v(x) - v(y)) % Ref!Prime) % 2

\* However a message is cut into updates, the blocks compressed are those of the
\* message, a one bit, the fewest zeros and the length in sixteen bytes; and the
\* registers that go round are those of rounds that move every register.
MessageHashed ==
  /\ Asked("hash") =>
       LET n == Input[1]
           message == [k \in 1 .. n |-> 1000 + k]
           cut == IF Input[2] < n THEN Input[2] ELSE n
           half == (cut + n) \div 2
           zeros == (-(n + 17)) % 128
           padded == message \o <<Hash!One>> \o [k \in 1 .. zeros + 8 |-> 0]
                       \o <<0, 0, 0, 0, 0, 0, (8 * n) \div 256, (8 * n) % 256>>
       IN  Hash!Hashed(<<SubSeq(message, 1, cut), SubSeq(message, cut + 1, half),
                         SubSeq(message, half + 1, n)>>)
             = [b \in 1 .. Len(padded) \div 128 |->
                  [k \in 0 .. 127 |-> padded[128 * (b - 1) + k + 1]]]
  /\ Asked("rounds") =>
       LET start == [k \in 0 .. 7 |-> (k * k + Input) % 65536]
           W == [k \in 1 .. 24 |-> (k * Input) % 65536]
           Round(s, i) ==
             LET t0 == Hash!Mix0(s[5], s[6], s[7], s[8], W[i])
             IN  <<(t0 + Hash!Mix1(s[1], s[2], s[3])) % 65536, s[1], s[2], s[3],
                   (s[4] + t0) % 65536, s[5], s[6], s[7]>>
           rounds == Hash!Rounds(start, W)
       IN  FoldLeft(Round, [k \in 1 .. 8 |-> start[k - 1]], [i \in 1 .. 24 |-> i])
             = [k \in 1 .. 8 |-> rounds[k - 1]]

\* What is written out step by step at full size does what its name promises: every
\* load, store and window takes each bit once, to its own weight, and drops the bits
\* above the number; every addition chain reads a variable only once it is set and
\* before it is overwritten, and ends with the power it is to raise to.
UnrolledRight ==
  /\ Asked("bit") =>
       LET conversion == Bits!Conversions[Input[1]]
       IN  Bits!BitCarried(conversion[1], Input[2], conversion[2])
  /\ Asked("chain") => Power!Arrives(Input)

\* What MCCurve says of points, encodings, multiples and the bounds of limbs.
PointsRight == Points!PointsRight
EncodingRight == Points!EncodingRight
MultiplesRight == Points!MultiplesRight
LimbsBounded == Points!LimbsBounded
=============================================================================
