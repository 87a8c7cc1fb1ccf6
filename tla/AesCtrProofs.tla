---------------------------- MODULE AesCtrProofs ----------------------------
(***************************************************************************)
(* The streaming mode of aes_fpga.c for every radix, word and block size,  *)
(* and every set of lengths that stays below the blocks from which         *)
(* addIvOpenssl can lose a carry.                                          *)
(***************************************************************************)
EXTENDS AesCtr, NumberTheorems, SequenceTheorems

-----------------------------------------------------------------------------
(* Remainders. *)

LEMMA ModSum ==
  ASSUME NEW m \in Nat \ {0}, NEW x \in Nat, NEW y \in Nat
  PROVE  ((x % m) + y) % m = (x + y) % m
<1> DEFINE q == x \div m
           z == x % m
<1>1. q \in Nat /\ z \in Nat /\ x = z + q * m
  BY Division
<1> HIDE DEF q, z
<1>2. x + y = q * m + (z + y)
  <2>1. q * m \in Nat
    BY <1>1
  <2>2. QED
    BY <1>1, <2>1
<1>3. (q * m + (z + y)) % m = (z + y) % m
  <2>1. z + y \in Nat
    BY <1>1
  <2>2. QED
    BY <1>1, <2>1, DivShift
<1>4. QED
  BY <1>2, <1>3 DEF z

\* The block before a counter, and the one after that.
LEMMA Predecessor ==
  ASSUME NEW m \in Nat \ {0}, NEW v \in 0 .. m - 1
  PROVE  /\ (v - 1) % m \in 0 .. m - 1
         /\ (((v - 1) % m) + 1) % m = v
<1>1. CASE v = 0
  <2>1. (v - 1) % m = m - 1
    BY <1>1
  <2>2. m % m = 0
    OBVIOUS
  <2>3. QED
    BY <1>1, <2>1, <2>2
<1>2. CASE v # 0
  <2>1. (v - 1) % m = v - 1
    BY <1>2
  <2>2. v % m = v
    OBVIOUS
  <2>3. QED
    BY <1>2, <2>1, <2>2
<1>3. QED
  BY <1>1, <1>2

\* The counter after one: the block before it is that counter.
LEMMA Successor ==
  ASSUME NEW m \in Nat \ {0}, NEW c \in 0 .. m - 1
  PROVE  /\ (c + 1) % m \in 0 .. m - 1
         /\ (((c + 1) % m) - 1) % m = c
<1>1. CASE c = m - 1
  <2>1. (c + 1) % m = 0
    <3>1. c + 1 = m /\ m % m = 0
      BY <1>1
    <3>2. QED
      BY <3>1
  <2>2. (0 - 1) % m = m - 1
    OBVIOUS
  <2>3. QED
    BY <1>1, <2>1, <2>2
<1>2. CASE c # m - 1
  <2>1. (c + 1) % m = c + 1
    BY <1>2
  <2>2. c % m = c
    OBVIOUS
  <2>3. QED
    BY <1>2, <2>1, <2>2
<1>3. QED
  BY <1>1, <1>2

-----------------------------------------------------------------------------
(* The constants. *)

LEMMA ConstantFacts ==
  /\ Bytes \in Nat \ {0}
  /\ Counters \in Nat \ {0}
  /\ WordRadix \in Nat \ {0, 1}
  /\ Byte <= WordRadix
  /\ Weight(WordRadix, Words)[Words] = Counters
<1>1. Bytes \in Nat \ {0}
  BY SizeAssumption DEF Bytes
<1>2. Counters \in Nat \ {0}
  BY <1>1, RadixAssumption, WeightPositive DEF Counters
<1>3. WordRadix = Weight(Byte, WordBytes)[WordBytes - 1] * Byte
  BY RadixAssumption, SizeAssumption, WeightFacts DEF WordRadix
<1>4. Weight(Byte, WordBytes)[WordBytes - 1] \in Nat \ {0}
  BY RadixAssumption, SizeAssumption, WeightPositive
<1>5. \A x \in Nat \ {0} : x * Byte \in Nat /\ x * Byte >= Byte
  BY RadixAssumption
<1>6. Byte <= WordRadix /\ WordRadix \in Nat \ {0, 1}
  BY <1>3, <1>4, <1>5, RadixAssumption
<1>7. Weight(WordRadix, Words)[Words] = Counters
  <2> DEFINE zero == [k \in 0 .. Bytes - 1 |-> 0]
  <2>1. zero \in Digits(Byte, WordBytes * Words)
    BY RadixAssumption DEF Digits, Bytes
  <2> HIDE DEF zero
  <2>2. Weight(Weight(Byte, WordBytes)[WordBytes], Words)[Words]
          = Weight(Byte, WordBytes * Words)[WordBytes * Words]
    <3>1. Byte \in Nat \ {0} /\ WordBytes \in Nat \ {0} /\ Words \in Nat
      BY RadixAssumption, SizeAssumption
    <3>2. QED
      BY <2>1, <3>1, PackValue
  <2>3. QED
    BY <2>2 DEF WordRadix, Counters, Bytes
<1>8. QED
  BY <1>1, <1>2, <1>6, <1>7

LEMMA CounterRange ==
  ASSUME NEW d \in IvBytes
  PROVE  Value(d, Byte, Bytes) \in 0 .. Counters - 1
<1>1. /\ Low(d, Byte, Bytes)[Bytes] \in Nat
      /\ Low(d, Byte, Bytes)[Bytes] < Weight(Byte, Bytes)[Bytes]
  BY ConstantFacts, RadixAssumption, LowBound DEF IvBytes
<1>2. QED
  BY <1>1, ConstantFacts DEF Value, Counters

\* Both copies of the counter count on by the same number.
LEMMA BothCount ==
  ASSUME NEW d \in IvBytes, NEW w \in IvWords, NEW num \in Nat,
         num < Byte * (Byte - 1)
  PROVE  /\ addIvOpenssl(d, num) \in IvBytes
         /\ addIvWords(w, num) \in IvWords
         /\ Value(addIvOpenssl(d, num), Byte, Bytes)
              = (Value(d, Byte, Bytes) + num) % Counters
         /\ Value(addIvWords(w, num), WordRadix, Words)
              = (Value(w, WordRadix, Words) + num) % Counters
<1>1. num < WordRadix * (WordRadix - 1)
  <2>1. Byte * (Byte - 1) <= WordRadix * (WordRadix - 1)
    <3>1. Byte * (Byte - 1) <= WordRadix * (Byte - 1)
      BY ConstantFacts, RadixAssumption
    <3>2. WordRadix * (Byte - 1) <= WordRadix * (WordRadix - 1)
      BY ConstantFacts, RadixAssumption
    <3>3. /\ Byte * (Byte - 1) \in Int /\ WordRadix * (Byte - 1) \in Int
          /\ WordRadix * (WordRadix - 1) \in Int
      BY ConstantFacts, RadixAssumption
    <3>4. QED
      BY <3>1, <3>2, <3>3
  <2>2. Byte * (Byte - 1) \in Int /\ WordRadix * (WordRadix - 1) \in Int
    BY ConstantFacts, RadixAssumption
  <2>3. QED
    BY <2>1, <2>2
<1>2. /\ Add(d, num, Byte, Bytes) \in Digits(Byte, Bytes)
      /\ Value(Add(d, num, Byte, Bytes), Byte, Bytes)
           = (Value(d, Byte, Bytes) + num) % Weight(Byte, Bytes)[Bytes]
  BY ConstantFacts, RadixAssumption, AddCorrect DEF IvBytes
<1>3. /\ Add(w, num, WordRadix, Words) \in Digits(WordRadix, Words)
      /\ Value(Add(w, num, WordRadix, Words), WordRadix, Words)
           = (Value(w, WordRadix, Words) + num) % Weight(WordRadix, Words)[Words]
  BY <1>1, ConstantFacts, SizeAssumption, AddCorrect DEF IvWords
<1>4. QED
  BY <1>2, <1>3, ConstantFacts
    DEF addIvOpenssl, addIvWords, IvBytes, IvWords, Counters

LEMMA BlockDivision ==
  \A x \in Nat : /\ x \div Block \in Nat
                 /\ x % Block \in 0 .. Block - 1
                 /\ x = (x % Block) + (x \div Block) * Block
BY BlockAssumption, Division

LEMMA BlockShift ==
  \A q, y, x \in Nat : x = q * Block + y => /\ x % Block = y % Block
                                           /\ x \div Block = q + (y \div Block)
<1>1. TAKE q, y \in Nat
<1>2. /\ (q * Block + y) % Block = y % Block
      /\ (q * Block + y) \div Block = q + (y \div Block)
  BY BlockAssumption, DivShift
<1>3. QED
  BY <1>2

LEMMA CounterSteps ==
  \A c \in 0 .. Counters - 1 :
    /\ (c - 1) % Counters \in 0 .. Counters - 1
    /\ (((c - 1) % Counters) + 1) % Counters = c
    /\ (c + 1) % Counters \in 0 .. Counters - 1
    /\ (((c + 1) % Counters) - 1) % Counters = c
BY ConstantFacts, Predecessor, Successor

LEMMA CounterRemainder == \A x \in Nat : x % Counters \in 0 .. Counters - 1
BY ConstantFacts, Division

-----------------------------------------------------------------------------
(* Stretches of the keystream. *)

Keystream(c, o, len) == Promise!Keystream(c, o, len)

LEMMA KeystreamItems ==
  ASSUME NEW c, NEW o, NEW len \in Nat
  PROVE  /\ Len(Keystream(c, o, len)) = len
         /\ DOMAIN Keystream(c, o, len) = 1 .. len
         /\ \A i \in 1 .. len : Keystream(c, o, len)[i] =
              <<(c + (o + i - 1) \div Block) % Counters, (o + i - 1) % Block>>
BY DEF Keystream, Promise!Keystream

LEMMA KeystreamType ==
  ASSUME NEW c \in Nat, NEW o \in Nat, NEW len \in Nat
  PROVE  Keystream(c, o, len) \in Seq((0 .. Counters - 1) \X (0 .. Block - 1))
<1>1. ASSUME NEW i \in 1 .. len
      PROVE  /\ (c + (o + i - 1) \div Block) % Counters \in 0 .. Counters - 1
             /\ (o + i - 1) % Block \in 0 .. Block - 1
  <2>1. o + i - 1 \in Nat
    OBVIOUS
  <2>2. (o + i - 1) \div Block \in Nat /\ (o + i - 1) % Block \in 0 .. Block - 1
    BY <2>1, BlockDivision
  <2>3. c + (o + i - 1) \div Block \in Nat
    BY <2>2
  <2>4. QED
    BY <2>2, <2>3, CounterRemainder
<1> DEFINE T == (0 .. Counters - 1) \X (0 .. Block - 1)
           f(i) == <<(c + (o + i - 1) \div Block) % Counters, (o + i - 1) % Block>>
<1>2. \A i \in 1 .. len : f(i) \in T
  BY <1>1
<1>3. Keystream(c, o, len) = [i \in 1 .. len |-> f(i)]
  BY DEF Keystream, Promise!Keystream
<1> HIDE DEF T, f
<1>4. [i \in 1 .. len |-> f(i)] \in Seq(T)
  BY <1>2
<1>5. QED
  BY <1>3, <1>4 DEF T

\* The stretch from place o of block c is that of a bytes, and that of b bytes
\* from place p of block c1.
Joins(c, o, len, a, c1, p, b) ==
  Keystream(c, o, len) = Keystream(c, o, a) \o Keystream(c1, p, b)

\* A stretch of the keystream may be cut anywhere.
LEMMA KeystreamSplit ==
  ASSUME NEW c \in Nat, NEW o \in Nat, NEW a \in Nat, NEW b \in Nat,
         NEW len \in Nat, NEW c1 \in Nat, NEW p \in Nat,
         len = a + b,
         c1 = (c + (o + a) \div Block) % Counters,
         p = (o + a) % Block
  PROVE  Joins(c, o, len, a, c1, p, b)
<1> DEFINE q == (o + a) \div Block
           X == Keystream(c, o, a)
           Y == Keystream(c1, p, b)
           Z == Keystream(c, o, a + b)
<1>1. q \in Nat /\ o + a = p + q * Block /\ c1 = (c + q) % Counters
  <2>1. o + a \in Nat
    OBVIOUS
  <2>2. QED
    BY <2>1, BlockDivision
<1>3. /\ Len(X) = a /\ DOMAIN X = 1 .. a
      /\ \A i \in 1 .. a : X[i] =
           <<(c + (o + i - 1) \div Block) % Counters, (o + i - 1) % Block>>
  BY KeystreamItems
<1> HIDE DEF q
<1>4. /\ Len(Y) = b /\ DOMAIN Y = 1 .. b
      /\ \A i \in 1 .. b : Y[i] =
           <<(c1 + (p + i - 1) \div Block) % Counters, (p + i - 1) % Block>>
  BY KeystreamItems
<1>5. /\ Len(Z) = a + b /\ DOMAIN Z = 1 .. a + b
      /\ \A i \in 1 .. a + b : Z[i] =
           <<(c + (o + i - 1) \div Block) % Counters, (o + i - 1) % Block>>
  BY KeystreamItems
<1>6. X \in Seq((0 .. Counters - 1) \X (0 .. Block - 1))
  BY KeystreamType
<1>7. Y \in Seq((0 .. Counters - 1) \X (0 .. Block - 1))
  BY KeystreamType
<1>8. Z = [i \in 1 .. a + b |-> Z[i]]
  BY DEF Keystream, Promise!Keystream
<1>9. ASSUME NEW i \in 1 .. b PROVE Z[a + i] = Y[i]
  <2> DEFINE y == p + i - 1
  <2>1. y \in Nat /\ o + (a + i) - 1 = q * Block + y
    <3>1. q * Block \in Nat
      BY <1>1, BlockAssumption
    <3>2. QED
      BY <1>1, <3>1
  <2>2. a + i \in 1 .. a + b
    OBVIOUS
  <2>3. Z[a + i] =
          <<(c + (q * Block + y) \div Block) % Counters, (q * Block + y) % Block>>
    BY <1>5, <2>1, <2>2
  <2>4. Y[i] = <<(c1 + y \div Block) % Counters, y % Block>>
    BY <1>4
  <2> HIDE DEF y
  <2>5. /\ (q * Block + y) % Block = y % Block
        /\ (q * Block + y) \div Block = q + (y \div Block)
        /\ y \div Block \in Nat
    <3> DEFINE x == q * Block + y
    <3>1. x \in Nat /\ x = q * Block + y
      BY <1>1, <2>1, BlockAssumption
    <3> HIDE DEF x
    <3>2. /\ x % Block = y % Block
          /\ x \div Block = q + (y \div Block)
          /\ y \div Block \in Nat
      BY <1>1, <2>1, <3>1, BlockShift, BlockDivision
    <3>3. QED
      BY <3>1, <3>2
  <2>6. (((c + q) % Counters) + (y \div Block)) % Counters
          = ((c + q) + (y \div Block)) % Counters
    <3>1. c + q \in Nat
      BY <1>1
    <3>2. QED
      BY <2>5, <3>1, ConstantFacts, ModSum
  <2>7. c + (q + (y \div Block)) = (c + q) + (y \div Block)
    BY <1>1, <2>5
  <2>8. QED
    BY <1>1, <2>3, <2>4, <2>5, <2>6, <2>7
<1>10. ASSUME NEW i \in 1 .. a PROVE Z[i] = X[i]
  <2>1. i \in 1 .. a + b
    OBVIOUS
  <2>2. QED
    BY <1>3, <1>5, <2>1
<1> HIDE DEF X, Y, Z
<1>11. /\ X \o Y = [i \in 1 .. a + b |-> (X \o Y)[i]]
       /\ \A i \in 1 .. a + b :
            (X \o Y)[i] = IF i <= a THEN X[i] ELSE Y[i - a]
  <2>1. /\ X \o Y \in Seq((0 .. Counters - 1) \X (0 .. Block - 1))
        /\ Len(X \o Y) = Len(X) + Len(Y)
        /\ \A i \in 1 .. Len(X) + Len(Y) :
             (X \o Y)[i] = IF i <= Len(X) THEN X[i] ELSE Y[i - Len(X)]
    BY <1>6, <1>7, ConcatProperties
  <2>2. Len(X) = a /\ Len(Y) = b
    BY <1>3, <1>4
  <2>3. \A T : \A S \in Seq(T) : S = [i \in 1 .. Len(S) |-> S[i]]
    OBVIOUS
  <2>4. QED
    BY <2>1, <2>2, <2>3
<1>12. ASSUME NEW i \in 1 .. a + b
       PROVE  Z[i] = IF i <= a THEN X[i] ELSE Y[i - a]
  <2>1. CASE i <= a
    BY <1>10, <2>1
  <2>2. CASE i > a
    <3>1. i - a \in 1 .. b /\ a + (i - a) = i
      BY <2>2
    <3>2. Z[i] = Y[i - a]
      BY <1>9, <3>1
    <3>3. QED
      BY <2>2, <3>2
  <2>3. QED
    BY <2>1, <2>2
<1>13. Z = X \o Y
  BY <1>8, <1>11, <1>12
<1>14. QED
  BY <1>13 DEF X, Y, Z, Joins

-----------------------------------------------------------------------------
(* The keystream that each part of Aes_encrypt_ctr_hw uses. *)

Pieces == (0 .. Counters - 1) \X (0 .. Block - 1)

LEMMA StoragePiece ==
  ASSUME TypeOK, last_location > 0, StorageIsCurrent,
         NEW num \in Nat, num <= Block - last_location
  PROVE  FromStorage(num) = Keystream(NextCounter, last_location, num)
<1> DEFINE c == NextCounter
           L == last_location
<1>1. c = previous_storage /\ c \in 0 .. Counters - 1
  <2>1. IvValue \in 0 .. Counters - 1
    BY CounterRange DEF TypeOK, IvValue
  <2>2. QED
    BY <2>1, CounterSteps DEF StorageIsCurrent, NextCounter
<1>2. L \in 1 .. Block - 1 /\ Block \in Nat /\ num <= Block - L
  BY BlockAssumption DEF TypeOK
<1> HIDE DEF c, L
<1>3. ASSUME NEW i \in 1 .. num
      PROVE  /\ (c + (L + i - 1) \div Block) % Counters = c
             /\ (L + i - 1) % Block = L + i - 1
  <2>1. L + i - 1 \in 0 .. Block - 1
    BY <1>2
  <2>2. \A x \in 0 .. Block - 1 : x \div Block = 0 /\ x % Block = x
    BY BlockAssumption
  <2>3. \A x \in 0 .. Counters - 1 : x % Counters = x
    BY ConstantFacts
  <2>4. c + 0 = c
    BY <1>1
  <2>5. QED
    BY <1>1, <2>1, <2>2, <2>3, <2>4
<1>4. \A i \in 1 .. num :
        <<(c + (L + i - 1) \div Block) % Counters, (L + i - 1) % Block>>
          = <<previous_storage, L + i - 1>>
  BY <1>1, <1>3
<1>5. QED
  BY <1>4 DEF FromStorage, Keystream, Promise!Keystream, c, L

LEMMA DevicePiece ==
  ASSUME TypeOK, CountersAgree, NEW num \in Nat
  PROVE  FromDevice(num) = Keystream(IvValue, 0, num * Block)
<1>1. IvInValue = IvValue
  BY DEF CountersAgree
<1>2. \A i \in 1 .. num * Block : 0 + i - 1 = i - 1
  BY BlockAssumption
<1>3. QED
  BY <1>1, <1>2 DEF FromDevice, Keystream, Promise!Keystream

LEMMA BlockPiece ==
  ASSUME NEW c \in 0 .. Counters - 1, NEW num \in 0 .. Block - 1
  PROVE  FromBlock(c, num) = Keystream(c, 0, num)
<1>1. ASSUME NEW i \in 1 .. num
      PROVE  /\ (c + (0 + i - 1) \div Block) % Counters = c
             /\ (0 + i - 1) % Block = i - 1
  <2>1. 0 + i - 1 \in 0 .. Block - 1 /\ 0 + i - 1 = i - 1
    BY BlockAssumption
  <2>2. \A x \in 0 .. Block - 1 : x \div Block = 0 /\ x % Block = x
    BY BlockAssumption
  <2>3. \A x \in 0 .. Counters - 1 : x % Counters = x
    BY ConstantFacts
  <2>4. c + 0 = c
    BY ConstantFacts
  <2>5. QED
    BY <2>1, <2>2, <2>3, <2>4
<1>2. \A i \in 1 .. num :
        <<(c + (0 + i - 1) \div Block) % Counters, (0 + i - 1) % Block>>
          = <<c, i - 1>>
  BY <1>1
<1>3. QED
  BY <1>2 DEF FromBlock, Keystream, Promise!Keystream

-----------------------------------------------------------------------------
(* The inductive invariant and its steps. *)

Inv == TypeOK /\ CountersAgree /\ StorageIsCurrent

LEMMA InitInv == Init => Inv /\ Promise!Init
<1> SUFFICES ASSUME Init PROVE Inv /\ Promise!Init
  OBVIOUS
<1>1. iv \in IvBytes /\ iv \in Digits(Byte, WordBytes * Words)
  BY DEF Init, IvBytes, Bytes
<1>2. iv_in \in IvWords
  <2>1. Byte \in Nat \ {0} /\ WordBytes \in Nat \ {0} /\ Words \in Nat
    BY RadixAssumption, SizeAssumption
  <2>2. Pack(iv, Byte, WordBytes, Words) \in Digits(Weight(Byte, WordBytes)[WordBytes], Words)
    BY <1>1, <2>1, PackDigits
  <2>3. QED
    BY <2>2 DEF Init, IvWords, WordRadix
<1>3. IvValue = IvInValue
  <2>1. Byte \in Nat \ {0} /\ WordBytes \in Nat \ {0} /\ Words \in Nat
    BY RadixAssumption, SizeAssumption
  <2>2. Value(Pack(iv, Byte, WordBytes, Words), Weight(Byte, WordBytes)[WordBytes], Words)
          = Value(iv, Byte, WordBytes * Words)
    BY <1>1, <2>1, PackValue
  <2>3. QED
    BY <2>2 DEF Init, IvValue, IvInValue, WordRadix, Bytes
<1>4. IvValue \in 0 .. Counters - 1
  BY <1>1, CounterRange DEF IvValue
<1>5. last_location = 0 /\ out = <<>> /\ previous_storage = NoStorage
  BY DEF Init
<1>6. TypeOK
  BY <1>1, <1>2, <1>5, BlockAssumption DEF TypeOK
<1>7. StorageIsCurrent /\ CountersAgree
  BY <1>3, <1>5 DEF StorageIsCurrent, CountersAgree
<1>8. Promise!Init
  BY <1>4, <1>5 DEF Promise!Init, NextCounter
<1>9. QED
  BY <1>6, <1>7, <1>8 DEF Inv

LEMMA ScrollStep ==
  ASSUME Inv, NEW len \in Lens, ctr_hw_Scroll(len)
  PROVE  Inv' /\ Promise!Encrypt(len)
<1> DEFINE L == last_location
           c == NextCounter
<1>1. TypeOK /\ CountersAgree /\ StorageIsCurrent
  BY DEF Inv
<1>2. /\ Block \in Nat \ {0}
      /\ len \in Nat /\ L \in 1 .. Block - 1 /\ len <= Block - L
      /\ out' = FromStorage(len)
      /\ last_location' = IF L + len >= Block THEN 0 ELSE L + len
      /\ iv' = iv /\ iv_in' = iv_in /\ previous_storage' = previous_storage
  BY <1>1, LensAssumption, BlockAssumption DEF ctr_hw_Scroll, TypeOK
<1>3. out' = Keystream(c, L, len)
  BY <1>1, <1>2, StoragePiece
<1>4. IvValue \in 0 .. Counters - 1 /\ IvValue' = IvValue /\ IvInValue' = IvInValue
  BY <1>1, <1>2, CounterRange DEF TypeOK, IvValue, IvInValue
<1>5. c \in 0 .. Counters - 1 /\ (c + 1) % Counters = IvValue
      /\ c = (IvValue - 1) % Counters
  BY <1>2, <1>4, CounterSteps, BlockAssumption DEF NextCounter
<1>6. TypeOK'
  <2>1. out' \in Seq(Pieces)
    <3>1. c \in Nat /\ L \in Nat /\ len \in Nat
      BY <1>2, <1>5, ConstantFacts
    <3> HIDE DEF c, L
    <3>2. Keystream(c, L, len) \in Seq(Pieces)
      BY <3>1, KeystreamType DEF Pieces
    <3>3. QED
      BY <1>3, <3>2
  <2>2. last_location' \in 0 .. Block - 1
    BY <1>2
  <2>3. QED
    BY <1>1, <1>2, <2>1, <2>2 DEF TypeOK, Pieces
<1>7. CountersAgree' /\ StorageIsCurrent'
  BY <1>1, <1>2, <1>4 DEF CountersAgree, StorageIsCurrent
<1>8. /\ NextCounter' = (c + (L + len) \div Block) % Counters
      /\ last_location' = (L + len) % Block
  <2>1. CASE L + len >= Block
    <3>1. L + len = Block
      BY <1>2, <2>1
    <3>2. Block \div Block = 1 /\ Block % Block = 0
      BY BlockAssumption
    <3>3. last_location' = 0 /\ NextCounter' = IvValue
      BY <1>2, <1>4, <2>1 DEF NextCounter
    <3>4. QED
      BY <1>5, <3>1, <3>2, <3>3
  <2>2. CASE L + len < Block
    <3>1. L + len \in 1 .. Block - 1
      BY <1>2, <2>2
    <3>2. (L + len) \div Block = 0 /\ (L + len) % Block = L + len
      <4>1. \A x \in 0 .. Block - 1 : x \div Block = 0 /\ x % Block = x
        BY BlockAssumption
      <4>2. QED
        BY <3>1, <4>1
    <3>3. last_location' = L + len /\ NextCounter' = c
      <4>1. last_location' = L + len /\ last_location' > 0
        BY <1>2, <2>2, <3>1
      <4>2. QED
        BY <1>2, <1>4, <4>1 DEF NextCounter
    <3>4. (c + 0) % Counters = c
      BY <1>5, ConstantFacts
    <3>5. QED
      BY <3>2, <3>3, <3>4
  <2>3. QED
    BY <1>2, <2>1, <2>2
<1>9. QED
  BY <1>3, <1>6, <1>7, <1>8 DEF Inv, Promise!Encrypt, Keystream

\* The parts of a call: what is left of the open block, full blocks, the rest.
LEMMA Cut ==
  ASSUME NEW L \in 0 .. Block - 1, NEW len \in Nat,
         NEW scroll \in Nat, NEW f \in Nat, NEW x \in Nat,
         L > 0 => len > Block - L,
         scroll = IF L > 0 THEN Block - L ELSE 0,
         f = (len - scroll) \div Block, x = (len - scroll) % Block
  PROVE  /\ scroll \in Nat /\ f \in Nat /\ x \in 0 .. Block - 1
         /\ len = scroll + (f * Block + x)
         /\ f <= len \div Block
         /\ (L + scroll) % Block = 0
         /\ (L + len) \div Block = (L + scroll) \div Block + f
         /\ (L + len) % Block = x
<1>1. scroll \in Nat /\ len - scroll \in Nat /\ Block \in Nat \ {0}
  BY BlockAssumption
<1>2. f \in Nat /\ x \in 0 .. Block - 1 /\ len - scroll = x + f * Block
  BY <1>1, BlockDivision
<1>3. f * Block \in Nat
  BY <1>1, <1>2
<1>4. len = scroll + (f * Block + x)
  BY <1>1, <1>2, <1>3
<1>5. x \div Block = 0 /\ x % Block = x
  BY <1>1, <1>2
<1>8. f <= len \div Block
  <2> DEFINE y == scroll + x
  <2>1. y \in Nat /\ len = f * Block + y
    BY <1>1, <1>2, <1>3, <1>4
  <2> HIDE DEF y
  <2>2. len \div Block = f + (y \div Block) /\ y \div Block \in Nat
    BY <1>2, <2>1, BlockShift, BlockDivision
  <2>3. QED
    BY <1>2, <2>2
<1>9. \E q \in {0, 1} : L + scroll = q * Block /\ (L + scroll) \div Block = q
                        /\ (L + scroll) % Block = 0
  <2>1. CASE L > 0
    <3>1. L + scroll = Block
      BY <1>1, <2>1
    <3>2. Block \div Block = 1 /\ Block % Block = 0 /\ 1 * Block = Block
      BY <1>1
    <3>3. QED
      BY <3>1, <3>2
  <2>2. CASE L = 0
    <3>1. L + scroll = 0
      BY <2>2
    <3>2. 0 \div Block = 0 /\ 0 % Block = 0 /\ 0 * Block = 0
      BY <1>1
    <3>3. QED
      BY <3>1, <3>2
  <2>3. QED
    BY <2>1, <2>2, <1>1
<1>10. PICK q \in {0, 1} : L + scroll = q * Block /\ (L + scroll) \div Block = q
                           /\ (L + scroll) % Block = 0
  BY <1>9
<1>11. L + len = (q + f) * Block + x
  <2>1. (q + f) * Block = q * Block + f * Block
    BY <1>1, <1>2
  <2>2. q * Block \in Int
    BY <1>1
  <2>3. QED
    BY <1>1, <1>2, <1>3, <1>4, <1>10, <2>1, <2>2
<1>12. (L + len) \div Block = q + f /\ (L + len) % Block = x
  <2> DEFINE p == q + f
  <2>1. p \in Nat /\ x \in Nat
    BY <1>2
  <2>2. L + len = p * Block + x
    BY <1>11
  <2> HIDE DEF p
  <2>3. L + len \in Nat
    OBVIOUS
  <2>4. (L + len) \div Block = p /\ (L + len) % Block = x
    BY <1>5, <2>1, <2>2, <2>3, BlockShift
  <2>5. QED
    BY <2>4 DEF p
<1>13. QED
  BY <1>1, <1>2, <1>4, <1>8, <1>10, <1>12

LEMMA BlocksStep ==
  ASSUME ShortCalls, Inv, NEW len \in Lens, ctr_hw_Blocks(len)
  PROVE  Inv' /\ Promise!Encrypt(len)
<1> DEFINE L == last_location
           C == NextCounter
           v == IvValue
           scroll == IF L > 0 THEN Block - L ELSE 0
           f == (len - scroll) \div Block
           x == (len - scroll) % Block
           next_iv == addIvOpenssl(iv, f)
           next_iv_in == addIvWords(iv_in, f)
           c == Value(next_iv, Byte, Bytes)
<1>1. /\ iv \in IvBytes /\ iv_in \in IvWords /\ L \in 0 .. Block - 1
      /\ previous_storage \in 0 .. Counters - 1 \cup {NoStorage}
      /\ TypeOK /\ CountersAgree /\ StorageIsCurrent
  BY DEF Inv, TypeOK
<1>2. len \in Nat /\ (L > 0 => len > Block - L)
  BY LensAssumption DEF ctr_hw_Blocks
<1>3. /\ out' = FromStorage(scroll) \o FromDevice(f) \o FromBlock(c, x)
      /\ last_location' = x
      /\ x > 0 => /\ previous_storage' = c
                  /\ iv' = addIvOpenssl(next_iv, 1)
                  /\ iv_in' = addIvWords(next_iv_in, 1)
      /\ ~ (x > 0) => /\ previous_storage' = previous_storage
                      /\ iv' = next_iv
                      /\ iv_in' = next_iv_in
  BY DEF ctr_hw_Blocks
<1>4. /\ scroll \in Nat /\ f \in Nat /\ x \in 0 .. Block - 1
      /\ len = scroll + (f * Block + x)
      /\ f <= len \div Block
      /\ (L + scroll) % Block = 0
      /\ (L + len) \div Block = (L + scroll) \div Block + f
      /\ (L + len) % Block = x
  <2>1. /\ scroll = IF L > 0 THEN Block - L ELSE 0
        /\ f = (len - scroll) \div Block
        /\ x = (len - scroll) % Block
    OBVIOUS
  <2>2. L \in 0 .. Block - 1
    BY <1>1
  <2>3. scroll \in Nat /\ len - scroll \in Nat
    BY <1>2, <2>2, BlockAssumption
  <2> HIDE DEF scroll
  <2>4. f \in Nat /\ x \in Nat
    BY <2>3, BlockDivision
  <2> HIDE DEF f, x, L
  <2>5. QED
    BY <1>2, <2>1, <2>2, <2>3, <2>4, Cut
<1>5. v \in 0 .. Counters - 1 /\ IvInValue = v
  BY <1>1, CounterRange DEF IvValue, CountersAgree
<1>6. /\ C \in 0 .. Counters - 1
      /\ (C + (L + scroll) \div Block) % Counters = v
  <2>1. CASE L > 0
    <3>1. C = (v - 1) % Counters
      BY <2>1 DEF NextCounter
    <3>2. C \in 0 .. Counters - 1 /\ (C + 1) % Counters = v
      BY <1>5, <3>1, CounterSteps
    <3>3. L + scroll = Block /\ Block \div Block = 1
      BY <1>1, <2>1, BlockAssumption
    <3>4. QED
      BY <3>2, <3>3
  <2>2. CASE ~ (L > 0)
    <3>1. C = v /\ L = 0 /\ L + scroll = 0
      BY <1>1, <2>2, BlockAssumption DEF NextCounter
    <3>2. 0 \div Block = 0 /\ v + 0 = v /\ v % Counters = v
      BY <1>5, BlockAssumption, ConstantFacts
    <3>3. QED
      BY <1>5, <3>1, <3>2
  <2>3. QED
    BY <2>1, <2>2
<1>s. FromStorage(scroll) = Keystream(C, L, scroll)
  <2>1. CASE L > 0
    <3>1. scroll = Block - L
      BY <2>1
    <3> HIDE DEF scroll
    <3>2. scroll <= Block - L
      BY <1>4, <3>1
    <3>3. QED
      BY <1>1, <1>4, <2>1, <3>2, StoragePiece
  <2>2. CASE ~ (L > 0)
    <3>1. scroll = 0
      BY <2>2
    <3> HIDE DEF scroll
    <3>2. 1 .. scroll = {}
      BY <3>1
    <3>3. QED
      BY <3>2 DEF FromStorage, Keystream, Promise!Keystream
  <2>3. QED
    BY <2>1, <2>2
<1> HIDE DEF scroll, f, x
<1>7. f < Byte * (Byte - 1) /\ 1 < Byte * (Byte - 1)
  <2>1. len \div Block < Byte * (Byte - 1)
    BY DEF ShortCalls
  <2>2. len \div Block \in Nat
    BY <1>2, BlockDivision
  <2>3. Byte * (Byte - 1) \in Int /\ 1 < Byte * (Byte - 1)
    <3>1. \A b \in Nat \ {0, 1} : b * (b - 1) \in Int /\ 2 * (b - 1) <= b * (b - 1)
      OBVIOUS
    <3>2. Byte \in Nat \ {0, 1}
      BY RadixAssumption
    <3>3. 2 * (Byte - 1) <= Byte * (Byte - 1) /\ 2 * (Byte - 1) > 1
      BY <3>1, <3>2
    <3>4. QED
      BY <3>1, <3>2, <3>3
  <2>4. QED
    BY <1>4, <2>1, <2>2, <2>3
<1>8. /\ next_iv \in IvBytes /\ next_iv_in \in IvWords
      /\ c = (v + f) % Counters
      /\ Value(next_iv_in, WordRadix, Words) = c
  BY <1>1, <1>4, <1>5, <1>7, BothCount DEF IvValue, IvInValue
<1>9. c \in 0 .. Counters - 1
  BY <1>8, CounterRange
<1> HIDE DEF next_iv, next_iv_in, c
<1>10. /\ addIvOpenssl(next_iv, 1) \in IvBytes
       /\ addIvWords(next_iv_in, 1) \in IvWords
       /\ Value(addIvOpenssl(next_iv, 1), Byte, Bytes) = (c + 1) % Counters
       /\ Value(addIvWords(next_iv_in, 1), WordRadix, Words) = (c + 1) % Counters
  BY <1>7, <1>8, BothCount DEF c
<1>11. /\ iv' \in IvBytes /\ iv_in' \in IvWords
       /\ IvValue' = IF x > 0 THEN (c + 1) % Counters ELSE c
       /\ IvInValue' = IF x > 0 THEN (c + 1) % Counters ELSE c
  BY <1>3, <1>8, <1>10 DEF IvValue, IvInValue, c
<1>12. NextCounter' = c
  <2>1. CASE x > 0
    <3>1. NextCounter' = (IvValue' - 1) % Counters
      BY <1>3, <2>1 DEF NextCounter
    <3>2. QED
      BY <1>9, <1>11, <2>1, <3>1, CounterSteps
  <2>2. CASE ~ (x > 0)
    BY <1>3, <1>11, <2>2 DEF NextCounter
  <2>3. QED
    BY <2>1, <2>2
<1>13. c = (C + (L + len) \div Block) % Counters
  <2> DEFINE q == (L + scroll) \div Block
  <2>1. q \in Nat
    <3>1. L + scroll \in Nat
      BY <1>1, <1>4
    <3>2. QED
      BY <3>1, BlockDivision
  <2>2. (C + q) % Counters = v /\ (L + len) \div Block = q + f
    BY <1>4, <1>6
  <2>3. C \in Nat /\ C + q \in Nat
    BY <1>6, <2>1, ConstantFacts
  <2> HIDE DEF q
  <2>4. (((C + q) % Counters) + f) % Counters = ((C + q) + f) % Counters
    BY <1>4, <2>3, ConstantFacts, ModSum
  <2>5. C + (q + f) = (C + q) + f
    BY <1>4, <2>1, <2>3
  <2>6. QED
    BY <1>8, <2>2, <2>4, <2>5
<1>14. out' = Keystream(C, L, len)
  <2> DEFINE k == f * Block
             m == k + x
  <2>1. /\ C \in Nat /\ L \in Nat /\ v \in Nat /\ c \in Nat /\ x \in Nat
        /\ k \in Nat /\ m \in Nat /\ scroll \in Nat
    BY <1>1, <1>4, <1>5, <1>6, <1>9, ConstantFacts, BlockAssumption
  <2>k. /\ len = scroll + m
        /\ c = (v + (0 + k) \div Block) % Counters /\ (0 + k) % Block = 0
    <3>1. (f * Block + 0) \div Block = f + (0 \div Block)
          /\ (f * Block + 0) % Block = 0 % Block
      BY <1>4, BlockAssumption, DivShift
    <3>2. 0 \div Block = 0 /\ 0 % Block = 0
      BY BlockAssumption
    <3>3. 0 + k = f * Block + 0 /\ f + 0 = f
      BY <1>4, <2>1
    <3>4. (0 + k) \div Block = f /\ (0 + k) % Block = 0
      BY <3>1, <3>2, <3>3
    <3>5. QED
      BY <1>4, <1>8, <3>4
  <2>2. FromDevice(f) = Keystream(v, 0, k)
    BY <1>1, <1>4, DevicePiece
  <2>3. FromBlock(c, x) = Keystream(c, 0, x)
    BY <1>4, <1>9, BlockPiece
  <2> HIDE DEF C, L, v, k
  <2>5. Keystream(v, 0, m) = Keystream(v, 0, k) \o Keystream(c, 0, x)
    <3>1. m = k + x /\ 0 \in Nat
      OBVIOUS
    <3> HIDE DEF m
    <3>2. Joins(v, 0, m, k, c, 0, x)
      BY <2>1, <2>k, <3>1, KeystreamSplit
    <3>3. QED
      BY <3>2 DEF Joins
  <2> HIDE DEF m
  <2>4. Keystream(C, L, len) = Keystream(C, L, scroll) \o Keystream(v, 0, m)
    <3>1. len \in Nat /\ 0 \in Nat
      BY <1>2
    <3>2. /\ len = scroll + m
          /\ v = (C + (L + scroll) \div Block) % Counters
          /\ (L + scroll) % Block = 0
      BY <1>4, <1>6, <2>k
    <3>3. Joins(C, L, len, scroll, v, 0, m)
      BY <2>1, <3>1, <3>2, KeystreamSplit
    <3>4. QED
      BY <3>3 DEF Joins
  <2> DEFINE X == Keystream(C, L, scroll)
             Y == Keystream(v, 0, k)
             Z == Keystream(c, 0, x)
  <2>6. X \in Seq(Pieces) /\ Y \in Seq(Pieces) /\ Z \in Seq(Pieces)
    BY <2>1, KeystreamType DEF Pieces
  <2>7. out' = X \o Y \o Z /\ Keystream(C, L, len) = X \o (Y \o Z)
    BY <1>3, <1>s, <2>2, <2>3, <2>4, <2>5
  <2> HIDE DEF X, Y, Z
  <2>8. X \o (Y \o Z) = (X \o Y) \o Z
    BY <2>6, ConcatAssociative
  <2>9. QED
    BY <2>7, <2>8
<1>15. TypeOK'
  <2>1. C \in Nat /\ L \in Nat
    BY <1>1, <1>6, ConstantFacts, BlockAssumption
  <2>2. out' \in Seq(Pieces)
    BY <1>2, <1>14, <2>1, KeystreamType DEF Pieces
  <2>3. previous_storage' \in 0 .. Counters - 1 \cup {NoStorage}
    BY <1>1, <1>3, <1>9
  <2>4. QED
    BY <1>3, <1>4, <1>11, <2>2, <2>3 DEF TypeOK, Pieces
<1>16. CountersAgree' /\ StorageIsCurrent'
  <2>1. x > 0 => previous_storage' = (IvValue' - 1) % Counters
    BY <1>3, <1>9, <1>11, CounterSteps
  <2>2. QED
    BY <1>3, <1>11, <2>1 DEF CountersAgree, StorageIsCurrent
<1>17. Promise!Encrypt(len)
  BY <1>3, <1>4, <1>12, <1>13, <1>14 DEF Promise!Encrypt, Keystream
<1>18. QED
  BY <1>15, <1>16, <1>17 DEF Inv

LEMMA NextStep ==
  ASSUME ShortCalls, Inv, [Next]_vars
  PROVE  Inv' /\ [Promise!Next]_(Promise!vars)
<1>1. CASE Next
  <2>1. PICK len \in Lens : Aes_encrypt_ctr_hw(len)
    BY <1>1 DEF Next
  <2>2. Inv' /\ Promise!Encrypt(len)
    BY <2>1, ScrollStep, BlocksStep DEF Aes_encrypt_ctr_hw
  <2>3. QED
    BY <2>2 DEF Promise!Next
<1>2. CASE UNCHANGED vars
  <2>1. /\ iv' = iv /\ iv_in' = iv_in /\ last_location' = last_location
        /\ previous_storage' = previous_storage /\ out' = out
    BY <1>2 DEF vars
  <2>2. Inv'
    BY <2>1 DEF Inv, TypeOK, CountersAgree, StorageIsCurrent, IvValue, IvInValue
  <2>3. Promise!vars' = Promise!vars
    BY <2>1 DEF Promise!vars, NextCounter, IvValue
  <2>4. QED
    BY <2>2, <2>3
<1>3. QED
  BY <1>1, <1>2

\* The invariants hold in every reachable state of a cipher, as long as no call
\* is long enough for addIvOpenssl to lose a carry.
THEOREM Invariance ==
  ASSUME ShortCalls
  PROVE  Spec => []Inv
<1>1. Init => Inv
  BY InitInv
<1>2. Inv /\ [Next]_vars => Inv'
  BY NextStep
<1>3. QED
  BY <1>1, <1>2, PTL DEF Spec

\* Types of the cipher's variables.
THEOREM TypeCorrect ==
  ASSUME ShortCalls
  PROVE  Spec => []TypeOK
<1>1. Inv => TypeOK
  BY DEF Inv
<1>2. QED
  BY <1>1, Invariance, PTL

\* iv and iv_in show the same counter after every call: what fpga_aes_new packs,
\* addIvOpenssl and addIvCipher keep together, for every radix and word size.
THEOREM CountersAlwaysAgree ==
  ASSUME ShortCalls
  PROVE  Spec => []CountersAgree
<1>1. Inv => CountersAgree
  BY DEF Inv
<1>2. QED
  BY <1>1, Invariance, PTL

\* previous_storage is always the keystream of the block before the counter.
THEOREM StorageAlwaysCurrent ==
  ASSUME ShortCalls
  PROVE  Spec => []StorageIsCurrent
<1>1. Inv => StorageIsCurrent
  BY DEF Inv
<1>2. QED
  BY <1>1, Invariance, PTL

\* Aes_encrypt_ctr_hw implements one keystream, used in order and once, for
\* every way to cut the data into calls.
THEOREM Refinement ==
  ASSUME ShortCalls
  PROVE  Spec => ImplementsStream
<1>1. Init => Promise!Init
  BY InitInv
<1>2. Inv /\ [Next]_vars => [Promise!Next]_(Promise!vars)
  BY NextStep
<1>3. QED
  BY <1>1, <1>2, Invariance, PTL DEF Spec, ImplementsStream, Promise!Spec
=============================================================================
