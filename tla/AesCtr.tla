------------------------------- MODULE AesCtr -------------------------------
(***************************************************************************)
(* The streaming mode of src/aes_fpga/aes_fpga.c: Aes_encrypt_memmgr and   *)
(* Aes_encrypt_ctr_hw on one cipher, used by one thread.                   *)
(*                                                                         *)
(* The cipher keeps its counter twice: `iv', bytes that the software adds  *)
(* to and encrypts for a partial block, and `iv_in', words that are        *)
(* written to the device, which counts on from them for full blocks.       *)
(*                                                                         *)
(* AES is a permutation, so a keystream block is named by the counter it   *)
(* encrypts, and `out' is the keystream that the last call mixed into its  *)
(* data: for each byte the counter and the place in the block.  The two    *)
(* buffers of the partial block are assumed to be had: memmgr_alloc is not *)
(* checked, and the program dies at its first copy if they are not.        *)
(***************************************************************************)
EXTENDS IvArith, Sequences

CONSTANTS
  Byte,       \* 256
  WordBytes,  \* 4, the bytes of a word
  Words,      \* 4, the words of a counter
  Block,      \* 16, the bytes of a block
  Lens        \* the values of len in calls

ASSUME RadixAssumption == Byte \in Nat \ {0, 1}
ASSUME SizeAssumption == WordBytes \in Nat \ {0} /\ Words \in Nat \ {0}
ASSUME BlockAssumption == Block \in Nat \ {0}
ASSUME LensAssumption == Lens \subseteq Nat

Bytes == WordBytes * Words
WordRadix == Weight(Byte, WordBytes)[WordBytes]
Counters == Weight(Byte, Bytes)[Bytes]

VARIABLES
  iv, iv_in,         \* the counter of the next block the cipher has not begun
  last_location,     \* bytes used of the block begun last; 0: none is open
  previous_storage,  \* the keystream of that block, named by its counter
  out                \* the keystream used by the last call

vars == <<iv, iv_in, last_location, previous_storage, out>>

IvBytes == Digits(Byte, Bytes)
IvWords == Digits(WordRadix, Words)

IvValue == Value(iv, Byte, Bytes)
IvInValue == Value(iv_in, WordRadix, Words)

NoStorage == -1

-----------------------------------------------------------------------------
(* fpga_aes_new *)

Init ==
  /\ iv \in IvBytes
  /\ iv_in = Pack(iv, Byte, WordBytes, Words)
  /\ last_location = 0
  /\ previous_storage = NoStorage
  /\ out = <<>>

-----------------------------------------------------------------------------
(* addIvCipher *)

addIvOpenssl(d, num) == Add(d, num, Byte, Bytes)

\* mutant of addIvWords: the lowest word only
addIvWords_NoCarry(w, num) ==
  [w EXCEPT ![0] = (w[0] + num) % WordRadix]

addIvWords(w, num) == Add(w, num, WordRadix, Words)

-----------------------------------------------------------------------------
(* Aes_encrypt_ctr_hw *)

\* mutant of FromStorage: from the start of the stored block
FromStorage_FromStart(num) ==
  [i \in 1 .. num |-> <<previous_storage, i - 1>>]

\* num bytes of the stored block, XORed with the input by the processor
FromStorage(num) ==
  [i \in 1 .. num |-> <<previous_storage, last_location + i - 1>>]

\* num blocks by the device, in its counter mode, from iv_in on
FromDevice(num) ==
  [i \in 1 .. num * Block |->
     <<(IvInValue + (i - 1) \div Block) % Counters, (i - 1) % Block>>]

\* num bytes of the block that encrypts the counter c
FromBlock(c, num) == [i \in 1 .. num |-> <<c, i - 1>>]

\* mutant of ctr_hw_Scroll: a block used to its end stays open
ctr_hw_Scroll_NoReset(len) ==
  /\ last_location > 0
  /\ len <= Block - last_location
  /\ out' = FromStorage(len)
  /\ last_location' = last_location + len
  /\ UNCHANGED <<iv, iv_in, previous_storage>>

\* The call ends inside the block that is open, or with it.
ctr_hw_Scroll(len) ==
  /\ last_location > 0
  /\ len <= Block - last_location
  /\ out' = FromStorage(len)
  /\ last_location' = IF last_location + len >= Block THEN 0
                                                       ELSE last_location + len
  /\ UNCHANGED <<iv, iv_in, previous_storage>>

\* The call finishes the open block, if there is one, has the device encrypt
\* the full blocks (the device is started for none, too), and begins a new block
\* with the bytes that are left: iv is encrypted for it, and counts on at once.
ctr_hw_Blocks(len) ==
  LET scroll     == IF last_location > 0 THEN Block - last_location ELSE 0
      fullBlocks == (len - scroll) \div Block
      extraBytes == (len - scroll) % Block
      next_iv    == addIvOpenssl(iv, fullBlocks)
      next_iv_in == addIvWords(iv_in, fullBlocks)
      c          == Value(next_iv, Byte, Bytes)
  IN  /\ last_location > 0 => len > Block - last_location
      /\ out' = FromStorage(scroll) \o FromDevice(fullBlocks)
                                    \o FromBlock(c, extraBytes)
      /\ last_location' = extraBytes
      /\ IF extraBytes > 0
         THEN /\ previous_storage' = c
              /\ iv' = addIvOpenssl(next_iv, 1)
              /\ iv_in' = addIvWords(next_iv_in, 1)
         ELSE /\ previous_storage' = previous_storage
              /\ iv' = next_iv
              /\ iv_in' = next_iv_in

Aes_encrypt_ctr_hw(len) == ctr_hw_Scroll(len) \/ ctr_hw_Blocks(len)

Next == \E len \in Lens : Aes_encrypt_ctr_hw(len)

Spec == Init /\ [][Next]_vars

-----------------------------------------------------------------------------
(* Correctness. *)

\* No call has as many full blocks as addIvOpenssl can lose a carry for:
\* Byte * (Byte - 1) is 65280 blocks of 16 bytes, a little less than 1 MB.
ShortCalls == \A len \in Lens : len \div Block < Byte * (Byte - 1)

\* Types of the variables.
TypeOK ==
  /\ iv \in IvBytes
  /\ iv_in \in IvWords
  /\ last_location \in 0 .. Block - 1
  /\ previous_storage \in 0 .. Counters - 1 \cup {NoStorage}
  /\ out \in Seq((0 .. Counters - 1) \X (0 .. Block - 1))

\* The two copies of the counter show the same number: partial blocks, which
\* the processor encrypts from iv, and full blocks, which the device encrypts
\* from iv_in, go on in one sequence.
CountersAgree == IvValue = IvInValue

\* The stored keystream is that of the block before the counter, whatever mix
\* of long and short calls has led here.
StorageIsCurrent ==
  last_location > 0 => previous_storage = (IvValue - 1) % Counters

\* The calls implement one keystream, used once and in order.
NextCounter == IF last_location > 0 THEN (IvValue - 1) % Counters ELSE IvValue

Promise == INSTANCE Stream WITH ctr <- NextCounter, off <- last_location

ImplementsStream == Promise!Spec
=============================================================================
