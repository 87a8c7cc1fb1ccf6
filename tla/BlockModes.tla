----------------------------- MODULE BlockModes -----------------------------
(***************************************************************************)
(* The loops of src/aes_fpga/aes_fpga.c that make a mode of operation of   *)
(* single blocks: CBC (Aes_encrypt_cbc_run, over Aes_encrypt_memcpy or     *)
(* Aes_encrypt_memmgr) and the counter mode that the processor makes of    *)
(* the device's plain mode (Aes_encrypt_ctr_run).  One call is modelled.   *)
(*                                                                         *)
(* A block of 16 bytes is the set of the unknowns it is the XOR of, so     *)
(* that XOR is the symmetric difference; the encryption of a block is an   *)
(* unknown of its own.  `mem' is the caller's memory, block by block: the  *)
(* input, and after it the output, unless the call is in place.            *)
(***************************************************************************)
EXTENDS IvArith, Sequences, FiniteSetsExt

CONSTANTS
  Plain,        \* the blocks of the input, a sequence of unknowns
  Iv,           \* the caller's initialisation vector for CBC
  E,            \* the cipher
  Byte, Bytes   \* 256 and 16, of the counter

ASSUME CounterAssumption == Byte \in Nat /\ Byte >= 2 /\ Bytes \in Nat \ {0}

\* The input is no longer than the counter has values: a digit is left r - 1
\* and 0 with a carry, so that all but the lowest skip every other value.
ASSUME LengthAssumption ==
  Len(Plain) \in 0 .. Byte * Weight(Byte \div 2, Bytes - 1)[Bytes - 1]

VARIABLES
  mode,     \* "memcpy" and "memmgr" of CBC, or "ctr"
  inplace,  \* output is the same buffer as input
  iv0,      \* cipher->iv
  mem,      \* input and output
  i, temp, iv,  \* locals; iv is the local copy of the counter
  pc,       \* "done" when the call has returned, "aborted" when it has abort()ed
  ret

vars == <<mode, inplace, iv0, mem, i, temp, iv, pc, ret>>

N == Len(Plain)
IvBytes == Digits(Byte, Bytes)

Enc(block) == {<<E, block>>}

In(k) == k
Out(k) == IF inplace THEN k ELSE N + k

Init ==
  /\ mode \in {"memcpy", "memmgr", "ctr"}
  /\ inplace \in BOOLEAN
  /\ iv0 \in IvBytes
  /\ mem = [k \in 1 .. 2 * N |-> IF k <= N THEN {Plain[k]} ELSE {}]
  /\ i = 1 /\ temp = {} /\ iv = iv0
  /\ pc = "loop" /\ ret = 0

InLoop(m) == mode = m /\ pc = "loop" /\ i <= N

Return ==
  /\ pc = "loop" /\ i > N
  /\ pc' = "done"
  /\ UNCHANGED <<mode, inplace, iv0, mem, i, temp, iv, ret>>

-----------------------------------------------------------------------------
(* Aes_encrypt_cbc_run: current_iv is the output block before, in place. *)

\* mutant of current_iv: the pointer does not move on
current_iv_Stays == {Iv}

current_iv == IF i = 1 THEN {Iv} ELSE mem[Out(i - 1)]

current_data == SymDiff(current_iv, mem[In(i)])

\* Aes_encrypt_memcpy copies to and from a mapping of the shared memory.  It
\* returns 0, or -1 if it cannot map.
cbc_memcpy ==
  /\ InLoop("memcpy")
  /\ \/ /\ mem' = [mem EXCEPT ![Out(i)] = Enc(current_data)]
        /\ i' = i + 1
        /\ UNCHANGED <<pc, ret>>
     \/ /\ pc' = "done" /\ ret' = -1
        /\ UNCHANGED <<mem, i>>
  /\ UNCHANGED <<mode, inplace, iv0, temp, iv>>

\* Aes_encrypt_memmgr begins with memmgr_assert of its input, which abort()s when
\* there is no pool, and when the input lies outside it.  The input of this loop is
\* current_data, an array on the stack: nothing is written and nothing returned.
cbc_memmgr ==
  /\ InLoop("memmgr")
  /\ pc' = "aborted"
  /\ UNCHANGED <<mode, inplace, iv0, mem, i, temp, iv, ret>>

-----------------------------------------------------------------------------
(* Aes_encrypt_ctr_run: the counter is put where the input was. *)

ctr_Save ==
  /\ InLoop("ctr")
  /\ temp' = mem[In(i)]
  /\ mem' = [mem EXCEPT ![In(i)] = {iv}]
  /\ pc' = "encrypt"
  /\ UNCHANGED <<mode, inplace, iv0, i, iv, ret>>

ctr_Encrypt ==
  /\ pc = "encrypt"
  /\ mem' = [mem EXCEPT ![Out(i)] = Enc(mem[In(i)])]
  /\ pc' = "xor"
  /\ UNCHANGED <<mode, inplace, iv0, i, temp, iv, ret>>

ctr_Xor ==
  /\ pc = "xor"
  /\ mem' = [mem EXCEPT ![Out(i)] = SymDiff(@, temp)]
  /\ pc' = "restore"
  /\ UNCHANGED <<mode, inplace, iv0, i, temp, iv, ret>>

\* mutant of ctr_Restore: the counter stays in the input
ctr_Restore_Not ==
  /\ pc = "restore"
  /\ iv' = Increment(iv, Byte, Bytes)
  /\ i' = i + 1
  /\ pc' = "loop"
  /\ UNCHANGED <<mode, inplace, iv0, mem, temp, ret>>

ctr_Restore ==
  /\ pc = "restore"
  /\ mem' = [mem EXCEPT ![In(i)] = temp]
  /\ iv' = Increment(iv, Byte, Bytes)
  /\ i' = i + 1
  /\ pc' = "loop"
  /\ UNCHANGED <<mode, inplace, iv0, temp, ret>>

Next ==
  \/ cbc_memcpy \/ cbc_memmgr
  \/ ctr_Save \/ ctr_Encrypt \/ ctr_Xor \/ ctr_Restore
  \/ Return

Spec == Init /\ [][Next]_vars

-----------------------------------------------------------------------------
(* Correctness. *)

\* CBC by memcpy, in place or not: the blocks written are chained, each to the one
\* before, and the others are as the caller left them, also when a mapping fails.
Chained ==
  mode = "memcpy" =>
    /\ \A k \in 1 .. i - 1 :
         mem[Out(k)] = Enc(SymDiff({Plain[k]},
                                   IF k = 1 THEN {Iv} ELSE mem[Out(k - 1)]))
    /\ \A k \in i .. N : mem[k] = {Plain[k]}

\* Counter mode, input and output apart: each block done is the input mixed with
\* an encrypted counter, the first the cipher's, and no counter serves twice.
KeystreamFresh ==
  mode = "ctr" /\ ~inplace =>
    LET stream == [k \in 1 .. i - 1 |-> SymDiff(mem[Out(k)], {Plain[k]})]
    IN  /\ i > 1 => stream[1] = Enc({iv0})
        /\ \A k \in 1 .. i - 1 : \E c \in IvBytes : stream[k] = Enc({c})
        /\ \A k, l \in 1 .. i - 1 : stream[k] = stream[l] => k = l

\* The input, which counter mode writes over, can be had back at every step and is
\* whole when the call returns.
InputKept ==
  ~inplace => \A k \in 1 .. N :
    \/ mem[In(k)] = {Plain[k]}
    \/ k = i /\ pc \in {"encrypt", "xor", "restore"} /\ temp = {Plain[k]}
=============================================================================
