------------------------------- MODULE Stream -------------------------------
(***************************************************************************)
(* What the streaming mode of aes_fpga.c promises: its calls together use  *)
(* one keystream, E(ctr), E(ctr + 1), ..., from its start, every byte once *)
(* and in order, however the data is cut into calls.  A byte of keystream  *)
(* is named by its counter and its place in the block.                     *)
(***************************************************************************)
EXTENDS Integers, Sequences

CONSTANTS Counters,  \* how many counters there are
          Block,     \* bytes of a block
          Lens       \* the lengths of calls

VARIABLES ctr,   \* the counter of the next byte
          off,   \* its place in the block
          out    \* the keystream bytes of the last call

vars == <<ctr, off, out>>

Keystream(c, o, len) ==
  [i \in 1 .. len |-> <<(c + (o + i - 1) \div Block) % Counters,
                        (o + i - 1) % Block>>]

Init == ctr \in 0 .. Counters - 1 /\ off = 0 /\ out = <<>>

Encrypt(len) ==
  /\ out' = Keystream(ctr, off, len)
  /\ ctr' = (ctr + (off + len) \div Block) % Counters
  /\ off' = (off + len) % Block

Next == \E len \in Lens : Encrypt(len)

Spec == Init /\ [][Next]_vars
=============================================================================
