---------------------------- MODULE MCBlockModes ----------------------------
(***************************************************************************)
(* Constants of the TLC runs of BlockModes, and what a comment says of it   *)
(* that the code does not do.                                              *)
(***************************************************************************)
EXTENDS BlockModes

CONSTANTS p1, p2, p3, p4, p5

\* more blocks than the lowest digit has values
FiveBlocks == <<p1, p2, p3, p4, p5>>

\* Aes_encrypt_cbc_run: "choose between use memcpy or memmgr aes functions",
\* "0: memmgr (default)": a call of the default mode, once it is over, has made
\* every block of the output, each chained to the one before.
MemmgrModeEncrypts ==
  mode = "memmgr" /\ pc # "loop" =>
    \A k \in 1 .. N :
      mem[Out(k)] = Enc(SymDiff({Plain[k]},
                                IF k = 1 THEN {Iv} ELSE mem[Out(k - 1)]))
=============================================================================
