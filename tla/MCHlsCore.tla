----------------------------- MODULE MCHlsCore -----------------------------
(***************************************************************************)
(* Constants of the TLC runs of HlsCore, and what the repository expects   *)
(* of it that the code does not do.                                        *)
(***************************************************************************)
EXTENDS HlsCore

OneThread == {0}
TwoThreads == {0, 1}

AllPrograms ==
  {"aes_encrypt", "triple_aes", "qam_runner", "memory_scanner_runner",
   "memory_scanner_runner_ddr", "crypto_sign_test", "curve25519_donna"}
\* X*_Start clears the done bit a killed program has left; a raw write does not,
\* and nothing but reading it clears the valid bit of an output.
StartAndIsDone == {"aes_encrypt", "triple_aes", "qam_runner"}

Aes == {"aes_encrypt"}
DirectDma == {"direct_dma_test"}

\* aes_fpga.c on several threads: "if we assume that there are multiple threads,
\* then we always need to update these variables in the control registers": with
\* all of them written anew, each thread gets its own job done.
ThreadsGetOwnResult == OwnResult

\* direct_dma_test.c waits for the fabric and prints what it returned.
WaitingEnds == CallReturns
=============================================================================
