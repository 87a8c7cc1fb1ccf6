------------------------------ MODULE MCAesCtr ------------------------------
(***************************************************************************)
(* Constants of the TLC runs of AesCtr.                                    *)
(***************************************************************************)
EXTENDS AesCtr

\* Byte * (Byte - 1) blocks are where addIvOpenssl can lose a carry.
ShortLens == {0, 1, Block - 1, Block, 5 * Block + 2}
LongLens == {1, Block, (Byte * (Byte - 1) + 1) * Block}

\* addIvCipher's callers: "need to increment the iv by the number of full
\* segments that have been process by this cipher", by both copies.
AddsFullSegments == CountersAgree
=============================================================================
