------------------------------- MODULE Sha512 -------------------------------
(***************************************************************************)
(* The hash of both implementations as a stream: what sha512_update buffers *)
(* and what is compressed.  A byte is any value, and the digest is the list *)
(* of the blocks compressed so far: sha512_compress is taken to tell any    *)
(* two such lists apart.                                                    *)
(***************************************************************************)
EXTENDS Integers, SequencesExt

BlockBytes == 128
One == 128          \* 0x80, the bit after the message

\* a context in which buf is whatever memory held
sha512_init(garbage) ==
  [state |-> <<>>, curlen |-> 0, length |-> 0,
   buf |-> [k \in 0 .. BlockBytes - 1 |-> garbage]]

sha512_compress(md, block) == [md EXCEPT !.state = Append(@, block)]

-----------------------------------------------------------------------------
(* The rounds inside: RND updates two registers in place, and each call is   *)
(* given the registers one place further round.  The logical functions are   *)
(* any two that depend on all they are given.                                *)

Mix0(e, f, g, h, w) == h + 3 * e + 5 * f + 9 * g + w
Mix1(a, b, c) == 17 * a + 33 * b + 65 * c

RND(S, a, b, c, d, e, f, g, h, w) ==
  LET t0 == Mix0(S[e], S[f], S[g], S[h], w)
  IN  [S EXCEPT ![d] = (@ + t0) % 65536, ![h] = (t0 + Mix1(S[a], S[b], S[c])) % 65536]

Turned(S, i, w) ==
  LET r(k) == (k - i) % 8
  IN  RND(S, r(0), r(1), r(2), r(3), r(4), r(5), r(6), r(7), w)

Rounds(S, W) == FoldLeft(LAMBDA s, i : Turned(s, i - 1, W[i]), S, [i \in DOMAIN W |-> i])

-----------------------------------------------------------------------------
Counted(md, bytes) == [md EXCEPT !.length = @ + 8 * bytes]

\* in[from + 1 ...] copied into buf from curlen on
Copied(md, in, n) ==
  [md EXCEPT !.curlen = @ + n,
             !.buf = [k \in DOMAIN @ |-> IF k \in md.curlen .. md.curlen + n - 1
                                         THEN in[k - md.curlen + 1] ELSE @[k]]]

RECURSIVE sha512_update(_, _)

sha512_update(md, in) ==
  LET n == IF Len(in) < BlockBytes - md.curlen THEN Len(in) ELSE BlockBytes - md.curlen
      full == Copied(md, in, n)
  IN  CASE Len(in) = 0 -> md
        [] md.curlen = 0 /\ Len(in) >= BlockBytes ->
             sha512_update(Counted(sha512_compress(md, [k \in 0 .. BlockBytes - 1 |-> in[k + 1]]),
                                   BlockBytes),
                           SubSeq(in, BlockBytes + 1, Len(in)))
        [] OTHER ->
             sha512_update(
               IF full.curlen = BlockBytes
               THEN [Counted(sha512_compress(full, full.buf), BlockBytes) EXCEPT !.curlen = 0]
               ELSE full,
               SubSeq(in, n + 1, Len(in)))

\* zeros in the buffer up to a place
Zeros(md, to) ==
  [md EXCEPT !.curlen = to,
             !.buf = [k \in DOMAIN @ |-> IF k \in md.curlen .. to - 1 THEN 0 ELSE @[k]]]

\* the byte at place k of a 64-bit number, the first the highest; below 2^31
STORE64H(x, k) == IF k < 4 THEN 0 ELSE (x \div 256^(7 - k)) % 256

\* mutant of NoRoom: the length is thought to take no more than it holds
NoRoom_Length(md) == md.curlen > 120

\* the length, of sixteen bytes, goes to the next block
NoRoom(md) == md.curlen > 112

sha512_final(md) ==
  LET ended == Copied(Counted(md, md.curlen), <<One>>, 1)
      spilled == Zeros(ended, 128)
      roomy == IF NoRoom(ended)
               THEN [sha512_compress(spilled, spilled.buf) EXCEPT !.curlen = 0]
               ELSE ended
      padded == Zeros(roomy, 120)
      last == [k \in DOMAIN padded.buf |->
                 IF k >= 120 THEN STORE64H(padded.length, k - 120) ELSE padded.buf[k]]
  IN  sha512_compress(padded, last).state

\* init, the updates, final
Hashed(chunks) == sha512_final(FoldLeft(sha512_update, sha512_init(7), chunks))
sha512(message) == Hashed(<<message>>)
=============================================================================
