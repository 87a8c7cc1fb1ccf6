----------------------------- MODULE MCEd25519 -----------------------------
(***************************************************************************)
(* Two parties on the curve of MCCurve, with a hash that mixes the numbers *)
(* it is given.                                                            *)
(***************************************************************************)
EXTENDS Ed25519

TheBase == CHOOSE q \in Curve : q # Neutral /\ Multiples(q, Order)[Order] = Neutral

Mix(texts, salt) == FoldLeft(LAMBDA v, t : (v * 181 + t * 37 + 11) % 65521, salt, texts)
ToyHash(texts) == [lo |-> Mix(texts, 1), hi |-> Mix(texts, 7)]

ToyLevel[i \in 0 .. MaxShifts] ==
  IF i = 0 THEN {Hash(<<seed>>).hi : seed \in Seeds}
  ELSE {Hash(<<x, s>>).lo : x \in ToyLevel[i - 1], s \in Scalars}

\* one party shifts its keys, the other does not
OwnerShifts == Made("shop") => keys["shop"].agreed = <<>>
-----------------------------------------------------------------------------
\* What Ed25519Proofs assumes of the curve's code and of the hash is so here: sums
\* of a key and a shift, the sums that verify takes and the ladder of the exchange
\* are right for every secret key and every scalar, the reference has the same
\* multiples, and no prefix of a nonce is made in two ways (nothing of a state
\* matters to this: it is asked once there is a signature).
GroundsHold ==
  last # NoSignature =>
    /\ PrimeOrder /\ SumsAreRight /\ LadderIsRight /\ SameMultiples
    /\ NoCollisions(ToyLevel)
=============================================================================
