------------------------------ MODULE Ed25519 ------------------------------
(***************************************************************************)
(* Key pairs, signatures, shifted keys and shared secrets: keypair.c,      *)
(* sign.c, verify.c, add_scalar.c and key_exchange.c on top of Ge, and the *)
(* reference's keypair.c and sign.c on top of Ge25519.                     *)
(*                                                                         *)
(* The hash is any function of the list of texts it is given (Sha512 says  *)
(* that updates make one message of them); its 64 bytes are two numbers of *)
(* N bits, lo and hi.  Scalars modulo the order are module Sc's.           *)
(***************************************************************************)
EXTENDS Ge

CONSTANTS Order,        \* of the base point
          Hash(_),      \* sha512
          Parties,
          Seeds,        \* what ed25519_create_seed may give
          Scalars,      \* what keys are shifted by
          Messages,
          MaxShifts, MaxNonces   \* bounds of the runs

ASSUME ScalarsAssumption == Scalars \subseteq Nat
ASSUME BoundsAssumption == MaxShifts \in Nat /\ MaxNonces \in Nat

R == INSTANCE Ge25519

VARIABLES keys,     \* the halves of each party's pair, and the shifts agreed on
          last,     \* the signature that was just made
          nonces    \* every signature: what its nonce was made of, and the rest

vars == <<keys, last, nonces>>
-----------------------------------------------------------------------------
\* an encoding as it is hashed: the sign is the highest bit
Bytes(s) == s.y + 2^(N - 1) * s.sign

sc_reduce(h) == ((h.hi % Order) * (2^N % Order) + h.lo) % Order
sc_muladd(a, b, c) == ((a % Order) * (b % Order) + c) % Order

ed25519_create_keypair(seed) ==
  LET h == Hash(<<seed>>)
      a == Clamp(h.lo)
  IN  [public  |-> ge_p3_tobytes(ge_scalarmult_base(a)),
       private |-> [scalar |-> a, prefix |-> h.hi]]

ed25519_sign(message, public, private) ==
  LET r == sc_reduce(Hash(<<private.prefix, message>>))
      encR == ge_p3_tobytes(ge_scalarmult_base(r))
      hram == sc_reduce(Hash(<<Bytes(encR), Bytes(public), message>>))
  IN  [r |-> encR, s |-> sc_muladd(hram, private.scalar, r)]

\* A comes out of its encoding negated: s B - h A is R again
ed25519_verify(signature, message, public) ==
  LET A == ge_frombytes_negate_vartime(public)
      h == sc_reduce(Hash(<<Bytes(signature.r), Bytes(public), message>>))
  IN  /\ signature.s < 2^(N - 3)
      /\ A.ok
      /\ ge_tobytes(ge_double_scalarmult_vartime(h, A.point, signature.s)) = signature.r

\* the scalar without its highest bit
Masked(scalar) == scalar % 2^(N - 1)

\* mutant of add_to_private: the prefix of the nonces stays
add_to_private_KeepPrefix(private, scalar) ==
  [private EXCEPT !.scalar = sc_muladd(1, Masked(scalar), private.scalar)]

\* the three uses of ed25519_add_scalar: private key alone, public key alone, both
add_to_private(private, scalar) ==
  [scalar |-> sc_muladd(1, Masked(scalar), private.scalar),
   prefix |-> Hash(<<private.prefix, scalar>>).lo]

\* mutant of add_to_public: the point stays negated
add_to_public_Negated(public, scalar) ==
  LET T == ge_p3_to_cached(ge_frombytes_negate_vartime(public).point)
  IN  ge_p3_tobytes(ge_p1p1_to_p3(ge_p3_0, ge_add(ge_scalarmult_base(Masked(scalar)), T)))

add_to_public(public, scalar) ==
  LET unpacked == ge_frombytes_negate_vartime(public).point
      T == ge_p3_to_cached([unpacked EXCEPT !.X = fe_neg(@), !.T = fe_neg(@)])
  IN  ge_p3_tobytes(ge_p1p1_to_p3(ge_p3_0, ge_add(ge_scalarmult_base(Masked(scalar)), T)))
add_to_both(private, scalar) ==
  LET moved == add_to_private(private, scalar)
  IN  [public |-> ge_p3_tobytes(ge_scalarmult_base(moved.scalar)), private |-> moved]

\* the reference keeps the seed, and makes scalar and prefix of it each time; its
\* scalars are reduced when they are unpacked
sc25519_from32bytes(e) == e % Order
crypto_sign_keypair(seed) ==
  R!ge25519_pack(R!ge25519_scalarmult_base(sc25519_from32bytes(Clamp(Hash(<<seed>>).lo))))
crypto_sign(message, public, seed) ==
  LET az == Hash(<<seed>>)
      sck == sc_reduce(Hash(<<az.hi, message>>))
      encR == R!ge25519_pack(R!ge25519_scalarmult_base(sck))
      scs == sc_reduce(Hash(<<Bytes(encR), Bytes(public), message>>))
  IN  [r |-> encR, s |-> sc_muladd(scs, sc25519_from32bytes(Clamp(az.lo)), sck)]
-----------------------------------------------------------------------------
NoKeys == [seed |-> "none"]
NoSignature == [party |-> "none"]
Made(p) == keys[p] # NoKeys

Init == /\ keys = [p \in Parties |-> NoKeys]
        /\ last = NoSignature
        /\ nonces = {}

Unsigned == last' = NoSignature /\ UNCHANGED nonces

CreateKeypair(p, seed) ==
  /\ ~Made(p)
  /\ LET pair == ed25519_create_keypair(seed)
     IN  keys' = [keys EXCEPT ![p] = [seed |-> seed, public |-> pair.public,
                                      private |-> pair.private, agreed |-> <<>>,
                                      publicAt |-> 0, privateAt |-> 0]]
  /\ Unsigned

\* both holders of a pair learn what it is to be shifted by next
Agree(p, scalar) ==
  /\ Made(p) /\ Len(keys[p].agreed) < MaxShifts
  /\ keys' = [keys EXCEPT ![p].agreed = Append(@, scalar)]
  /\ Unsigned

Level(k) == k.publicAt = k.privateAt

AddToPrivate(p) ==
  LET k == keys[p] IN
  /\ Made(p) /\ k.privateAt < Len(k.agreed)
  /\ keys' = [keys EXCEPT ![p].private = add_to_private(@, k.agreed[k.privateAt + 1]),
                          ![p].privateAt = @ + 1]
  /\ Unsigned

AddToPublic(p) ==
  LET k == keys[p] IN
  /\ Made(p) /\ k.publicAt < Len(k.agreed)
  /\ keys' = [keys EXCEPT ![p].public = add_to_public(@, k.agreed[k.publicAt + 1]),
                          ![p].publicAt = @ + 1]
  /\ Unsigned

AddToBoth(p) ==
  LET k == keys[p] IN
  /\ Made(p) /\ Level(k) /\ k.privateAt < Len(k.agreed)
  /\ LET pair == add_to_both(k.private, k.agreed[k.privateAt + 1])
     IN  keys' = [keys EXCEPT ![p].public = pair.public, ![p].private = pair.private,
                              ![p].publicAt = @ + 1, ![p].privateAt = @ + 1]
  /\ Unsigned

\* callers sign with the two halves of one pair
Sign(p, message) ==
  LET k == keys[p] IN
  /\ Made(p) /\ Level(k) /\ Cardinality(nonces) < MaxNonces
  /\ last' = [party |-> p, message |-> message,
              signature |-> ed25519_sign(message, k.public, k.private)]
  /\ nonces' = nonces \cup {[text |-> <<k.private.prefix, message>>,
                             public |-> k.public, scalar |-> k.private.scalar]}
  /\ UNCHANGED keys

Next == \E p \in Parties :
          \/ \E seed \in Seeds : CreateKeypair(p, seed)
          \/ \E scalar \in Scalars : Agree(p, scalar)
          \/ AddToPrivate(p) \/ AddToPublic(p) \/ AddToBoth(p)
          \/ \E message \in Messages : Sign(p, message)

Spec == Init /\ [][Next]_vars
-----------------------------------------------------------------------------
(* What the protocol needs of the curve and of the hash, for the scalars that *)
(* are secret keys: what the proofs assume.                                   *)

Encoded(a) == ge_p3_tobytes(ge_scalarmult_base(a))
Created == {ed25519_create_keypair(seed).private.scalar : seed \in Seeds}
Secrets == Created \cup 0 .. Order - 1

\* the base point has the prime order Order, which scalars have room for
PrimeOrder ==
  /\ Order \in Nat \ {0, 1} /\ Order <= 2^(N - 3)
  /\ \A x, y \in 1 .. Order - 1 : (x * y) % Order # 0
  /\ \A a \in Created : a % Order # 0 /\ Encoded(a) = Encoded(a % Order)
  /\ \A a, b \in 0 .. Order - 1 : Encoded(a) = Encoded(b) => a = b

\* an encoded multiple of it is read again, and added to others
SumsAreRight ==
  \A a \in Secrets :
    /\ \A s \in Scalars : add_to_public(Encoded(a), s) = Encoded((Masked(s) + a) % Order)
    /\ LET A == ge_frombytes_negate_vartime(Encoded(a))
       IN  /\ A.ok
           /\ \A h, s \in 0 .. Order - 1 :
                ge_tobytes(ge_double_scalarmult_vartime(h, A.point, s))
                  = Encoded((s - h * a) % Order)

\* the ladder multiplies the x coordinate on the Montgomery curve, which is only
\* zero for points of even order
Montgomery(s) == ((1 + s.y) * Inv[(1 - s.y) % P]) % P
LadderIsRight ==
  /\ \A a, b \in Created : ed25519_key_exchange(Encoded(a).y, b)
                             = Montgomery(Encoded((a * Clamp(b)) % Order))
  /\ \A a \in 1 .. Order - 1 : Montgomery(Encoded(a)) # 0

\* the reference has the same multiples
SameMultiples ==
  \A a \in 0 .. Order - 1 : R!ge25519_pack(R!ge25519_scalarmult_base(a)) = Encoded(a)

\* Generation[i] has the prefixes that keys can have after i shifts; no prefix is
\* made twice.
NoCollisions(Generation) ==
  /\ \A seed \in Seeds : Hash(<<seed>>).hi \in Generation[0]
  /\ \A i \in 1 .. MaxShifts : \A x \in Generation[i - 1], s \in Scalars :
       Hash(<<x, s>>).lo \in Generation[i]
  /\ \A s, t \in Seeds : Hash(<<s>>).hi = Hash(<<t>>).hi => s = t
  /\ \A i, j \in 0 .. MaxShifts - 1 : \A x \in Generation[i], y \in Generation[j] :
       \A s, t \in Scalars : Hash(<<x, s>>).lo = Hash(<<y, t>>).lo => x = y /\ s = t
  /\ \A i \in 1 .. MaxShifts : Generation[0] \cap Generation[i] = {}
-----------------------------------------------------------------------------
\* A signature verifies under the pair's public key, however the two halves came
\* to be shifted, with the same scalars, together or apart, and for other messages
\* just when they hash to the same scalar, or a shift came to a key of zero; a pair
\* that was never shifted gets the same key and signature from the reference.
SignaturesVerify ==
  last # NoSignature =>
    LET k == keys[last.party]
        hram(m) == sc_reduce(Hash(<<Bytes(last.signature.r), Bytes(k.public), m>>))
    IN  /\ \A m \in Messages : ed25519_verify(last.signature, m, k.public)
                                 <=> hram(m) = hram(last.message) \/ k.private.scalar = 0
        /\ k.privateAt = 0 =>
             /\ k.public = crypto_sign_keypair(k.seed)
             /\ last.signature = crypto_sign(last.message, k.public, k.seed)

\* One nonce never serves two keys or two messages, which would give the private
\* key away: shifting a key changes the prefix that nonces are made of.
NoncesFresh == \A a, b \in nonces : a.text = b.text => a.scalar = b.scalar /\ a.public = b.public

\* Two parties with pairs as created get one secret, each from its own private
\* key and the other's public key, and never the zero that stands for no point, for
\* a clamped scalar is no multiple of the order (on a small curve it may be).
SecretsAgree ==
  \A p, q \in Parties :
    Made(p) /\ Made(q) /\ keys[p].agreed = <<>> /\ keys[q].agreed = <<>> =>
      LET secret == ed25519_key_exchange(keys[q].public.y, keys[p].private.scalar)
      IN  /\ secret = ed25519_key_exchange(keys[p].public.y, keys[q].private.scalar)
          /\ keys[p].private.scalar % Order # 0 /\ keys[q].private.scalar % Order # 0
               => secret # 0
=============================================================================
