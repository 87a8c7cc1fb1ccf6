--------------------------- MODULE Ed25519Proofs ---------------------------
(***************************************************************************)
(* Key pairs, signatures and shared secrets for every hash, every base     *)
(* point of prime order and any number of parties, from what Ed25519 says  *)
(* the protocol needs of the curve and of the hash.                        *)
(***************************************************************************)
EXTENDS Ed25519, TLAPS

Num == INSTANCE NumberTheorems

NumbersHashed == \A texts : Hash(texts).lo \in Nat /\ Hash(texts).hi \in Nat

\* h is the private key that seed makes, and what it becomes shift by shift
Grows(h, seed, shifts) ==
  /\ h[0] = ed25519_create_keypair(seed).private
  /\ \A i \in 1 .. Len(shifts) : h[i] = add_to_private(h[i - 1], shifts[i])

\* Each half of a pair is where its own number of shifts takes it.
Grown(k, h) ==
  /\ Grows(h, k.seed, k.agreed)
  /\ k.private = h[k.privateAt]
  /\ k.public = Encoded(h[k.publicAt].scalar)

IsPair(k) ==
  /\ k \in [seed : Seeds, public : {k.public}, private : {k.private}, agreed : Seq(Scalars),
            publicAt : Nat, privateAt : Nat]
  /\ Len(k.agreed) <= MaxShifts
  /\ k.publicAt \in 0 .. Len(k.agreed) /\ k.privateAt \in 0 .. Len(k.agreed)
  /\ \E h : Grown(k, h)

\* The nonce was made of the prefix of some key, and its signature of that key.
IsNonce(n) ==
  \E seed \in Seeds, shifts \in Seq(Scalars) : \E i \in 0 .. Len(shifts) : \E h :
    /\ Len(shifts) <= MaxShifts /\ Grows(h, seed, shifts)
    /\ n.text[1] = h[i].prefix /\ n.scalar = h[i].scalar /\ n.public = Encoded(n.scalar)

\* What was just signed was signed with the two halves of a pair as it is.
JustSigned ==
  last # NoSignature =>
    LET k == keys[last.party]
    IN  /\ last.party \in Parties /\ last.message \in Messages /\ IsPair(k) /\ Level(k)
        /\ last.signature = ed25519_sign(last.message, k.public, k.private)

IInv ==
  /\ keys = [p \in Parties |-> keys[p]]
  /\ \A p \in Parties : Made(p) => IsPair(keys[p])
  /\ \A n \in nonces : IsNonce(n)
  /\ JustSigned

-----------------------------------------------------------------------------
(* Scalars. *)

LEMMA PowersArePositive == \A n \in Nat : 2^n \in Nat \ {0}
BY Num!PowerOfTwo

LEMMA ClampedIsNatural == ASSUME NEW e \in Nat PROVE Clamp(e) \in Nat
<1>1. 2^(N - 2) \in Nat \ {0}
  BY WidthAssumption, PowersArePositive
<1>2. PICK m \in Nat \ {0} : m = 2^(N - 2)
  BY <1>1
<1>3. PICK k \in Nat : N - 2 = 3 + k
  <2>1. N - 5 \in Nat /\ N - 2 = 3 + (N - 5)
    BY WidthAssumption
  <2> QED BY <2>1
<1>4. e % m \in Nat /\ e % 8 \in 0 .. 7
  BY <1>2
<1>5. m >= 8
  <2>1. m = 2^3 * 2^k /\ 2^k \in Nat \ {0}
    BY <1>2, <1>3, Num!PowerOfTwo
  <2>2. 2^3 = 8
    OBVIOUS
  <2> QED BY <2>1, <2>2
<1> QED BY <1>2, <1>4, <1>5 DEF Clamp

LEMMA MaskedIsNatural == ASSUME NEW s \in Scalars PROVE Masked(s) \in Nat
<1>1. s \in Nat /\ 2^(N - 1) \in Nat \ {0}
  BY ScalarsAssumption, WidthAssumption, PowersArePositive
<1> QED BY <1>1 DEF Masked

LEMMA SecretsAreNatural ==
  ASSUME NumbersHashed, PrimeOrder
  PROVE  /\ \A seed \in Seeds : ed25519_create_keypair(seed).private.scalar \in Created
         /\ Secrets \subseteq Nat
<1>1. ASSUME NEW seed \in Seeds PROVE ed25519_create_keypair(seed).private.scalar \in Nat
  BY ClampedIsNatural DEF NumbersHashed, ed25519_create_keypair
<1> QED BY <1>1 DEF Created, Secrets, PrimeOrder

\* Adding a shift to a key: the sum modulo the order.
LEMMA ShiftedScalar ==
  ASSUME PrimeOrder, NEW m \in Nat, NEW a \in Nat
  PROVE  sc_muladd(1, m, a) = (m + a) % Order /\ sc_muladd(1, m, a) \in 0 .. Order - 1
<1>1. Order \in Nat \ {0, 1} /\ 1 % Order = 1
  BY DEF PrimeOrder
<1>2. ((m % Order) + a) % Order = (m + a) % Order /\ m % Order \in Nat
  <2>1. Order \in Nat \ {0} /\ m \in Int /\ a \in Int
    BY <1>1
  <2>2. ((m % Order) + a) % Order = (m + a) % Order
    BY <2>1, Num!RemainderOfSum
  <2> QED BY <1>1, <2>2
<1>3. sc_muladd(1, m, a) = (1 * (m % Order) + a) % Order
  BY <1>1 DEF sc_muladd
<1>4. 1 * (m % Order) = m % Order
  BY <1>2
<1> QED BY <1>1, <1>2, <1>3, <1>4

\* Every key on the way is a secret of which the sums of points are right.
LEMMA GrownSecrets ==
  ASSUME NumbersHashed, PrimeOrder, NEW h, NEW seed \in Seeds, NEW shifts \in Seq(Scalars),
         Grows(h, seed, shifts)
  PROVE  \A i \in 0 .. Len(shifts) : h[i].scalar \in Secrets
<1> DEFINE S == {i \in 0 .. Len(shifts) : h[i].scalar \in Secrets}
<1>1. 0 \in S
  BY SecretsAreNatural DEF Grows, Secrets
<1>2. ASSUME NEW i \in 0 .. Len(shifts) - 1, i \in S PROVE i + 1 \in S
  <2>1. i + 1 \in 1 .. Len(shifts) /\ i + 1 - 1 = i
    OBVIOUS
  <2>2. h[i + 1] = add_to_private(h[i], shifts[i + 1]) /\ shifts[i + 1] \in Scalars
    BY <2>1 DEF Grows
  <2>3. h[i].scalar \in Nat /\ Masked(shifts[i + 1]) \in Nat
    BY <1>2, <2>2, SecretsAreNatural, MaskedIsNatural
  <2>4. PICK m \in Nat, a \in Nat : m = Masked(shifts[i + 1]) /\ a = h[i].scalar
    BY <2>3
  <2>5. sc_muladd(1, m, a) \in 0 .. Order - 1
    BY ShiftedScalar
  <2>6. h[i + 1].scalar \in 0 .. Order - 1
    BY <2>2, <2>4, <2>5 DEF add_to_private
  <2>7. i + 1 \in 0 .. Len(shifts)
    BY <2>1
  <2>8. h[i + 1].scalar \in Secrets
    BY <2>6 DEF Secrets
  <2> QED BY <2>7, <2>8
<1>3. 0 .. Len(shifts) \subseteq S
  <2> HIDE DEF S
  <2> QED BY <1>1, <1>2, Num!UpTo
<1> QED BY <1>3

\* One shift of the public half is one shift of the scalar it is a multiple by.
LEMMA PublicShift ==
  ASSUME NumbersHashed, PrimeOrder, SumsAreRight,
         NEW x, x.scalar \in Secrets, NEW s \in Scalars
  PROVE  add_to_public(Encoded(x.scalar), s) = Encoded(add_to_private(x, s).scalar)
<1>1. x.scalar \in Nat /\ Masked(s) \in Nat
  BY SecretsAreNatural, MaskedIsNatural
<1>2. add_to_private(x, s).scalar = (Masked(s) + x.scalar) % Order
  BY <1>1, ShiftedScalar DEF add_to_private
<1> QED BY <1>2 DEF SumsAreRight

-----------------------------------------------------------------------------
(* Prefixes. *)

LEMMA PrefixOfGeneration ==
  ASSUME NEW G, NoCollisions(G), NEW h, NEW seed \in Seeds, NEW shifts \in Seq(Scalars),
         Len(shifts) <= MaxShifts, Grows(h, seed, shifts)
  PROVE  \A i \in 0 .. Len(shifts) : h[i].prefix \in G[i]
<1> DEFINE S == {i \in 0 .. Len(shifts) : h[i].prefix \in G[i]}
<1>1. 0 \in S
  <2>1. h[0].prefix = Hash(<<seed>>).hi
    BY DEF Grows, ed25519_create_keypair
  <2> QED BY <2>1 DEF NoCollisions
<1>2. ASSUME NEW i \in 0 .. Len(shifts) - 1, i \in S PROVE i + 1 \in S
  <2>1. i + 1 \in 1 .. Len(shifts) /\ i + 1 - 1 = i /\ i + 1 \in 1 .. MaxShifts
    BY BoundsAssumption
  <2>2. h[i + 1] = add_to_private(h[i], shifts[i + 1]) /\ shifts[i + 1] \in Scalars
    BY <2>1 DEF Grows
  <2>3. h[i + 1].prefix = Hash(<<h[i].prefix, shifts[i + 1]>>).lo
    BY <2>2 DEF add_to_private
  <2>4. \A j \in 1 .. MaxShifts : \A x \in G[j - 1], t \in Scalars : Hash(<<x, t>>).lo \in G[j]
    BY DEF NoCollisions
  <2>5. h[i].prefix \in G[i + 1 - 1]
    BY <1>2, <2>1
  <2>6. Hash(<<h[i].prefix, shifts[i + 1]>>).lo \in G[i + 1]
    BY <2>1, <2>2, <2>4, <2>5
  <2>7. h[i + 1].prefix \in G[i + 1]
    BY <2>3, <2>6, Zenon
  <2>8. i + 1 \in 0 .. Len(shifts)
    BY <2>1
  <2> QED BY <2>7, <2>8
<1>3. 0 .. Len(shifts) \subseteq S
  <2> HIDE DEF S
  <2> QED BY <1>1, <1>2, Num!UpTo
<1> QED BY <1>3

\* The same prefix is only made with the same scalar beside it.
LEMMA SamePrefix ==
  ASSUME NEW G, NoCollisions(G),
         NEW h, NEW seed \in Seeds, NEW shifts \in Seq(Scalars),
         Len(shifts) <= MaxShifts, Grows(h, seed, shifts),
         NEW g, NEW other \in Seeds, NEW moves \in Seq(Scalars),
         Len(moves) <= MaxShifts, Grows(g, other, moves)
  PROVE  \A i \in 0 .. Len(shifts), j \in 0 .. Len(moves) :
           h[i].prefix = g[j].prefix => h[i].scalar = g[j].scalar
<1> DEFINE S == {i \in 0 .. Len(shifts) : \A j \in 0 .. Len(moves) :
                   h[i].prefix = g[j].prefix => h[i].scalar = g[j].scalar}
<1>h. \A i \in 0 .. Len(shifts) : h[i].prefix \in G[i]
  BY PrefixOfGeneration
<1>g. \A j \in 0 .. Len(moves) : g[j].prefix \in G[j]
  BY PrefixOfGeneration
<1>d. \A i \in 1 .. MaxShifts : G[0] \cap G[i] = {}
  BY DEF NoCollisions
<1>1. 0 \in S
  <2> SUFFICES ASSUME NEW j \in 0 .. Len(moves), h[0].prefix = g[j].prefix
               PROVE  h[0].scalar = g[j].scalar
    OBVIOUS
  <2>1. h[0].prefix \in G[0] /\ g[j].prefix \in G[j]
    BY <1>h, <1>g
  <2>2. j = 0
    <3>1. ASSUME j # 0 PROVE FALSE
      <4>1. j \in 1 .. MaxShifts
        BY <3>1, BoundsAssumption
      <4> QED BY <1>d, <2>1, <4>1
    <3> QED BY <3>1
  <2>3. h[0].prefix = Hash(<<seed>>).hi /\ g[0].prefix = Hash(<<other>>).hi
    BY DEF Grows, ed25519_create_keypair
  <2>4. seed = other
    BY <2>2, <2>3 DEF NoCollisions
  <2> QED BY <2>2, <2>4 DEF Grows
<1>2. ASSUME NEW i \in 0 .. Len(shifts) - 1, i \in S PROVE i + 1 \in S
  <2>1. i + 1 \in 1 .. Len(shifts) /\ i + 1 - 1 = i /\ i + 1 \in 1 .. MaxShifts
        /\ i \in 0 .. MaxShifts - 1
    BY BoundsAssumption
  <2>2. h[i + 1] = add_to_private(h[i], shifts[i + 1]) /\ shifts[i + 1] \in Scalars
    BY <2>1 DEF Grows
  <2> SUFFICES ASSUME NEW j \in 0 .. Len(moves), h[i + 1].prefix = g[j].prefix
               PROVE  h[i + 1].scalar = g[j].scalar
    BY <2>1
  <2>3. h[i + 1].prefix \in G[i + 1] /\ g[j].prefix \in G[j]
    BY <1>h, <1>g, <2>1
  <2>4. j # 0
    BY <1>d, <2>1, <2>3
  <2>5. PICK l \in 0 .. Len(moves) - 1 : j = l + 1
    <3>1. j - 1 \in 0 .. Len(moves) - 1 /\ j = (j - 1) + 1
      BY <2>4
    <3> QED BY <3>1
  <2>6. l + 1 \in 1 .. Len(moves) /\ l + 1 - 1 = l /\ l \in 0 .. MaxShifts - 1
        /\ l \in 0 .. Len(moves)
    BY BoundsAssumption
  <2>7. g[j] = add_to_private(g[l], moves[j]) /\ moves[j] \in Scalars
    BY <2>5, <2>6 DEF Grows
  <2>8. Hash(<<h[i].prefix, shifts[i + 1]>>).lo = Hash(<<g[l].prefix, moves[j]>>).lo
    BY <2>2, <2>7 DEF add_to_private
  <2>9. h[i].prefix \in G[i] /\ g[l].prefix \in G[l]
    BY <1>h, <1>g, <2>6
  <2>10. h[i].prefix = g[l].prefix /\ shifts[i + 1] = moves[j]
    BY <2>1, <2>2, <2>6, <2>7, <2>8, <2>9 DEF NoCollisions
  <2>11. h[i].scalar = g[l].scalar
    BY <1>2, <2>6, <2>10
  <2> QED BY <2>2, <2>7, <2>10, <2>11 DEF add_to_private
<1>3. 0 .. Len(shifts) \subseteq S
  <2>1. PICK n \in Nat : n = Len(shifts)
    OBVIOUS
  <2> HIDE DEF S
  <2>2. \A i \in 0 .. n - 1 : i \in S => i + 1 \in S
    BY <1>2, <2>1
  <2>3. 0 .. n \subseteq S
    BY <1>1, <2>2, Num!UpTo
  <2> QED BY <2>1, <2>3
<1> QED BY <1>3

-----------------------------------------------------------------------------
(* What the operations do to a pair. *)

\* h is taken one shift further.
LEMMA GrowFurther ==
  ASSUME NEW h, NEW seed, NEW shifts \in Seq(Scalars), Grows(h, seed, shifts), NEW s \in Scalars
  PROVE  \E g : /\ Grows(g, seed, Append(shifts, s))
                /\ \A i \in 0 .. Len(shifts) : g[i] = h[i]
<1> DEFINE n == Len(shifts)
           g == [i \in 0 .. n + 1 |-> IF i <= n THEN h[i] ELSE add_to_private(h[n], s)]
           t == Append(shifts, s)
<1>1. n \in Nat /\ Len(t) = n + 1 /\ t[n + 1] = s /\ \A i \in 1 .. n : t[i] = shifts[i]
  OBVIOUS
<1>2. g[n + 1] = add_to_private(h[n], s) /\ \A i \in 0 .. n : g[i] = h[i]
  BY <1>1
<1>3. ASSUME NEW i \in 1 .. n + 1 PROVE g[i] = add_to_private(g[i - 1], t[i])
  <2>1. CASE i = n + 1
    <3>1. i - 1 = n /\ n \in 0 .. n
      BY <1>1, <2>1
    <3> QED BY <1>1, <1>2, <2>1, <3>1
  <2>2. CASE i # n + 1
    <3>1. i \in 1 .. n /\ i \in 0 .. n /\ i - 1 \in 0 .. n
      BY <1>1, <2>2
    <3>2. h[i] = add_to_private(h[i - 1], shifts[i])
      BY <3>1 DEF Grows
    <3> QED BY <1>1, <1>2, <3>1, <3>2
  <2> QED BY <2>1, <2>2
<1>4. g[0] = ed25519_create_keypair(seed).private
  <2>1. 0 \in 0 .. n
    BY <1>1
  <2> QED BY <1>2, <2>1 DEF Grows
<1>5. Grows(g, seed, t)
  <2> HIDE DEF g, t, n
  <2> QED BY <1>1, <1>3, <1>4 DEF Grows
<1> QED BY <1>2, <1>5

LEMMA PairCreated ==
  ASSUME NEW seed \in Seeds
  PROVE  LET pair == ed25519_create_keypair(seed)
         IN  IsPair([seed |-> seed, public |-> pair.public, private |-> pair.private,
                     agreed |-> <<>>, publicAt |-> 0, privateAt |-> 0])
<1> DEFINE pair == ed25519_create_keypair(seed)
           k == [seed |-> seed, public |-> pair.public, private |-> pair.private,
                 agreed |-> <<>>, publicAt |-> 0, privateAt |-> 0]
           h == [i \in {0} |-> pair.private]
<1>1. pair.public = Encoded(pair.private.scalar)
  BY DEF ed25519_create_keypair, Encoded
<1>2. h[0] = pair.private
  OBVIOUS
<1>3. Grown(k, h)
  <2> HIDE DEF h
  <2>1. Grows(h, seed, <<>>)
    BY <1>2 DEF Grows
  <2> QED BY <1>1, <1>2, <2>1 DEF Grown
<1>4. \E g : Grown(k, g)
  BY <1>3
<1>5. Len(<<>>) = 0 /\ <<>> \in Seq(Scalars)
  OBVIOUS
<1> HIDE DEF pair
<1>6. IsPair(k)
  BY <1>4, <1>5, BoundsAssumption DEF IsPair
<1> QED BY <1>6 DEF pair

LEMMA PairAgrees ==
  ASSUME NEW k, IsPair(k), Len(k.agreed) < MaxShifts, NEW s \in Scalars
  PROVE  IsPair([k EXCEPT !.agreed = Append(@, s)])
<1> DEFINE t == Append(k.agreed, s)
           l == [k EXCEPT !.agreed = Append(@, s)]
<1>1. /\ k \in [seed : Seeds, public : {k.public}, private : {k.private}, agreed : Seq(Scalars),
                publicAt : Nat, privateAt : Nat]
      /\ k.publicAt \in 0 .. Len(k.agreed) /\ k.privateAt \in 0 .. Len(k.agreed)
  BY DEF IsPair
<1>2. k.seed \in Seeds /\ k.agreed \in Seq(Scalars)
  BY <1>1
<1>3. t \in Seq(Scalars) /\ Len(t) = Len(k.agreed) + 1 /\ Len(k.agreed) \in Nat
  BY <1>2
<1>4. PICK h : Grown(k, h)
  BY DEF IsPair
<1>5. PICK g : Grows(g, k.seed, t) /\ \A i \in 0 .. Len(k.agreed) : g[i] = h[i]
  BY <1>2, <1>4, GrowFurther DEF Grown
<1>6. /\ l.seed = k.seed /\ l.public = k.public /\ l.private = k.private /\ l.agreed = t
      /\ l.publicAt = k.publicAt /\ l.privateAt = k.privateAt
  BY <1>1
<1>7. l \in [seed : Seeds, public : {l.public}, private : {l.private}, agreed : Seq(Scalars),
             publicAt : Nat, privateAt : Nat]
  BY <1>1, <1>3, <1>6
<1> HIDE DEF l, t
<1>8. Grown(l, g)
  BY <1>1, <1>4, <1>5, <1>6 DEF Grown
<1>9. l.publicAt \in 0 .. Len(l.agreed) /\ l.privateAt \in 0 .. Len(l.agreed)
      /\ Len(l.agreed) <= MaxShifts
  BY <1>1, <1>3, <1>6, BoundsAssumption
<1>10. IsPair(l)
  BY <1>7, <1>8, <1>9 DEF IsPair
<1> QED BY <1>10 DEF l

\* What the next shift makes of either half.
LEMMA NextShift ==
  ASSUME NumbersHashed, PrimeOrder, SumsAreRight,
         NEW k, NEW h, IsPair(k), Grown(k, h), NEW at \in 0 .. Len(k.agreed), at < Len(k.agreed)
  PROVE  /\ at + 1 \in 0 .. Len(k.agreed)
         /\ h[at + 1] = add_to_private(h[at], k.agreed[at + 1])
         /\ Encoded(h[at + 1].scalar) = add_to_public(Encoded(h[at].scalar), k.agreed[at + 1])
<1>1. k.seed \in Seeds /\ k.agreed \in Seq(Scalars) /\ Grows(h, k.seed, k.agreed)
  <2>1. k \in [seed : Seeds, public : {k.public}, private : {k.private}, agreed : Seq(Scalars),
               publicAt : Nat, privateAt : Nat]
    BY DEF IsPair
  <2> QED BY <2>1 DEF Grown
<1>2. at + 1 \in 1 .. Len(k.agreed) /\ at + 1 - 1 = at /\ Len(k.agreed) \in Nat
  BY <1>1
<1>3. h[at + 1] = add_to_private(h[at], k.agreed[at + 1]) /\ k.agreed[at + 1] \in Scalars
  BY <1>1, <1>2 DEF Grows
<1>4. h[at].scalar \in Secrets
  BY <1>1, GrownSecrets
<1>5. add_to_public(Encoded(h[at].scalar), k.agreed[at + 1])
        = Encoded(add_to_private(h[at], k.agreed[at + 1]).scalar)
  BY <1>3, <1>4, PublicShift
<1> QED BY <1>2, <1>3, <1>5

LEMMA PairShifted ==
  ASSUME NumbersHashed, PrimeOrder, SumsAreRight, NEW k, IsPair(k)
  PROVE  /\ k.privateAt < Len(k.agreed) =>
              IsPair([k EXCEPT !.private = add_to_private(@, k.agreed[k.privateAt + 1]),
                               !.privateAt = @ + 1])
         /\ k.publicAt < Len(k.agreed) =>
              IsPair([k EXCEPT !.public = add_to_public(@, k.agreed[k.publicAt + 1]),
                               !.publicAt = @ + 1])
         /\ Level(k) /\ k.privateAt < Len(k.agreed) =>
              LET pair == add_to_both(k.private, k.agreed[k.privateAt + 1])
              IN  IsPair([k EXCEPT !.public = pair.public, !.private = pair.private,
                                   !.publicAt = @ + 1, !.privateAt = @ + 1])
<1>1. /\ k \in [seed : Seeds, public : {k.public}, private : {k.private}, agreed : Seq(Scalars),
                publicAt : Nat, privateAt : Nat]
      /\ Len(k.agreed) <= MaxShifts
      /\ k.publicAt \in 0 .. Len(k.agreed) /\ k.privateAt \in 0 .. Len(k.agreed)
  BY DEF IsPair
<1>2. PICK h : Grown(k, h)
  BY DEF IsPair
<1>h. Grows(h, k.seed, k.agreed) /\ k.private = h[k.privateAt]
      /\ k.public = Encoded(h[k.publicAt].scalar)
  BY <1>2 DEF Grown
<1>3. ASSUME NEW l, NEW i \in 0 .. Len(k.agreed), NEW j \in 0 .. Len(k.agreed),
             l \in [seed : Seeds, public : {l.public}, private : {l.private},
                    agreed : Seq(Scalars), publicAt : Nat, privateAt : Nat],
             l.seed = k.seed, l.agreed = k.agreed, l.publicAt = i, l.privateAt = j,
             l.public = Encoded(h[i].scalar), l.private = h[j]
      PROVE  IsPair(l)
  <2>1. Grown(l, h)
    BY <1>h, <1>3 DEF Grown
  <2> QED BY <1>1, <1>3, <2>1 DEF IsPair
<1>4. ASSUME k.privateAt < Len(k.agreed)
      PROVE  IsPair([k EXCEPT !.private = add_to_private(@, k.agreed[k.privateAt + 1]),
                              !.privateAt = @ + 1])
  <2>x. PICK x : x = add_to_private(k.private, k.agreed[k.privateAt + 1])
    OBVIOUS
  <2>y. PICK y \in Nat : y = k.privateAt + 1
    BY <1>1
  <2> DEFINE l == [k EXCEPT !.private = x, !.privateAt = y]
  <2>1. k.privateAt + 1 \in 0 .. Len(k.agreed)
        /\ h[k.privateAt + 1] = add_to_private(h[k.privateAt], k.agreed[k.privateAt + 1])
    BY <1>1, <1>2, <1>4, NextShift
  <2>2. /\ l.seed = k.seed /\ l.agreed = k.agreed /\ l.public = k.public
        /\ l.publicAt = k.publicAt /\ l.privateAt = y
        /\ l.private = x
    BY <1>1
  <2>3. l \in [seed : Seeds, public : {l.public}, private : {l.private},
               agreed : Seq(Scalars), publicAt : Nat, privateAt : Nat]
    BY <1>1, <2>2
  <2> HIDE DEF l
  <2>4. IsPair(l)
    BY <1>1, <1>3, <1>h, <2>1, <2>2, <2>3, <2>x, <2>y
  <2> QED BY <2>4, <2>x, <2>y, Zenon DEF l
<1>5. ASSUME k.publicAt < Len(k.agreed)
      PROVE  IsPair([k EXCEPT !.public = add_to_public(@, k.agreed[k.publicAt + 1]),
                              !.publicAt = @ + 1])
  <2>x. PICK x : x = add_to_public(k.public, k.agreed[k.publicAt + 1])
    OBVIOUS
  <2>y. PICK y \in Nat : y = k.publicAt + 1
    BY <1>1
  <2> DEFINE l == [k EXCEPT !.public = x, !.publicAt = y]
  <2>1. k.publicAt + 1 \in 0 .. Len(k.agreed)
        /\ Encoded(h[k.publicAt + 1].scalar)
             = add_to_public(Encoded(h[k.publicAt].scalar), k.agreed[k.publicAt + 1])
    BY <1>1, <1>2, <1>5, NextShift
  <2>2. /\ l.seed = k.seed /\ l.agreed = k.agreed /\ l.private = k.private
        /\ l.publicAt = y /\ l.privateAt = k.privateAt
        /\ l.public = x
    BY <1>1
  <2>3. l \in [seed : Seeds, public : {l.public}, private : {l.private},
               agreed : Seq(Scalars), publicAt : Nat, privateAt : Nat]
    BY <1>1, <2>2
  <2> HIDE DEF l
  <2>4. IsPair(l)
    BY <1>1, <1>3, <1>h, <2>1, <2>2, <2>3, <2>x, <2>y
  <2> QED BY <2>4, <2>x, <2>y, Zenon DEF l
<1>6. ASSUME Level(k), k.privateAt < Len(k.agreed)
      PROVE  LET pair == add_to_both(k.private, k.agreed[k.privateAt + 1])
             IN  IsPair([k EXCEPT !.public = pair.public, !.private = pair.private,
                                  !.publicAt = @ + 1, !.privateAt = @ + 1])
  <2> DEFINE moved == add_to_private(k.private, k.agreed[k.privateAt + 1])
             pair == add_to_both(k.private, k.agreed[k.privateAt + 1])
  <2>1. k.privateAt + 1 \in 0 .. Len(k.agreed)
        /\ h[k.privateAt + 1] = add_to_private(h[k.privateAt], k.agreed[k.privateAt + 1])
    BY <1>1, <1>2, <1>6, NextShift
  <2>2. pair.public = Encoded(moved.scalar) /\ pair.private = moved
    BY DEF add_to_both, Encoded
  <2>3. moved = h[k.privateAt + 1]
    BY <1>h, <2>1
  <2> HIDE DEF moved, pair
  <2>x. PICK x, z : x = pair.private /\ z = pair.public
    OBVIOUS
  <2>y. PICK y \in Nat, w \in Nat : y = k.privateAt + 1 /\ w = k.publicAt + 1
    BY <1>1
  <2> DEFINE l == [k EXCEPT !.public = z, !.private = x, !.publicAt = w, !.privateAt = y]
  <2>4. /\ l.seed = k.seed /\ l.agreed = k.agreed
        /\ l.public = z /\ l.private = x
        /\ l.publicAt = w /\ l.privateAt = y
    BY <1>1
  <2>5. l \in [seed : Seeds, public : {l.public}, private : {l.private},
               agreed : Seq(Scalars), publicAt : Nat, privateAt : Nat]
    BY <1>1, <2>4
  <2> HIDE DEF l
  <2>6. k.publicAt = k.privateAt
    BY <1>6 DEF Level
  <2>7. IsPair(l)
    BY <1>1, <1>3, <2>1, <2>2, <2>3, <2>4, <2>5, <2>6, <2>x, <2>y
  <2> QED BY <2>7, <2>x, <2>y, Zenon DEF l, pair
<1> QED BY <1>4, <1>5, <1>6

-----------------------------------------------------------------------------
(* The invariant. *)

LEMMA InitPairs == Init => IInv
<1> SUFFICES ASSUME Init PROVE IInv
  OBVIOUS
<1>1. keys = [p \in Parties |-> NoKeys] /\ last = NoSignature /\ nonces = {}
  BY DEF Init
<1>2. \A p \in Parties : ~Made(p)
  BY <1>1 DEF Made
<1>3. keys = [p \in Parties |-> keys[p]]
  BY <1>1
<1> QED BY <1>1, <1>2, <1>3 DEF IInv, JustSigned

\* A step that leaves a pair where one pair was, and makes no signature.
LEMMA OnePair ==
  ASSUME IInv, NEW p \in Parties, NEW k, IsPair(k), keys' = [keys EXCEPT ![p] = k], Unsigned
  PROVE  IInv'
<1>1. keys = [q \in Parties |-> keys[q]] /\ \A q \in Parties : Made(q) => IsPair(keys[q])
  BY DEF IInv
<1>2. keys' = [q \in Parties |-> IF q = p THEN k ELSE keys[q]]
  BY <1>1
<1>3. keys' = [q \in Parties |-> keys'[q]]
  BY <1>2
<1>4. ASSUME NEW q \in Parties, Made(q)' PROVE IsPair(keys[q])'
  <2>1. CASE q = p
    <3>1. keys'[q] = k
      BY <1>2, <2>1
    <3> QED BY <3>1 DEF IsPair, Grown
  <2>2. CASE q # p
    <3>1. keys'[q] = keys[q]
      BY <1>2, <2>2
    <3>2. Made(q)
      BY <1>4, <3>1 DEF Made
    <3> QED BY <1>1, <3>1, <3>2
  <2> QED BY <2>1, <2>2
<1>5. (\A n \in nonces : IsNonce(n))'
  BY DEF IInv, Unsigned
<1>6. JustSigned'
  BY DEF JustSigned, Unsigned
<1> QED BY <1>3, <1>4, <1>5, <1>6 DEF IInv

LEMMA SignedWithPair ==
  ASSUME IInv, NEW p \in Parties, NEW message \in Messages, Sign(p, message)
  PROVE  IInv'
<1> DEFINE k == keys[p]
           n == [text |-> <<k.private.prefix, message>>, public |-> k.public,
                 scalar |-> k.private.scalar]
<1>1. IsPair(k) /\ Level(k) /\ keys' = keys
  BY DEF IInv, Sign
<1>2. last' = [party |-> p, message |-> message,
               signature |-> ed25519_sign(message, k.public, k.private)]
      /\ nonces' = nonces \cup {n}
  BY DEF Sign
<1>3. IsNonce(n)
  <2>1. PICK h : Grown(k, h)
    BY <1>1 DEF IsPair
  <2>2. /\ n.text[1] = k.private.prefix /\ n.scalar = k.private.scalar /\ n.public = k.public
    OBVIOUS
  <2> HIDE DEF n
  <2>3. /\ k.seed \in Seeds /\ k.agreed \in Seq(Scalars) /\ Len(k.agreed) <= MaxShifts
        /\ k.privateAt \in 0 .. Len(k.agreed) /\ Grows(h, k.seed, k.agreed)
    BY <1>1, <2>1 DEF IsPair, Grown
  <2>4. /\ n.text[1] = h[k.privateAt].prefix /\ n.scalar = h[k.privateAt].scalar
        /\ n.public = Encoded(n.scalar)
    BY <1>1, <2>1, <2>2 DEF Grown, Level
  <2> QED BY <2>3, <2>4 DEF IsNonce
<1>4. \A m \in nonces' : IsNonce(m)
  <2> HIDE DEF n
  <2> QED BY <1>2, <1>3 DEF IInv
<1>5. JustSigned'
  <2>1. /\ last'.party = p /\ last'.message = message
        /\ last'.signature = ed25519_sign(message, k.public, k.private)
    BY <1>2
  <2>2. keys'[last'.party] = k
    BY <1>1, <2>1
  <2>3. IsPair(keys'[last'.party]) /\ Level(keys'[last'.party])
    BY <1>1, <2>2
  <2> QED BY <2>1, <2>2, <2>3 DEF JustSigned
<1>6. keys' = [q \in Parties |-> keys'[q]] /\ \A q \in Parties : Made(q)' => IsPair(keys[q])'
  BY <1>1 DEF IInv, Made
<1> QED BY <1>4, <1>5, <1>6 DEF IInv

LEMMA NextPairs ==
  ASSUME NumbersHashed, PrimeOrder, SumsAreRight, IInv, [Next]_vars
  PROVE  IInv'
<1>1. CASE UNCHANGED vars
  BY <1>1 DEF vars, IInv, JustSigned, Made
<1>2. ASSUME NEW p \in Parties, NEW seed \in Seeds, CreateKeypair(p, seed) PROVE IInv'
  <2> DEFINE pair == ed25519_create_keypair(seed)
             k == [seed |-> seed, public |-> pair.public, private |-> pair.private,
                   agreed |-> <<>>, publicAt |-> 0, privateAt |-> 0]
  <2>1. IsPair(k)
    BY PairCreated
  <2>2. keys' = [keys EXCEPT ![p] = k] /\ Unsigned
    BY <1>2 DEF CreateKeypair
  <2> HIDE DEF k
  <2> QED BY <2>1, <2>2, OnePair
<1>3. ASSUME NEW p \in Parties, NEW s \in Scalars, Agree(p, s) PROVE IInv'
  <2> DEFINE k == [keys[p] EXCEPT !.agreed = Append(@, s)]
  <2>1. IsPair(keys[p]) /\ Len(keys[p].agreed) < MaxShifts
    BY <1>3 DEF IInv, Agree
  <2>2. IsPair(k)
    BY <2>1, PairAgrees
  <2>3. keys' = [keys EXCEPT ![p] = k] /\ Unsigned
    BY <1>3 DEF Agree, IInv
  <2> HIDE DEF k
  <2> QED BY <2>2, <2>3, OnePair
<1>4. ASSUME NEW p \in Parties, AddToPrivate(p) PROVE IInv'
  <2> DEFINE k == [keys[p] EXCEPT !.private = add_to_private(@, keys[p].agreed[keys[p].privateAt + 1]),
                                  !.privateAt = @ + 1]
  <2>1. IsPair(keys[p]) /\ keys[p].privateAt < Len(keys[p].agreed)
    BY <1>4 DEF IInv, AddToPrivate
  <2>2. IsPair(k)
    BY <2>1, PairShifted
  <2>3. keys' = [keys EXCEPT ![p] = k] /\ Unsigned
    BY <1>4 DEF AddToPrivate, IInv
  <2> HIDE DEF k
  <2> QED BY <2>2, <2>3, OnePair
<1>5. ASSUME NEW p \in Parties, AddToPublic(p) PROVE IInv'
  <2> DEFINE k == [keys[p] EXCEPT !.public = add_to_public(@, keys[p].agreed[keys[p].publicAt + 1]),
                                  !.publicAt = @ + 1]
  <2>1. IsPair(keys[p]) /\ keys[p].publicAt < Len(keys[p].agreed)
    BY <1>5 DEF IInv, AddToPublic
  <2>2. IsPair(k)
    BY <2>1, PairShifted
  <2>3. keys' = [keys EXCEPT ![p] = k] /\ Unsigned
    BY <1>5 DEF AddToPublic, IInv
  <2> HIDE DEF k
  <2> QED BY <2>2, <2>3, OnePair
<1>6. ASSUME NEW p \in Parties, AddToBoth(p) PROVE IInv'
  <2> DEFINE pair == add_to_both(keys[p].private, keys[p].agreed[keys[p].privateAt + 1])
             k == [keys[p] EXCEPT !.public = pair.public, !.private = pair.private,
                                  !.publicAt = @ + 1, !.privateAt = @ + 1]
  <2>1. IsPair(keys[p]) /\ Level(keys[p]) /\ keys[p].privateAt < Len(keys[p].agreed)
    BY <1>6 DEF IInv, AddToBoth
  <2>2. IsPair(k)
    BY <2>1, PairShifted
  <2>3. keys' = [keys EXCEPT ![p] = k] /\ Unsigned
    BY <1>6 DEF AddToBoth, IInv
  <2> HIDE DEF k
  <2> QED BY <2>2, <2>3, OnePair
<1>7. ASSUME NEW p \in Parties, NEW message \in Messages, Sign(p, message) PROVE IInv'
  BY <1>7, SignedWithPair
<1> QED BY <1>1, <1>2, <1>3, <1>4, <1>5, <1>6, <1>7 DEF Next

\* Every half of every pair, and every signature, is what the shifts that were
\* agreed on make of the pair that a seed gave.
THEOREM PairsGrow ==
  ASSUME NumbersHashed, PrimeOrder, SumsAreRight
  PROVE  Spec => []IInv
<1>1. IInv /\ [Next]_vars => IInv'
  BY NextPairs
<1> QED BY <1>1, InitPairs, PTL DEF Spec

\* One nonce serves one message and one key, for the prefix it is made of belongs
\* to one key: a shift gives a new prefix with the new scalar.
THEOREM NoncesAreFresh ==
  ASSUME NumbersHashed, PrimeOrder, SumsAreRight, NEW CONSTANT Generation, NoCollisions(Generation)
  PROVE  Spec => []NoncesFresh
<1>1. IInv => NoncesFresh
  <2> SUFFICES ASSUME IInv, NEW a \in nonces, NEW b \in nonces, a.text = b.text
               PROVE  a.scalar = b.scalar /\ a.public = b.public
    BY DEF NoncesFresh
  <2>1. PICK seed \in Seeds, shifts \in Seq(Scalars) : \E i \in 0 .. Len(shifts) : \E h :
          /\ Len(shifts) <= MaxShifts /\ Grows(h, seed, shifts)
          /\ a.text[1] = h[i].prefix /\ a.scalar = h[i].scalar /\ a.public = Encoded(a.scalar)
    BY DEF IInv, IsNonce
  <2>2. PICK i \in 0 .. Len(shifts) : \E h :
          /\ Len(shifts) <= MaxShifts /\ Grows(h, seed, shifts)
          /\ a.text[1] = h[i].prefix /\ a.scalar = h[i].scalar /\ a.public = Encoded(a.scalar)
    BY <2>1
  <2>h. PICK h :
          /\ Len(shifts) <= MaxShifts /\ Grows(h, seed, shifts)
          /\ a.text[1] = h[i].prefix /\ a.scalar = h[i].scalar /\ a.public = Encoded(a.scalar)
    BY <2>2
  <2>3. PICK other \in Seeds, moves \in Seq(Scalars) : \E j \in 0 .. Len(moves) : \E g :
          /\ Len(moves) <= MaxShifts /\ Grows(g, other, moves)
          /\ b.text[1] = g[j].prefix /\ b.scalar = g[j].scalar /\ b.public = Encoded(b.scalar)
    BY DEF IInv, IsNonce
  <2>4. PICK j \in 0 .. Len(moves) : \E g :
          /\ Len(moves) <= MaxShifts /\ Grows(g, other, moves)
          /\ b.text[1] = g[j].prefix /\ b.scalar = g[j].scalar /\ b.public = Encoded(b.scalar)
    BY <2>3
  <2>g. PICK g :
          /\ Len(moves) <= MaxShifts /\ Grows(g, other, moves)
          /\ b.text[1] = g[j].prefix /\ b.scalar = g[j].scalar /\ b.public = Encoded(b.scalar)
    BY <2>4
  <2>5. h[i].scalar = g[j].scalar
    <3>1. h[i].prefix = g[j].prefix
      BY <2>h, <2>g
    <3> QED BY <2>h, <2>g, <3>1, SamePrefix
  <2> QED BY <2>h, <2>g, <2>5
<1>2. Spec => []IInv
  BY PairsGrow
<1> QED BY <1>1, <1>2, PTL

-----------------------------------------------------------------------------
(* What is verified. *)

\* The scalar of a signature less a multiple of the key is the nonce again for the
\* multiple it was made with only, unless the key is zero.
LEMMA OneMultiple ==
  ASSUME PrimeOrder, NEW a \in Nat, NEW h \in 0 .. Order - 1, NEW g \in 0 .. Order - 1,
         NEW r \in 0 .. Order - 1
  PROVE  (sc_muladd(h, a, r) - g * a) % Order = r <=> g = h \/ a % Order = 0
<1>1. PICK m : m = Order
  OBVIOUS
<1>2. m \in Nat \ {0, 1} /\ \A x, y \in 1 .. m - 1 : (x * y) % m # 0
  BY <1>1 DEF PrimeOrder
<1>3. PICK e \in 0 .. m - 1, q \in Int : e = a % m /\ a = e + q * m
  <2>1. a % m \in 0 .. m - 1 /\ a \div m \in Int /\ a = (a % m) + (a \div m) * m
    BY <1>2, Num!Quotients
  <2> QED BY <2>1
<1>4. h \in 0 .. m - 1 /\ g \in 0 .. m - 1 /\ r \in 0 .. m - 1
  BY <1>1
<1>5. PICK s \in 0 .. m - 1, t \in Int : s = sc_muladd(h, a, r) /\ h * e + r = s + t * m
  <2>1. h % m = h
    BY <1>2, <1>4
  <2>2. PICK u \in Int : u = h * e + r
    BY <1>3, <1>4
  <2>3. sc_muladd(h, a, r) = u % m
    BY <1>1, <1>3, <2>1, <2>2 DEF sc_muladd
  <2>4. u % m \in 0 .. m - 1 /\ u \div m \in Int /\ u = (u % m) + (u \div m) * m
    BY <1>2, Num!Quotients
  <2> QED BY <2>2, <2>3, <2>4
<1>6. PICK diff \in Int : diff = h - g
  BY <1>4
<1>7. PICK w \in Int : w = diff * e
  BY <1>3, <1>6
<1>8. PICK v \in Int : v = s - g * a
  <2>1. g * a \in Int
    BY <1>4
  <2> QED BY <1>5, <2>1
<1>9. v % m = r <=> \E k \in Int : w = k * m
  <2>1. r % m = r /\ r \in Int /\ m \in Nat \ {0}
    BY <1>2, <1>4
  <2>2. v % m = r % m <=> \E k \in Int : v = r + k * m
    BY <2>1, Num!SameRemainder
  <2>3. PICK l \in Int : l = t + g * q
    <3>1. g * q \in Int
      BY <1>3, <1>4
    <3> QED BY <1>5, <3>1
  <2>4. v = w + r - l * m
    <3>1. PICK he \in Int, ge \in Int, tm \in Int, gm \in Int, b \in Int :
            he = h * e /\ ge = g * e /\ tm = t * m /\ gm = (g * q) * m /\ b = g * a
      <4>1. h * e \in Int /\ g * e \in Int
        BY <1>3, <1>4
      <4>2. t * m \in Int /\ (g * q) * m \in Int
        BY <1>2, <1>3, <1>4, <1>5
      <4>3. g * a \in Int
        BY <1>4
      <4> QED BY <4>1, <4>2, <4>3, Zenon
    <3>2. b = ge + gm
      <4>1. g * (e + q * m) = g * e + (g * q) * m
        BY <1>2, <1>3, <1>4
      <4>2. g * a = g * (e + q * m)
        BY <1>3, Zenon
      <4> QED BY <3>1, <4>1, <4>2
    <3>3. w = he - ge
      <4>1. (h - g) * e = h * e - g * e
        BY <1>3, <1>4
      <4> QED BY <1>6, <1>7, <3>1, <4>1
    <3>4. l * m = tm + gm
      <4>1. (t + g * q) * m = t * m + (g * q) * m
        BY <1>2, <1>3, <1>4, <1>5
      <4> QED BY <2>3, <3>1, <4>1
    <3>5. v = s - b /\ he + r = s + tm
      BY <1>5, <1>8, <3>1
    <3> QED BY <1>4, <1>5, <1>7, <3>2, <3>3, <3>4, <3>5
  <2>5. ASSUME NEW k \in Int, v = r + k * m PROVE w = (k + l) * m
    <3>1. PICK km \in Int, lm \in Int : km = k * m /\ lm = l * m /\ (k + l) * m = km + lm
      BY <1>2, <2>3
    <3>2. v = w + r - lm /\ v = r + km
      BY <2>4, <2>5, <3>1, Zenon
    <3> QED BY <1>4, <1>7, <3>1, <3>2
  <2>6. ASSUME NEW k \in Int, w = k * m PROVE v = r + (k - l) * m
    <3>1. PICK km \in Int, lm \in Int : km = k * m /\ lm = l * m /\ (k - l) * m = km - lm
      BY <1>2, <2>3
    <3>2. v = w + r - lm /\ w = km
      BY <2>4, <2>6, <3>1, Zenon
    <3> QED BY <1>4, <1>7, <3>1, <3>2
  <2>7. \A k \in Int : k + l \in Int /\ k - l \in Int
    BY <2>3
  <2> QED BY <2>1, <2>2, <2>5, <2>6, <2>7
<1>10. (\E k \in Int : w = k * m) <=> diff = 0 \/ e = 0
  <2>1. ASSUME diff = 0 \/ e = 0 PROVE w = 0 * m
    <3>1. 0 * m = 0 /\ 0 * e = 0 /\ diff * 0 = 0
      BY <1>2, <1>3, <1>6
    <3> QED BY <1>7, <2>1, <3>1
  <2>2. ASSUME NEW k \in Int, w = k * m, NEW x \in 1 .. m - 1, e # 0,
               x = diff \/ x = -diff
        PROVE  FALSE
    <3>1. PICK y \in Int, l \in Int : y = x * e /\ y = 0 + l * m
      <4>1. CASE x = diff
        <5>1. x * e = w
          BY <1>7, <4>1, Zenon
        <5>2. w = 0 + k * m
          BY <1>7, <2>2
        <5> QED BY <1>7, <2>2, <5>1, <5>2, Zenon
      <4>2. CASE x = -diff
        <5>1. x * e = -w /\ -w = 0 + (-k) * m
          <6>1. (-diff) * e = -(diff * e) /\ (-k) * m = -(k * m)
            BY <1>2, <1>3, <1>6, <2>2
          <6>2. -w = 0 + -(k * m)
            BY <1>7, <2>2
          <6> QED BY <1>7, <4>2, <6>1, <6>2
        <5>2. -w \in Int /\ -k \in Int
          BY <1>7, <2>2
        <5> QED BY <5>1, <5>2
      <4> QED BY <2>2, <4>1, <4>2
    <3>2. 0 \in Int /\ m \in Nat \ {0} /\ 0 % m = 0
      BY <1>2
    <3>3. y % m = 0
      <4>1. \E k_1 \in Int : y = 0 + k_1 * m
        BY <3>1
      <4>2. y % m = 0 % m
        BY <3>2, <4>1, Num!SameRemainder
      <4> QED BY <3>2, <4>2
    <3>4. e \in 1 .. m - 1
      BY <1>2, <1>3, <2>2
    <3> QED BY <1>2, <2>2, <3>1, <3>3, <3>4
  <2>3. ASSUME NEW k \in Int, w = k * m, diff # 0, e # 0 PROVE FALSE
    <3>1. diff \in 1 .. m - 1 \/ -diff \in 1 .. m - 1
      BY <1>2, <1>4, <1>6, <2>3
    <3> QED BY <2>2, <2>3, <3>1
  <2> QED BY <2>1, <2>3
<1> QED
  <2>1. diff = 0 <=> g = h
    BY <1>4, <1>6
  <2>2. (sc_muladd(h, a, r) - g * a) % Order = v % m
    BY <1>1, <1>5, <1>8
  <2>3. a % Order = e
    BY <1>1, <1>3
  <2> QED BY <1>9, <1>10, <2>1, <2>2, <2>3

LEMMA ReducedScalars ==
  ASSUME NumbersHashed, PrimeOrder
  PROVE  /\ \A texts : sc_reduce(Hash(texts)) \in 0 .. Order - 1
         /\ \A h, a, r \in Nat : sc_muladd(h, a, r) \in 0 .. Order - 1
<1>1. PICK m \in Nat \ {0} : m = Order
  BY DEF PrimeOrder
<1>2. \A x \in Nat : x % m \in 0 .. m - 1
  OBVIOUS
<1>3. \A x, y \in Nat : x * y \in Nat /\ x + y \in Nat
  OBVIOUS
<1>4. ASSUME NEW texts PROVE sc_reduce(Hash(texts)) \in 0 .. Order - 1
  <2>1. PICK hi \in Nat, lo \in Nat : hi = Hash(texts).hi /\ lo = Hash(texts).lo
    BY DEF NumbersHashed
  <2>2. PICK u \in Nat : u = 2^N % m
    <3>1. PICK w \in Nat : w = 2^N
      BY WidthAssumption, PowersArePositive
    <3> QED BY <1>2, <3>1
  <2>3. (hi % m) * u \in Nat
    BY <1>2, <1>3, <2>2
  <2>4. ((hi % m) * u + lo) % m \in 0 .. m - 1
    BY <1>2, <1>3, <2>3
  <2> QED BY <1>1, <2>1, <2>2, <2>4 DEF sc_reduce
<1>5. ASSUME NEW h \in Nat, NEW a \in Nat, NEW r \in Nat
      PROVE  sc_muladd(h, a, r) \in 0 .. Order - 1
  <2>1. (h % m) * (a % m) \in Nat
    BY <1>2, <1>3
  <2>2. ((h % m) * (a % m) + r) % m \in 0 .. m - 1
    BY <1>2, <1>3, <2>1
  <2> QED BY <1>1, <2>2 DEF sc_muladd
<1> QED BY <1>4, <1>5

\* the scalar that a signature with R multiplies the key by
Challenge(R_, public, message) == sc_reduce(Hash(<<Bytes(R_), Bytes(public), message>>))

\* A signature with a secret key, under the multiple of the base point by that key.
LEMMA SignatureVerifies ==
  ASSUME NumbersHashed, PrimeOrder, SumsAreRight,
         NEW private, private.scalar \in Secrets, NEW message, NEW other
  PROVE  LET public == Encoded(private.scalar)
             signature == ed25519_sign(message, public, private)
         IN  ed25519_verify(signature, other, public)
               <=> \/ Challenge(signature.r, public, other) = Challenge(signature.r, public, message)
                   \/ private.scalar = 0
<1> DEFINE public == Encoded(private.scalar)
           signature == ed25519_sign(message, public, private)
           A == ge_frombytes_negate_vartime(public)
<1>1. PICK a \in Nat : a = private.scalar /\ a \in Secrets
  BY SecretsAreNatural
<1>2. PICK r \in 0 .. Order - 1 : r = sc_reduce(Hash(<<private.prefix, message>>))
  BY ReducedScalars
<1>3. signature.r = Encoded(r)
  BY <1>2 DEF ed25519_sign, Encoded
<1>4. PICK h \in 0 .. Order - 1 : h = Challenge(signature.r, public, message)
  BY ReducedScalars DEF Challenge
<1>5. PICK g \in 0 .. Order - 1 : g = Challenge(signature.r, public, other)
  BY ReducedScalars DEF Challenge
<1>6. signature.s = sc_muladd(h, a, r)
  BY <1>1, <1>2, <1>3, <1>4 DEF ed25519_sign, Challenge, Encoded
<1>7. PICK s \in 0 .. Order - 1 : s = sc_muladd(h, a, r)
  <2>1. h \in Nat /\ r \in Nat
    BY <1>2, <1>4
  <2> QED BY <1>1, <2>1, ReducedScalars
<1>8. s < 2^(N - 3)
  <2>1. PICK w \in Nat : w = 2^(N - 3)
    <3>1. N - 3 \in Nat
      BY WidthAssumption
    <3> QED BY <3>1, PowersArePositive
  <2>2. Order \in Nat /\ Order <= w
    BY <2>1 DEF PrimeOrder
  <2> QED BY <2>1, <2>2
<1>9. A.ok /\ ge_tobytes(ge_double_scalarmult_vartime(g, A.point, s))
                = Encoded((s - g * a) % Order)
  BY <1>1, <1>5, <1>7 DEF SumsAreRight
<1>10. (s - g * a) % Order \in 0 .. Order - 1
  <2>1. PICK v \in Int : v = s - g * a
    BY <1>5, <1>7
  <2>2. v % Order \in 0 .. Order - 1
    BY <2>1 DEF PrimeOrder
  <2> QED BY <2>1, <2>2
<1>11. ge_tobytes(ge_double_scalarmult_vartime(g, A.point, s)) = signature.r
         <=> (s - g * a) % Order = r
  <2>1. Encoded((s - g * a) % Order) = Encoded(r) => (s - g * a) % Order = r
    BY <1>2, <1>10 DEF PrimeOrder
  <2> QED BY <1>3, <1>9, <2>1
<1>12. (s - g * a) % Order = r <=> g = h \/ a % Order = 0
  <2>1. (sc_muladd(h, a, r) - g * a) % Order = r <=> g = h \/ a % Order = 0
    BY OneMultiple
  <2> QED BY <1>7, <2>1
<1>13. a % Order = 0 <=> a = 0
  <2>1. Order \in Nat \ {0}
    BY DEF PrimeOrder
  <2>2. CASE a \in Created
    <3>1. a % Order # 0
      BY <2>2 DEF PrimeOrder
    <3> QED BY <2>1, <3>1
  <2>3. CASE a \in 0 .. Order - 1
    BY <2>1, <2>3
  <2> QED BY <1>1, <2>2, <2>3 DEF Secrets
<1>14. ed25519_verify(signature, other, public) <=> g = h \/ a = 0
  <2>1. ed25519_verify(signature, other, public)
          <=> /\ signature.s < 2^(N - 3) /\ A.ok
              /\ ge_tobytes(ge_double_scalarmult_vartime(g, A.point, signature.s)) = signature.r
    <3> HIDE DEF public, signature
    <3> QED BY <1>5 DEF ed25519_verify, Challenge
  <2> HIDE DEF public, signature, A
  <2> QED BY <1>6, <1>7, <1>8, <1>9, <1>11, <1>12, <1>13, <2>1
<1> QED BY <1>1, <1>4, <1>5, <1>14

\* A pair and a signature of the reference, from the same seed.
LEMMA SameAsReference ==
  ASSUME NumbersHashed, PrimeOrder, SameMultiples, NEW seed \in Seeds, NEW message
  PROVE  LET pair == ed25519_create_keypair(seed)
         IN  /\ pair.public = crypto_sign_keypair(seed)
             /\ ed25519_sign(message, pair.public, pair.private)
                  = crypto_sign(message, pair.public, seed)
<1> DEFINE az == Hash(<<seed>>)
           pair == ed25519_create_keypair(seed)
<1>1. PICK a : a = Clamp(az.lo)
  OBVIOUS
<1>2. a = pair.private.scalar /\ pair.private.prefix = az.hi /\ pair.public = Encoded(a)
  BY <1>1 DEF ed25519_create_keypair, Encoded
<1>3. a \in Created /\ a \in Nat
  <2>1. a \in Created
    BY <1>2 DEF Created
  <2> QED BY <2>1, SecretsAreNatural DEF Secrets
<1>4. PICK b \in 0 .. Order - 1 : b = a % Order
  BY <1>3 DEF PrimeOrder
<1>5. b % Order = b
  BY <1>4 DEF PrimeOrder
<1>6. pair.public = crypto_sign_keypair(seed)
  <2>1. Encoded(a) = Encoded(b)
    BY <1>3, <1>4 DEF PrimeOrder
  <2>2. R!ge25519_pack(R!ge25519_scalarmult_base(b)) = Encoded(b)
    BY <1>4 DEF SameMultiples
  <2> QED BY <1>1, <1>2, <1>4, <2>1, <2>2 DEF crypto_sign_keypair, sc25519_from32bytes
<1>7. ed25519_sign(message, pair.public, pair.private) = crypto_sign(message, pair.public, seed)
  <2>1. PICK r \in 0 .. Order - 1 : r = sc_reduce(Hash(<<az.hi, message>>))
    BY ReducedScalars
  <2>2. R!ge25519_pack(R!ge25519_scalarmult_base(r)) = Encoded(r)
    BY <2>1 DEF SameMultiples
  <2>3. PICK h : h = sc_reduce(Hash(<<Bytes(Encoded(r)), Bytes(pair.public), message>>))
    OBVIOUS
  <2>4. ed25519_sign(message, pair.public, pair.private)
          = [r |-> Encoded(r), s |-> sc_muladd(h, a, r)]
    <3> HIDE DEF pair, az
    <3> QED BY <1>2, <2>1, <2>3 DEF ed25519_sign, Encoded
  <2>5. crypto_sign(message, pair.public, seed) = [r |-> Encoded(r), s |-> sc_muladd(h, b, r)]
    <3> HIDE DEF pair
    <3> QED BY <1>1, <1>4, <2>1, <2>2, <2>3 DEF crypto_sign, sc25519_from32bytes
  <2>6. sc_muladd(h, a, r) = sc_muladd(h, b, r)
    BY <1>4, <1>5 DEF sc_muladd
  <2> QED BY <2>4, <2>5, <2>6
<1> QED BY <1>6, <1>7

\* Every signature verifies under the public half, by whomever it was shifted, and
\* other messages are only taken for the one signed when they hash to the same
\* scalar or the key has become zero; what was never shifted is the reference's.
THEOREM EverySignatureVerifies ==
  ASSUME NumbersHashed, PrimeOrder, SumsAreRight, SameMultiples
  PROVE  Spec => []SignaturesVerify
<1>1. IInv => SignaturesVerify
  <2> SUFFICES ASSUME IInv, last # NoSignature PROVE SignaturesVerify
    BY DEF SignaturesVerify
  <2> DEFINE k == keys[last.party]
             hram(m) == sc_reduce(Hash(<<Bytes(last.signature.r), Bytes(k.public), m>>))
  <2>1. /\ IsPair(k) /\ Level(k)
        /\ last.signature = ed25519_sign(last.message, k.public, k.private)
    BY DEF IInv, JustSigned
  <2>2. PICK h : Grown(k, h)
    BY <2>1 DEF IsPair
  <2>3. /\ k.seed \in Seeds /\ k.agreed \in Seq(Scalars) /\ k.privateAt \in 0 .. Len(k.agreed)
        /\ k.publicAt = k.privateAt /\ Grows(h, k.seed, k.agreed)
        /\ k.private = h[k.privateAt] /\ k.public = Encoded(h[k.publicAt].scalar)
    BY <2>1, <2>2 DEF IsPair, Grown, Level
  <2>4. k.private.scalar \in Secrets /\ k.public = Encoded(k.private.scalar)
    BY <2>3, GrownSecrets
  <2>5. ASSUME NEW m \in Messages
        PROVE  ed25519_verify(last.signature, m, k.public)
                 <=> hram(m) = hram(last.message) \/ k.private.scalar = 0
    <3> HIDE DEF k
    <3>1. ed25519_verify(last.signature, m, k.public)
            <=> \/ Challenge(last.signature.r, k.public, m)
                     = Challenge(last.signature.r, k.public, last.message)
                \/ k.private.scalar = 0
      BY <2>1, <2>4, SignatureVerifies
    <3> QED BY <3>1 DEF Challenge
  <2>6. ASSUME k.privateAt = 0
        PROVE  /\ k.public = crypto_sign_keypair(k.seed)
               /\ last.signature = crypto_sign(last.message, k.public, k.seed)
    <3>1. k.private = ed25519_create_keypair(k.seed).private
      BY <2>3, <2>6 DEF Grows
    <3>2. k.public = ed25519_create_keypair(k.seed).public
      BY <2>4, <3>1 DEF ed25519_create_keypair, Encoded
    <3> QED BY <2>1, <2>3, <3>1, <3>2, SameAsReference
  <2> QED BY <2>5, <2>6 DEF SignaturesVerify
<1>2. Spec => []IInv
  BY PairsGrow
<1> QED BY <1>1, <1>2, PTL

-----------------------------------------------------------------------------
(* What is agreed on. *)

\* A clamped scalar stays as it is: keys are clamped when they are made, and again
\* in an exchange.
LEMMA ClampedOnce == ASSUME NEW e \in Nat PROVE Clamp(Clamp(e)) = Clamp(e)
<1>1. PICK m, k \in Nat \ {0} : m = 2^(N - 2) /\ m = 8 * k
  <2>1. PICK n \in Nat : N - 2 = 3 + n
    <3>1. N - 5 \in Nat /\ N - 2 = 3 + (N - 5)
      BY WidthAssumption
    <3> QED BY <3>1
  <2>2. 2^(N - 2) = 8 * 2^n /\ 2^n \in Nat \ {0}
    <3>1. 2^(3 + n) = 2^3 * 2^n /\ 2^n \in Nat \ {0}
      BY Num!PowerOfTwo
    <3>2. 2^3 = 8
      OBVIOUS
    <3> QED BY <2>1, <3>1, <3>2
  <2>3. PICK k \in Nat \ {0} : k = 2^n
    BY <2>2
  <2> QED BY <2>2, <2>3
<1>2. PICK r \in 0 .. m - 1, q \in Int : r = e % m /\ e = r + q * m
  <2>1. e % m \in 0 .. m - 1 /\ e \div m \in Int /\ e = (e % m) + (e \div m) * m
    BY Num!Quotients
  <2> QED BY <2>1
<1>3. PICK u \in Nat, v \in 0 .. 7 : r = 8 * u + v
  <2>1. r \div 8 \in Nat /\ r % 8 \in 0 .. 7 /\ r = 8 * (r \div 8) + (r % 8)
    OBVIOUS
  <2> QED BY <2>1
<1>4. e % 8 = v
  <2>1. q * m = 8 * (q * k)
    BY <1>1
  <2>2. PICK w \in Int : w = q * k
    BY <1>2
  <2>3. e = v + 8 * (u + w)
    BY <1>2, <1>3, <2>1, <2>2
  <2> QED BY <2>2, <2>3
<1>5. PICK c \in Nat : c = Clamp(e) /\ c = 8 * u + m
  <2>1. Clamp(e) = r - v + m
    BY <1>1, <1>2, <1>4 DEF Clamp
  <2>2. r - v + m = 8 * u + m /\ 8 * u + m \in Nat
    BY <1>1, <1>3
  <2> QED BY <2>1, <2>2
<1>6. c % 8 = 0
  BY <1>1, <1>5
<1>7. c % m = 8 * u
  BY <1>1, <1>3, <1>5
<1>8. Clamp(c) = c
  BY <1>1, <1>5, <1>6, <1>7 DEF Clamp
<1> QED BY <1>5, <1>8

\* Two created pairs give one secret, which is not that of no point.
LEMMA ExchangeAgrees ==
  ASSUME NumbersHashed, PrimeOrder, LadderIsRight, NEW a \in Created, NEW b \in Created
  PROVE  /\ ed25519_key_exchange(Encoded(a).y, b) = ed25519_key_exchange(Encoded(b).y, a)
         /\ ed25519_key_exchange(Encoded(a).y, b) # 0
<1>1. \A c \in Created : c \in Nat /\ Clamp(c) = c
  <2> SUFFICES ASSUME NEW seed \in Seeds
               PROVE  LET c == ed25519_create_keypair(seed).private.scalar
                      IN  c \in Nat /\ Clamp(c) = c
    BY DEF Created
  <2>1. PICK e \in Nat : e = Hash(<<seed>>).lo
    BY DEF NumbersHashed
  <2>2. ed25519_create_keypair(seed).private.scalar = Clamp(e)
    BY <2>1 DEF ed25519_create_keypair
  <2> QED BY <2>2, ClampedOnce, ClampedIsNatural
<1>2. /\ ed25519_key_exchange(Encoded(a).y, b) = Montgomery(Encoded((a * Clamp(b)) % Order))
      /\ ed25519_key_exchange(Encoded(b).y, a) = Montgomery(Encoded((b * Clamp(a)) % Order))
  BY DEF LadderIsRight
<1>3. a * Clamp(b) = a * b /\ b * Clamp(a) = a * b
  <2>1. b * a = a * b
    BY <1>1
  <2> QED BY <1>1, <2>1
<1>4. (a * b) % Order \in 1 .. Order - 1
  <2>1. PICK m : m = Order
    OBVIOUS
  <2>2. m \in Nat \ {0} /\ \A x, y \in 1 .. m - 1 : (x * y) % m # 0
    BY <2>1 DEF PrimeOrder
  <2>3. PICK x \in 1 .. m - 1 : x = a % m
    <3>1. a % m # 0
      BY <2>1 DEF PrimeOrder
    <3> QED BY <1>1, <2>2, <3>1
  <2>4. PICK y \in 1 .. m - 1 : y = b % m
    <3>1. b % m # 0
      BY <2>1 DEF PrimeOrder
    <3> QED BY <1>1, <2>2, <3>1
  <2>5. (x * b) % m = (a * b) % m
    BY <1>1, <2>2, <2>3, Num!RemainderOfProduct
  <2>6. (y * x) % m = (b * x) % m
    <3>1. b \in Int /\ x \in Int /\ m \in Nat \ {0}
      BY <1>1, <2>2
    <3>2. ((b % m) * x) % m = (b * x) % m
      BY <3>1, Num!RemainderOfProduct
    <3> QED BY <2>4, <3>2
  <2>7. x * b = b * x
    BY <1>1
  <2>8. (a * b) % m # 0
    BY <2>2, <2>5, <2>6, <2>7
  <2>9. PICK n \in Nat : n = a * b
    BY <1>1
  <2> QED BY <2>1, <2>2, <2>8, <2>9
<1> QED BY <1>2, <1>3, <1>4 DEF LadderIsRight

\* Pairs that were never shifted agree on one secret, and never on zero.
THEOREM PartiesAgree ==
  ASSUME NumbersHashed, PrimeOrder, SumsAreRight, LadderIsRight
  PROVE  Spec => []SecretsAgree
<1>1. IInv => SecretsAgree
  <2> SUFFICES ASSUME IInv, NEW p \in Parties, NEW q \in Parties, Made(p), Made(q),
                      keys[p].agreed = <<>>, keys[q].agreed = <<>>
               PROVE  LET secret == ed25519_key_exchange(keys[q].public.y, keys[p].private.scalar)
                      IN  /\ secret = ed25519_key_exchange(keys[p].public.y, keys[q].private.scalar)
                          /\ secret # 0
    BY DEF SecretsAgree
  <2>1. ASSUME NEW x \in {p, q}
        PROVE  keys[x].private.scalar \in Created
               /\ keys[x].public = Encoded(keys[x].private.scalar)
    <3>1. PICK k : k = keys[x]
      OBVIOUS
    <3>2. IsPair(k) /\ k.agreed = <<>>
      BY <3>1 DEF IInv
    <3>3. PICK h : Grown(k, h)
      BY <3>2 DEF IsPair
    <3>4. Len(k.agreed) = 0
      BY <3>2
    <3>5. k.seed \in Seeds /\ k.publicAt = 0 /\ k.privateAt = 0
      BY <3>2, <3>4 DEF IsPair
    <3>6. k.private = ed25519_create_keypair(k.seed).private
          /\ k.public = Encoded(k.private.scalar)
      BY <3>3, <3>5 DEF Grown, Grows
    <3> QED BY <3>1, <3>5, <3>6 DEF Created
  <2> QED BY <2>1, ExchangeAgrees
<1>2. Spec => []IInv
  BY PairsGrow
<1> QED BY <1>1, <1>2, PTL
=============================================================================
