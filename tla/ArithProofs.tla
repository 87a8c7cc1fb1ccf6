---------------------------- MODULE ArithProofs ----------------------------
(***************************************************************************)
(* Three parts of the arithmetic that the run of MCArith asks about, for   *)
(* every size.  The sizes of memmgr: below which requests the arithmetic   *)
(* of memmgr_alloc is that of the integers, for every width, header and    *)
(* pool.  The field of ed25519/fe.c: products and carries keep the number  *)
(* in the limbs modulo the prime, and its bytes are the canonical ones, for *)
(* every even number of limbs.  The digits of scalars, of ge.c and         *)
(* sc25519.c, for every number of bits.                                    *)
(***************************************************************************)
EXTENDS MemSize, Field, Digits, TLAPS

Num == INSTANCE NumberTheorems

-----------------------------------------------------------------------------
(* The sizes of memmgr. *)

\* Requests small enough for nbytes, rounded up and with a header, to fit an
\* unsigned long; and so does the smallest block taken from the pool.
NoWrap == MaxRequest + 2 * Header <= ULong /\ MinPoolAlloc * Header < ULong

SizeInv == BlockRight
           /\ asked \in Nat /\ got \in [at : Nat, size : Nat]

\* The number of quantas, times their size, is the request and its header
\* rounded up.
LEMMA QuantasBounds ==
  ASSUME NoWrap, NEW nbytes \in 0 .. MaxRequest
  PROVE  /\ nquantas(nbytes) \in Nat \ {0}
         /\ nbytes <= (nquantas(nbytes) - 1) * Header
         /\ (nquantas(nbytes) - 1) * Header < nbytes + Header
<1> DEFINE a == nbytes + Header - 1
           d == a \div Header
<1>1. a \in Nat /\ a < ULong /\ Header \in Nat \ {0} /\ nbytes \in Nat
  BY SizeAssumption DEF NoWrap
<1>2. a % ULong = a
  BY <1>1, SizeAssumption
<1>3. nquantas(nbytes) = d + 1
  BY <1>2 DEF nquantas
<1> HIDE DEF a
<1>4. d \in Nat /\ d * Header <= a /\ a < (d + 1) * Header
  BY <1>1
<1> HIDE DEF d
<1>5. (d + 1) * Header = d * Header + Header /\ d * Header \in Nat
  BY <1>1, <1>4
<1> QED BY <1>1, <1>3, <1>4, <1>5 DEF a

\* Neither does the size of a block from the pool wrap around.
LEMMA PoolBytes ==
  ASSUME NoWrap, NEW nbytes \in 0 .. MaxRequest
  PROVE  LET n == nquantas(nbytes)
             m == pool_quantas(n)
         IN  /\ m \in Nat /\ n <= m
             /\ total_req_size(n) = m * Header
<1> DEFINE n == nquantas(nbytes)
           m == pool_quantas(n)
<1>1. n \in Nat \ {0} /\ (n - 1) * Header < nbytes + Header
  BY QuantasBounds
<1> HIDE DEF n
<1>2. n * Header = (n - 1) * Header + Header
  BY <1>1, SizeAssumption
<1>3. n * Header < ULong /\ MinPoolAlloc * Header < ULong
  BY <1>1, <1>2, SizeAssumption DEF NoWrap
<1>4. m \in Nat /\ n <= m /\ m * Header < ULong
  BY <1>1, <1>3, SizeAssumption DEF pool_quantas
<1>5. m * Header \in Nat /\ ULong \in Nat
  BY <1>4, SizeAssumption
<1>6. (m * Header) % ULong = m * Header
  BY <1>4, <1>5
<1> QED BY <1>4, <1>6 DEF total_req_size, n

\* For requests that do not wrap, what memmgr_alloc hands out houses the request
\* and lies in the pool, and rounding up costs less than a header.
THEOREM SizesRight ==
  ASSUME NoWrap
  PROVE  Spec => []BlockRight
<1>1. Init => SizeInv
  BY DEF Init, SizeInv, BlockRight, RequestHoused, BlockInPool, NoWaste, Refused
<1>2. SizeInv /\ [Next]_vars => SizeInv'
  <2> SUFFICES ASSUME SizeInv, [Next]_vars PROVE SizeInv'
    OBVIOUS
  <2>1. ASSUME NEW nbytes \in 0 .. MaxRequest, memmgr_alloc(nbytes) PROVE SizeInv'
    <3> DEFINE n == nquantas(nbytes)
               m == pool_quantas(n)
    <3>1. /\ n \in Nat \ {0}
          /\ nbytes <= (n - 1) * Header /\ (n - 1) * Header < nbytes + Header
      BY QuantasBounds
    <3>2. m \in Nat /\ n <= m /\ total_req_size(n) = m * Header
      BY PoolBytes
    <3>3. /\ asked' = nbytes /\ nbytes \in Nat
          /\ got' = IF m * Header <= PoolSize
                    THEN [at |-> (m - n) * Header, size |-> n] ELSE Refused
      BY <2>1, <3>2, SizeAssumption DEF memmgr_alloc
    <3> HIDE DEF n, m
    <3>4. (m - n) * Header \in Nat /\ (m - n) * Header + n * Header = m * Header
      BY <3>1, <3>2, SizeAssumption
    <3>5. CASE m * Header <= PoolSize
      <4>1. got'.at = (m - n) * Header /\ got'.size = n /\ got' \in [at : Nat, size : Nat]
        BY <3>1, <3>3, <3>4, <3>5
      <4> QED BY <3>1, <3>3, <3>4, <3>5, <4>1
              DEF SizeInv, BlockRight, RequestHoused, BlockInPool, NoWaste
    <3>6. CASE ~(m * Header <= PoolSize)
      BY <3>3, <3>6 DEF SizeInv, BlockRight, RequestHoused, BlockInPool, NoWaste, Refused
    <3> QED BY <3>5, <3>6
  <2>2. CASE UNCHANGED vars
    BY <2>2 DEF vars, SizeInv, BlockRight, RequestHoused, BlockInPool, NoWaste, Refused
  <2> QED BY <2>1, <2>2 DEF Next
<1>3. SizeInv => BlockRight
  BY DEF SizeInv
<1> QED BY <1>1, <1>2, <1>3, PTL DEF Spec

-----------------------------------------------------------------------------
(* The numbers in the limbs.  A carry changes two limbs, and the two changes  *)
(* cancel, or leave a multiple of the prime when the last limb is carried.   *)

Term(h) == [i \in Places |-> h[i] * 2^Weight(i)]

\* A limb begins where the one below it ends.
LEMMA Weights ==
  ASSUME Sized
  PROVE  /\ \A i \in Nat : Weight(i) \in Nat /\ Width(i) \in Nat \ {0}
         /\ \A i \in Nat : Weight(i + 1) = Weight(i) + Width(i)
         /\ Weight(0) = 0
<1>1. ASSUME NEW i \in Nat
      PROVE  /\ Weight(i) \in Nat /\ Width(i) \in Nat \ {0}
             /\ Weight(i + 1) = Weight(i) + Width(i)
  <2>1. PICK a \in Nat, b \in {0, 1} : i = 2 * a + b
    <3>1. i \div 2 \in Nat /\ i % 2 \in {0, 1} /\ i = 2 * (i \div 2) + (i % 2)
      OBVIOUS
    <3> QED BY <3>1
  <2>2. PICK D \in Nat \ {0} : D = Narrow
    BY DEF Sized
  <2>3. PICK M \in Nat : M = 2 * D + 1
    OBVIOUS
  <2>4. PICK x \in Nat : x = a * M
    OBVIOUS
  <2>5. i \div 2 = a /\ i % 2 = b /\ Weight(i) = a * M + b * (D + 1)
    BY <2>1, <2>2, <2>3 DEF Weight
  <2>6. CASE b = 0
    <3>1. (i + 1) \div 2 = a /\ (i + 1) % 2 = 1
      BY <2>1, <2>6
    <3>2. Weight(i) = x /\ Weight(i + 1) = x + (D + 1) /\ Width(i) = D + 1
      BY <2>2, <2>3, <2>4, <2>5, <2>6, <3>1 DEF Weight, Width
    <3> QED BY <3>2
  <2>7. CASE b = 1
    <3>1. (i + 1) \div 2 = a + 1 /\ (i + 1) % 2 = 0
      BY <2>1, <2>7
    <3>2. (a + 1) * M = x + M
      BY <2>4
    <3>3. Weight(i) = x + (D + 1) /\ Width(i) = D
      BY <2>2, <2>4, <2>5, <2>7 DEF Width
    <3>4. Weight(i + 1) = (a + 1) * M + 0 * (D + 1)
      BY <2>2, <2>3, <3>1 DEF Weight
    <3>5. 0 * (D + 1) = 0
      OBVIOUS
    <3> QED BY <2>3, <3>2, <3>3, <3>4, <3>5
  <2> QED BY <2>6, <2>7
<1>2. Weight(0) = 0
  BY DEF Weight, Sized
<1> QED BY <1>1, <1>2

\* The same of what the limbs count.
LEMMA Powers ==
  ASSUME Sized
  PROVE  \A i \in Nat : 2^Weight(i) \in Nat \ {0} /\ 2^Width(i) \in Nat \ {0}
                        /\ 2^(Width(i) - 1) \in Nat \ {0}
                        /\ 2^Weight(i + 1) = 2^Weight(i) * 2^Width(i)
<1> SUFFICES ASSUME NEW i \in Nat
             PROVE  2^Weight(i) \in Nat \ {0} /\ 2^Width(i) \in Nat \ {0}
                    /\ 2^(Width(i) - 1) \in Nat \ {0}
                    /\ 2^Weight(i + 1) = 2^Weight(i) * 2^Width(i)
  OBVIOUS
<1>1. PICK w \in Nat, d \in Nat \ {0} : w = Weight(i) /\ d = Width(i) /\ Weight(i + 1) = w + d
  BY Weights
<1>2. d - 1 \in Nat
  OBVIOUS
<1>3. 2^w \in Nat \ {0} /\ 2^d \in Nat \ {0} /\ 2^(d - 1) \in Nat \ {0} /\ 2^(w + d) = 2^w * 2^d
  BY <1>2, Num!PowerOfTwo
<1> QED BY <1>1, <1>3

LEMMA PlacesFinite ==
  ASSUME Sized
  PROVE  /\ Num!IsFiniteSet(Places) /\ Places \subseteq Nat
         /\ End \in Places /\ 0 \in Places /\ End # 0
<1>1. Limbs \in Nat \ {0, 1}
  BY DEF Sized
<1>2. PICK n \in Nat \ {0} : n = Limbs - 1
  BY <1>1
<1>3. Places = 0 .. n /\ End = n
  BY <1>2 DEF Places, End
<1>4. Num!IsFiniteSet(0 .. n)
  BY Num!FS_Interval
<1> QED BY <1>3, <1>4

\* The number in the limbs is the sum of their terms.
LEMMA Terms ==
  ASSUME Sized, NEW h \in Elements
  PROVE  /\ Num!Numbers(Term(h), Places)
         /\ Value(h) = Num!Total(Term(h), Places) /\ Value(h) \in Int
<1>1. \A i \in Places : 2^Weight(i) \in Nat
  BY Powers, PlacesFinite
<1>2. Num!Numbers(Term(h), Places)
  BY <1>1 DEF Term, Elements, Num!Numbers
<1> DEFINE F(it) == [A \in SUBSET Places |-> IF A = {} THEN 0
             ELSE Term(h)[CHOOSE x \in A : TRUE] + it[A \ {CHOOSE x \in A : TRUE}]]
           G(it) == [A \in SUBSET Places |-> IF A = {} THEN 0
             ELSE h[CHOOSE x \in A : TRUE] * 2^Weight(CHOOSE x \in A : TRUE)
                  + it[A \ {CHOOSE x \in A : TRUE}]]
<1>3. ASSUME NEW it PROVE F(it) = G(it)
  <2>1. ASSUME NEW A \in SUBSET Places, A # {}
        PROVE  Term(h)[CHOOSE x \in A : TRUE]
                 = h[CHOOSE x \in A : TRUE] * 2^Weight(CHOOSE x \in A : TRUE)
    <3>1. PICK y : y = CHOOSE x \in A : TRUE
      OBVIOUS
    <3>2. y \in Places
      BY <2>1, <3>1
    <3>3. Term(h)[y] = h[y] * 2^Weight(y)
      BY <3>2 DEF Term
    <3> QED BY <3>1, <3>3, Zenon
  <2> QED BY <2>1
<1>4. DOMAIN h = Places
  BY DEF Elements
<1>5. Value(h) = (CHOOSE it : it = G(it))[Places]
  BY <1>4, Zenon DEF Value, MapThenSumSet, MapThenFoldSet
<1>6. Num!Total(Term(h), Places) = (CHOOSE it : it = F(it))[Places]
  BY Zenon DEF Num!Total
<1>7. (CHOOSE it : it = F(it)) = (CHOOSE it : it = G(it))
  <2> HIDE DEF F, G
  <2> QED BY <1>3, Zenon
<1>8. Num!Total(Term(h), Places) \in Int
  BY <1>2, PlacesFinite, Num!TotalStep
<1>9. Value(h) = Num!Total(Term(h), Places)
  BY <1>5, <1>6, <1>7, Zenon
<1> QED BY <1>2, <1>8, <1>9

\* What a change of one limb does to the number.
LEMMA OneLimb ==
  ASSUME Sized, NEW h \in Elements, NEW i \in Places, NEW x \in Int
  PROVE  /\ [h EXCEPT ![i] = @ + x] \in Elements
         /\ Value([h EXCEPT ![i] = @ + x]) = Value(h) + x * 2^Weight(i)
<1> DEFINE g == [h EXCEPT ![i] = @ + x]
           R == Places \ {i}
<1>1. g \in Elements /\ g[i] = h[i] + x /\ h[i] \in Int /\ \A j \in R : g[j] = h[j]
  BY DEF Elements
<1> HIDE DEF g
<1>2. PICK p \in Nat : p = 2^Weight(i)
  BY Powers, PlacesFinite
<1>3. Term(g)[i] = (h[i] + x) * p /\ Term(h)[i] = h[i] * p
  BY <1>1, <1>2 DEF Term
<1>4. Num!Total(Term(g), R) = Num!Total(Term(h), R)
  <2>1. \A j \in R : Term(g)[j] = Term(h)[j]
    BY <1>1 DEF Term
  <2> HIDE DEF R
  <2> QED BY <2>1, Num!TotalEqual
<1>5. /\ Value(g) = Term(g)[i] + Num!Total(Term(g), R)
      /\ Value(h) = Term(h)[i] + Num!Total(Term(h), R)
  <2>1. /\ Value(g) = Num!Total(Term(g), Places) /\ Num!Numbers(Term(g), Places)
        /\ Value(h) = Num!Total(Term(h), Places) /\ Num!Numbers(Term(h), Places)
    BY <1>1, Terms
  <2> QED BY <2>1, PlacesFinite, Num!TotalStep
<1>6. Num!Total(Term(h), R) \in Int
  <2>1. Num!IsFiniteSet(R) /\ Num!Numbers(Term(h), R)
    <3>1. Num!Numbers(Term(h), Places)
      BY Terms
    <3> QED BY <3>1, PlacesFinite, Num!FS_Subset DEF Num!Numbers
  <2> QED BY <2>1, Num!TotalStep
<1>7. (h[i] + x) * p = h[i] * p + x * p /\ h[i] * p \in Int /\ x * p \in Int
  BY <1>1, <1>2
<1>8. PICK t \in Int : t = Num!Total(Term(h), R)
  BY <1>6
<1>9. Value(g) = (h[i] + x) * p + t /\ Value(h) = h[i] * p + t
  BY <1>3, <1>4, <1>5, <1>8, Zenon
<1>10. Value(g) = Value(h) + x * p
  BY <1>7, <1>8, <1>9
<1> QED BY <1>1, <1>2, <1>10 DEF g

\* A carry keeps the number, modulo the prime.
LEMMA CarryKeeps ==
  ASSUME Sized, NEW h \in Elements, NEW i \in Places
  PROVE  Carry(h, i) \in Elements /\ Value(Carry(h, i)) % Prime = Value(h) % Prime
<1>1. PICK w \in Nat \ {0}, d \in Nat \ {0}, half \in Nat \ {0} :
        /\ w = 2^Weight(i) /\ d = 2^Width(i) /\ half = 2^(Width(i) - 1) /\ 2^Weight(i + 1) = w * d
  BY Powers, PlacesFinite
<1>2. h[i] \in Int
  BY DEF Elements
<1>3. PICK c \in Int : c = (h[i] + half) \div d
  BY <1>1, <1>2
<1>4. PICK x \in Int : x = -(c * d)
  BY <1>1, <1>3
<1> DEFINE r == [h EXCEPT ![i] = @ + x]
<1>5. r = [h EXCEPT ![i] = @ - c * 2^Width(i)]
  <2>1. h[i] + x = h[i] - c * d
    BY <1>1, <1>2, <1>3, <1>4
  <2> QED BY <1>1, <2>1
<1>6. r \in Elements /\ Value(r) = Value(h) + x * w
  BY <1>1, OneLimb
<1>7. Carry(h, i) = IF i = End THEN [r EXCEPT ![0] = @ + Fold * c] ELSE [r EXCEPT ![i + 1] = @ + c]
  BY <1>1, <1>3, <1>5 DEF Carry
<1> HIDE DEF r
<1>8. PICK v \in Int : v = Value(h)
  BY Terms
<1>9. PICK y \in Int : y = (c * d) * w
  BY <1>1, <1>3
<1>10. Value(r) = v - y
  <2>1. x * w = -y
    <3>1. (-(c * d)) * w = -((c * d) * w)
      BY <1>1, <1>3
    <3> QED BY <1>4, <1>9, <3>1
  <2> QED BY <1>6, <1>8, <1>9, <2>1
<1>11. CASE i # End
  <2>1. i + 1 \in Places
    BY <1>11 DEF Places, End, Sized
  <2>2. /\ [r EXCEPT ![i + 1] = @ + c] \in Elements
        /\ Value([r EXCEPT ![i + 1] = @ + c]) = Value(r) + c * 2^Weight(i + 1)
    BY <1>3, <1>6, <2>1, OneLimb
  <2>3. c * (w * d) = y
    <3>1. c * (w * d) = (c * d) * w
      BY <1>1, <1>3
    <3> QED BY <1>9, <3>1
  <2>4. Value([r EXCEPT ![i + 1] = @ + c]) = (v - y) + y
    BY <1>1, <1>10, <2>2, <2>3, Zenon
  <2>5. (v - y) + y = v
    BY <1>8, <1>9
  <2> QED BY <1>7, <1>8, <1>11, <2>2, <2>4, <2>5
<1>12. CASE i = End
  <2>1. PICK m \in Nat \ {0} : m = Prime
    BY DEF Sized
  <2>2. PICK k \in Int, f \in Int : f = Fold /\ k = f * c
    BY <1>3 DEF Sized
  <2>3. w * d = m + f
    <3>1. End + 1 = Limbs
      BY DEF End, Sized
    <3>2. w * d \in Int /\ m = w * d - f
      BY <1>1, <1>12, <2>1, <2>2, <3>1 DEF Prime
    <3> QED BY <2>1, <2>2, <3>2
  <2>4. y = c * m + k
    <3>1. (c * d) * w = c * (w * d) /\ c * (m + f) = c * m + f * c
      BY <1>1, <1>3, <2>1, <2>2
    <3> QED BY <1>9, <2>2, <2>3, <3>1
  <2>5. /\ [r EXCEPT ![0] = @ + k] \in Elements
        /\ Value([r EXCEPT ![0] = @ + k]) = Value(r) + k * 2^Weight(0)
    BY <1>6, <2>2, PlacesFinite, OneLimb
  <2>6. k * 2^Weight(0) = k
    <3>1. 2^Weight(0) = 1
      BY Weights, Num!PowerOfTwo
    <3> QED BY <2>2, <3>1
  <2>7. PICK u \in Int : u = Value([r EXCEPT ![0] = @ + k])
    BY <2>5, Terms
  <2>8. u = v + (-c) * m
    <3>1. c * m \in Int /\ (-c) * m = -(c * m)
      BY <1>3, <2>1
    <3>2. u = (v - y) + k
      BY <1>10, <2>5, <2>6, <2>7, Zenon
    <3> QED BY <1>8, <1>9, <2>2, <2>4, <3>1, <3>2
  <2>9. u % m = v % m
    <3>1. PICK q \in Int : q = -c
      BY <1>3
    <3>2. u = v + q * m
      BY <2>8, <3>1, Zenon
    <3>3. \E p \in Int : u = v + p * m
      BY <3>2
    <3> QED BY <3>3, Num!SameRemainder
  <2> QED BY <1>7, <1>8, <1>12, <2>1, <2>2, <2>5, <2>7, <2>9
<1> QED BY <1>11, <1>12

\* Carries in any order keep it.
LEMMA CarriesKeep ==
  ASSUME Sized, NEW h \in Elements, NEW order \in Seq(Places)
  PROVE  /\ FoldLeft(Carry, h, order) \in Elements
         /\ Value(FoldLeft(Carry, h, order)) % Prime = Value(h) % Prime
<1> DEFINE n == Len(order)
           F == [k \in 1 .. n |-> [g \in Elements |-> Carry(g, order[k])]]
           Body(it) == [A \in SUBSET (1 .. n) |->
                          IF A = {} THEN h ELSE Carry(it[A \ {Num!Highest(A)}], order[Num!Highest(A)])]
           fold == CHOOSE it : it = Body(it)
<1>1. n \in Nat /\ DOMAIN order = 1 .. n /\ \A k \in 1 .. n : order[k] \in Places
  OBVIOUS
<1>2. F \in [1 .. n -> [Elements -> Elements]]
  BY <1>1, CarryKeeps
<1>3. PICK it \in [SUBSET (1 .. n) -> Elements] : Num!FoldsUp(it, Elements, n, h, F)
  <2> HIDE DEF n, F
  <2> QED BY <1>1, <1>2, Num!FoldUpExists
<1>4. it = Body(it)
  <2>1. ASSUME NEW A \in SUBSET (1 .. n), A # {}
        PROVE  F[Num!Highest(A)][it[A \ {Num!Highest(A)}]] = Carry(it[A \ {Num!Highest(A)}], order[Num!Highest(A)])
    <3>1. PICK k : k = Num!Highest(A)
      OBVIOUS
    <3>2. k \in A
      <4> HIDE DEF n
      <4> QED BY <1>1, <2>1, <3>1, Num!HighestOf
    <3>3. F[k][it[A \ {k}]] = Carry(it[A \ {k}], order[k])
      BY <3>2
    <3> QED BY <3>1, <3>3, Zenon
  <2> HIDE DEF F
  <2> QED BY <1>3, <2>1 DEF Num!FoldsUp
<1>5. FoldLeft(Carry, h, order) = fold[1 .. n]
  BY <1>1, Zenon DEF FoldLeft, MapThenFoldSet, Num!Highest, Max
<1>6. fold = Body(fold)
  <2> HIDE DEF Body
  <2> QED BY <1>4
<1> HIDE DEF fold
<1> DEFINE S == {k \in 0 .. n : fold[1 .. k] \in Elements
                                /\ Value(fold[1 .. k]) % Prime = Value(h) % Prime}
<1>7. 0 \in S
  <2>1. 1 .. 0 = {} /\ {} \in SUBSET (1 .. n)
    OBVIOUS
  <2>2. fold[{}] = h
    BY <1>6, <2>1
  <2> QED BY <1>1, <2>1, <2>2
<1>8. ASSUME NEW k \in 0 .. n - 1, k \in S PROVE k + 1 \in S
  <2>1. PICK j \in 1 .. n : j = k + 1 /\ j - 1 = k
    BY <1>1
  <2>2. /\ 1 .. j \in SUBSET (1 .. n) /\ 1 .. j # {} /\ Num!Highest(1 .. j) = j
        /\ (1 .. j) \ {j} = 1 .. j - 1
    BY <1>1, <2>1, Num!Prefixes
  <2>3. fold[1 .. j] = Carry(fold[1 .. k], order[j])
    <3>1. fold[1 .. j] = Carry(fold[(1 .. j) \ {Num!Highest(1 .. j)}], order[Num!Highest(1 .. j)])
      BY <1>6, <2>2
    <3> QED BY <2>1, <2>2, <3>1, Zenon
  <2>4. order[j] \in Places
    BY <1>1
  <2>5. /\ Carry(fold[1 .. k], order[j]) \in Elements
        /\ Value(Carry(fold[1 .. k], order[j])) % Prime = Value(fold[1 .. k]) % Prime
    BY <1>8, <2>4, CarryKeeps
  <2>6. j \in 0 .. n
    BY <2>1
  <2> QED BY <1>8, <2>1, <2>3, <2>5, <2>6
<1>9. n \in S
  <2> HIDE DEF S
  <2>1. 0 .. n \subseteq S
    <3> HIDE DEF n
    <3> QED BY <1>1, <1>7, <1>8, Num!UpTo
  <2> QED BY <1>1, <2>1
<1> QED BY <1>5, <1>9

-----------------------------------------------------------------------------
(* Products: what two limbs give counts as much, modulo the prime, as the    *)
(* place that it is added to.                                                *)

\* Two odd places meet one bit above the place of their sum.
LEMMA WeightsAdd ==
  ASSUME Sized, NEW i \in Nat, NEW j \in Nat
  PROVE  Weight(i) + Weight(j) = Weight(i + j) + (IF i % 2 = 1 /\ j % 2 = 1 THEN 1 ELSE 0)
<1>1. PICK D \in Nat \ {0}, M \in Nat : D = Narrow /\ M = 2 * D + 1
  BY DEF Sized
<1>2. PICK a \in Nat, b \in {0, 1} : i = 2 * a + b /\ a = i \div 2 /\ b = i % 2
  <2>1. i \div 2 \in Nat /\ i % 2 \in {0, 1} /\ i = 2 * (i \div 2) + (i % 2)
    OBVIOUS
  <2> QED BY <2>1
<1>3. PICK c \in Nat, d \in {0, 1} : j = 2 * c + d /\ c = j \div 2 /\ d = j % 2
  <2>1. j \div 2 \in Nat /\ j % 2 \in {0, 1} /\ j = 2 * (j \div 2) + (j % 2)
    OBVIOUS
  <2> QED BY <2>1
<1>4. PICK x \in Nat, y \in Nat : x = a * M /\ y = c * M /\ (a + c) * M = x + y
  OBVIOUS
<1>5. Weight(i) = x + b * (D + 1) /\ Weight(j) = y + d * (D + 1)
  BY <1>1, <1>2, <1>3, <1>4 DEF Weight
<1>6. CASE b + d < 2
  <2>1. (i + j) \div 2 = a + c /\ (i + j) % 2 = b + d
    BY <1>2, <1>3, <1>6
  <2>2. Weight(i + j) = (a + c) * M + (b + d) * (D + 1)
    BY <1>1, <2>1 DEF Weight
  <2>3. (b + d) * (D + 1) = b * (D + 1) + d * (D + 1)
    OBVIOUS
  <2> QED BY <1>2, <1>3, <1>4, <1>5, <1>6, <2>2, <2>3
<1>7. CASE b = 1 /\ d = 1
  <2>1. (i + j) \div 2 = a + c + 1 /\ (i + j) % 2 = 0
    BY <1>2, <1>3, <1>7
  <2>2. Weight(i + j) = (a + c + 1) * M + 0 * (D + 1)
    BY <1>1, <2>1 DEF Weight
  <2>3. (a + c + 1) * M = (a + c) * M + M /\ 0 * (D + 1) = 0 /\ 1 * (D + 1) = D + 1
    OBVIOUS
  <2>4. Weight(i + j) = x + y + M /\ Weight(i) = x + D + 1 /\ Weight(j) = y + D + 1
    BY <1>4, <1>5, <1>7, <2>2, <2>3
  <2> QED BY <1>1, <1>2, <1>3, <1>7, <2>4
<1> QED BY <1>2, <1>3, <1>6, <1>7

\* The weights of two places make the weight of the place where they meet.
LEMMA PlacesMeet ==
  ASSUME Sized, NEW i \in Places, NEW j \in Places, NEW k \in Places,
         k = i + j \/ k + Limbs = i + j
  PROVE  \E q \in Int : Coefficient(i, j) * 2^Weight(k) = 2^Weight(i) * 2^Weight(j) + q * Prime
<1>1. PICK L \in Nat \ {0} : L = Limbs /\ L % 2 = 0
  BY DEF Sized
<1>2. i \in 0 .. L - 1 /\ j \in 0 .. L - 1 /\ k \in 0 .. L - 1
  BY <1>1 DEF Places
<1>3. PICK e \in {0, 1}, b \in {1, 2} :
        e = (IF i % 2 = 1 /\ j % 2 = 1 THEN 1 ELSE 0) /\ b = 2^e
        /\ b = IF i % 2 = 1 /\ j % 2 = 1 THEN 2 ELSE 1
  BY Num!PowerOfTwo
<1>4. PICK u \in Nat, v \in Nat, w \in Nat, z \in Nat :
        u = Weight(i) /\ v = Weight(j) /\ w = Weight(k) /\ z = Weight(L)
  <2>1. i \in Nat /\ j \in Nat /\ k \in Nat /\ L \in Nat
    BY <1>2
  <2>2. \A n \in Nat : Weight(n) \in Nat
    BY Weights
  <2> QED BY <2>1, <2>2
<1>5. PICK pu \in Nat \ {0}, pv \in Nat \ {0}, pw \in Nat \ {0}, pz \in Nat \ {0} :
        pu = 2^u /\ pv = 2^v /\ pw = 2^w /\ pz = 2^z
  BY Num!PowerOfTwo
<1>6. PICK m \in Nat \ {0}, f \in Int : m = Prime /\ f = Fold /\ pz = m + f
  <2>1. PICK m \in Nat \ {0}, f \in Int : m = Prime /\ f = Fold
    BY DEF Sized
  <2>2. m = pz - f
    BY <1>1, <1>4, <1>5, <2>1 DEF Prime
  <2> QED BY <2>1, <2>2
<1>7. CASE k = i + j
  <2>1. u + v = w + e
    BY <1>2, <1>3, <1>4, <1>7, WeightsAdd
  <2>2. pu * pv = pw * b
    <3>1. 2^(u + v) = pu * pv
      BY <1>5, Num!PowerOfTwo
    <3>2. 2^(w + e) = 2^w * 2^e
      <4>1. e \in Nat
        OBVIOUS
      <4> QED BY <4>1, Num!PowerOfTwo
    <3>3. 2^(w + e) = pw * b
      BY <1>3, <1>5, <3>2, Zenon
    <3> QED BY <2>1, <3>1, <3>3, Zenon
  <2>3. Coefficient(i, j) = b
    <3>1. ~(i + j >= Limbs)
      BY <1>1, <1>2, <1>7
    <3> QED BY <1>3, <3>1 DEF Coefficient
  <2>4. b * pw = pu * pv + 0 * m
    BY <1>5, <1>6, <2>2
  <2>5. Coefficient(i, j) * 2^Weight(k) = 2^Weight(i) * 2^Weight(j) + 0 * Prime
    BY <1>4, <1>5, <1>6, <2>3, <2>4, Zenon
  <2> QED BY <2>5
<1>8. CASE k + L = i + j
  <2>1. u + v = w + z + e
    <3>1. u + v = Weight(i + j) + e
      BY <1>2, <1>3, <1>4, WeightsAdd
    <3>2. w + z = Weight(k + L) + (IF k % 2 = 1 /\ L % 2 = 1 THEN 1 ELSE 0)
      BY <1>2, <1>4, WeightsAdd
    <3>3. w + z = Weight(k + L)
      <4>1. Weight(k + L) \in Nat
        BY <1>2, Weights
      <4> QED BY <1>1, <3>2, <4>1
    <3>4. Weight(k + L) = Weight(i + j)
      BY <1>8, Zenon
    <3> QED BY <1>4, <3>1, <3>3, <3>4
  <2>2. pu * pv = pw * pz * b
    <3>1. 2^(u + v) = pu * pv /\ 2^(w + z) = pw * pz
      BY <1>4, <1>5, Num!PowerOfTwo
    <3>2. 2^((w + z) + e) = 2^(w + z) * b
      <4>1. PICK y \in Nat : y = w + z
        OBVIOUS
      <4>2. e \in Nat /\ 2^(y + e) = 2^y * 2^e
        BY Num!PowerOfTwo
      <4> QED BY <1>3, <4>1, <4>2, Zenon
    <3> QED BY <2>1, <3>1, <3>2, Zenon
  <2>3. Coefficient(i, j) = b * f
    <3>1. i + j >= Limbs
      BY <1>1, <1>2, <1>8
    <3> QED BY <1>3, <1>6, <3>1 DEF Coefficient
  <2>4. PICK q \in Int : q = -(b * pw)
    OBVIOUS
  <2>5. (b * f) * pw = pu * pv + q * m
    <3>1. pw * (m + f) * b = (b * f) * pw + (b * pw) * m
      BY <1>5, <1>6
    <3>2. q * m = -((b * pw) * m)
      BY <1>6, <2>4
    <3>3. pu * pv = pw * (m + f) * b
      BY <1>6, <2>2, Zenon
    <3>4. PICK s \in Int, t \in Int : s = (b * f) * pw /\ t = (b * pw) * m
      BY <1>6
    <3>5. pu * pv = s + t /\ q * m = -t
      BY <3>1, <3>2, <3>3, <3>4, Zenon
    <3> QED BY <3>4, <3>5
  <2>6. Coefficient(i, j) * 2^Weight(k) = 2^Weight(i) * 2^Weight(j) + q * Prime
    BY <1>4, <1>5, <1>6, <2>3, <2>5, Zenon
  <2> QED BY <2>6
<1> QED BY <1>1, <1>7, <1>8

\* Which place meets i in k.
LEMMA Across ==
  ASSUME Sized, NEW i \in Places, NEW k \in Places
  PROVE  LET j == (k - i) % Limbs
         IN  j \in Places /\ (k = i + j \/ k + Limbs = i + j)
<1>1. PICK L \in Nat \ {0} : L = Limbs
  BY DEF Sized
<1>2. i \in 0 .. L - 1 /\ k \in 0 .. L - 1 /\ Places = 0 .. L - 1
  BY <1>1 DEF Places
<1>3. PICK x \in Int : x = k - i
  BY <1>2
<1>4. CASE k >= i
  <2>1. x % L = x
    BY <1>2, <1>3, <1>4
  <2> QED BY <1>1, <1>2, <1>3, <1>4, <2>1
<1>5. CASE k < i
  <2>1. PICK y \in 0 .. L - 1 : y = x + L
    BY <1>2, <1>3, <1>5
  <2>2. y % L = y
    OBVIOUS
  <2>3. \E q \in Int : y = x + q * L
    <3>1. y = x + 1 * L
      BY <2>1
    <3> QED BY <3>1
  <2>4. y % L = x % L
    <3>1. y \in Int
      OBVIOUS
    <3> QED BY <2>3, <3>1, Num!SameRemainder
  <2>5. x % L = y
    BY <2>2, <2>4
  <2> QED BY <1>1, <1>2, <1>3, <2>1, <2>5
<1> QED BY <1>2, <1>4, <1>5

\* what each limb of f adds to limb k of the product
Part(f, g, k) == [i \in Places |-> LET j == (k - i) % Limbs IN Coefficient(i, j) * f[i] * g[j]]

\* The limbs of Product are the sums of these.
LEMMA Parts ==
  ASSUME Sized, NEW f \in Elements, NEW g \in Elements
  PROVE  /\ \A k \in Places : Num!Numbers(Part(f, g, k), Places)
         /\ Product(f, g) = [k \in Places |-> Num!Total(Part(f, g, k), Places)]
         /\ Product(f, g) \in Elements
<1>1. ASSUME NEW k \in Places PROVE Num!Numbers(Part(f, g, k), Places)
  <2> SUFFICES ASSUME NEW i \in Places PROVE Part(f, g, k)[i] \in Int
    BY DEF Num!Numbers
  <2>1. PICK j \in Places : j = (k - i) % Limbs
    BY Across
  <2>2. PICK c \in Int : c = Coefficient(i, j)
    BY DEF Coefficient, Sized
  <2>3. f[i] \in Int /\ g[j] \in Int
    BY DEF Elements
  <2>4. Part(f, g, k)[i] = c * f[i] * g[j]
    BY <2>1, <2>2 DEF Part
  <2> QED BY <2>3, <2>4
<1>2. ASSUME NEW k \in Places
      PROVE  MapThenSumSet(LAMBDA i : LET j == (k - i) % Limbs IN Coefficient(i, j) * f[i] * g[j],
                           Places) = Num!Total(Part(f, g, k), Places)
  <2> DEFINE t(i) == Coefficient(i, (k - i) % Limbs) * f[i] * g[(k - i) % Limbs]
             F(it) == [A \in SUBSET Places |-> IF A = {} THEN 0
               ELSE Part(f, g, k)[CHOOSE x \in A : TRUE] + it[A \ {CHOOSE x \in A : TRUE}]]
             G(it) == [A \in SUBSET Places |-> IF A = {} THEN 0
               ELSE t(CHOOSE x \in A : TRUE) + it[A \ {CHOOSE x \in A : TRUE}]]
  <2>1. ASSUME NEW it PROVE F(it) = G(it)
    <3>1. ASSUME NEW A \in SUBSET Places, A # {}
          PROVE  Part(f, g, k)[CHOOSE x \in A : TRUE] = t(CHOOSE x \in A : TRUE)
      <4>1. PICK y : y = CHOOSE x \in A : TRUE
        OBVIOUS
      <4>2. y \in Places
        BY <3>1, <4>1
      <4>3. Part(f, g, k)[y] = t(y)
        BY <4>2 DEF Part
      <4> HIDE DEF t
      <4> QED BY <4>1, <4>3, Zenon
    <3> HIDE DEF t
    <3> QED BY <3>1
  <2>2. MapThenSumSet(LAMBDA i : LET j == (k - i) % Limbs IN Coefficient(i, j) * f[i] * g[j],
                      Places) = (CHOOSE it : it = G(it))[Places]
    BY Zenon DEF MapThenSumSet, MapThenFoldSet
  <2>3. Num!Total(Part(f, g, k), Places) = (CHOOSE it : it = F(it))[Places]
    BY Zenon DEF Num!Total
  <2>4. (CHOOSE it : it = F(it)) = (CHOOSE it : it = G(it))
    <3> HIDE DEF F, G
    <3> QED BY <2>1, Zenon
  <2> HIDE DEF F, G
  <2> QED BY <2>2, <2>3, <2>4, Zenon
<1>3. Product(f, g) = [k \in Places |-> Num!Total(Part(f, g, k), Places)]
  BY <1>2 DEF Product
<1>4. \A k \in Places : Num!Total(Part(f, g, k), Places) \in Int
  BY <1>1, PlacesFinite, Num!TotalStep
<1>5. Product(f, g) \in Elements
  BY <1>3, <1>4 DEF Elements
<1> QED BY <1>1, <1>3, <1>5

\* The limbs of a product, before they are carried, are the product of the numbers.
LEMMA ProductKeeps ==
  ASSUME Sized, NEW f \in Elements, NEW g \in Elements
  PROVE  Value(Product(f, g)) % Prime = (Value(f) * Value(g)) % Prime
<1>1. PICK m \in Nat \ {0} : m = Prime
  BY DEF Sized
<1>2. PICK a \in Int, b \in Int : a = Value(f) /\ b = Value(g)
  BY Terms
<1>3. /\ Num!IsFiniteSet(Places) /\ Places \subseteq Nat
      /\ Num!Numbers(Term(f), Places) /\ a = Num!Total(Term(f), Places)
      /\ Num!Numbers(Term(g), Places) /\ b = Num!Total(Term(g), Places)
  BY <1>2, PlacesFinite, Terms
<1>4. \A i \in Places : 2^Weight(i) \in Nat \ {0} /\ f[i] \in Int /\ g[i] \in Int
  BY <1>3, Powers DEF Elements
<1> DEFINE F == [k \in Places |-> [i \in Places |-> Part(f, g, k)[i] * 2^Weight(k)]]
           row(k) == [i \in Places |-> F[k][i]]
           column(i) == [k \in Places |-> F[k][i]]
           Columns == [i \in Places |-> Num!Total(column(i), Places)]
           Whole == [i \in Places |-> Term(f)[i] * b]
<1>5. \A k, i \in Places : F[k][i] \in Int
  BY <1>4, Parts DEF Num!Numbers
<1>6. \A k \in Places : Term(Product(f, g))[k] = Num!Total(row(k), Places)
  <2> SUFFICES ASSUME NEW k \in Places
               PROVE  Term(Product(f, g))[k] = Num!Total(row(k), Places)
    OBVIOUS
  <2>1. PICK p \in Int : p = 2^Weight(k)
    BY <1>4
  <2>2. PICK t \in Int : t = Num!Total(Part(f, g, k), Places)
    BY <1>3, Parts, Num!TotalStep
  <2>3. Term(Product(f, g))[k] = t * p
    <3>1. Product(f, g)[k] = t
      BY <2>2, Parts
    <3> QED BY <2>1, <3>1 DEF Term
  <2>4. \A i \in Places : row(k)[i] = p * Part(f, g, k)[i]
    <3> SUFFICES ASSUME NEW i \in Places PROVE row(k)[i] = p * Part(f, g, k)[i]
      OBVIOUS
    <3>1. PICK z \in Int : z = Part(f, g, k)[i]
      BY Parts DEF Num!Numbers
    <3>2. row(k)[i] = z * p
      BY <2>1, <3>1
    <3>3. z * p = p * z
      OBVIOUS
    <3> QED BY <3>1, <3>2, <3>3, Zenon
  <2>5. Num!Total(row(k), Places) = p * t
    <3>1. PICK q, r : q = Part(f, g, k) /\ r = row(k)
      OBVIOUS
    <3>2. Num!Numbers(q, Places)
      BY <3>1, Parts
    <3>3. \A i \in Places : r[i] = p * q[i]
      BY <2>4, <3>1, Zenon
    <3>4. Num!Total(r, Places) = p * Num!Total(q, Places)
      BY <1>3, <3>2, <3>3, Num!TotalScaled
    <3> HIDE DEF F, row
    <3> QED BY <2>2, <3>1, <3>4, Zenon
  <2>6. t * p = p * t
    OBVIOUS
  <2> HIDE DEF F, row
  <2> QED BY <2>3, <2>5, <2>6, Zenon
<1>7. Value(Product(f, g)) = Num!Total([k \in Places |-> Num!Total(row(k), Places)], Places)
  <2>1. Value(Product(f, g)) = Num!Total(Term(Product(f, g)), Places)
    BY Parts, Terms
  <2>2. Num!Total(Term(Product(f, g)), Places)
          = Num!Total([k \in Places |-> Num!Total(row(k), Places)], Places)
    <3> HIDE DEF row
    <3> QED BY <1>6, Num!TotalEqual
  <2> QED BY <2>1, <2>2, Zenon
<1>8. Value(Product(f, g)) = Num!Total(Columns, Places)
  <2>1. Num!Total([k \in Places |-> Num!Total(row(k), Places)], Places) = Num!Total(Columns, Places)
    <3> HIDE DEF F
    <3> QED BY <1>3, <1>5, Num!TotalSwapped
  <2> HIDE DEF row, Columns
  <2> QED BY <1>7, <2>1, Zenon
<1>9. ASSUME NEW i \in Places
      PROVE  /\ Columns[i] \in Int /\ Whole[i] \in Int
             /\ Columns[i] % m = Whole[i] % m
  <2> DEFINE p == [k \in Places |-> (k - i) % Limbs]
             At(j) == IF i + j < Limbs THEN i + j ELSE i + j - Limbs
             moved == [j \in Places |-> F[At(j)][i]]
             times == [j \in Places |-> Term(f)[i] * Term(g)[j]]
  <2>1. PICK L \in Nat \ {0} : L = Limbs /\ Places = 0 .. L - 1
    BY DEF Sized, Places
  <2>2. \A k \in Places : p[k] \in Places /\ (k = i + p[k] \/ k + L = i + p[k])
    BY <2>1, Across
  <2>3. \A k \in Places : At(p[k]) = k
    <3> SUFFICES ASSUME NEW k \in Places PROVE At(p[k]) = k
      OBVIOUS
    <3>1. PICK j \in Places : j = p[k] /\ (k = i + j \/ k + L = i + j)
      BY <2>2
    <3>2. At(j) = k
      BY <2>1, <3>1
    <3> HIDE DEF p, At
    <3> QED BY <3>1, <3>2
  <2>4. \A j \in Places : At(j) \in Places /\ p[At(j)] = j
    <3> SUFFICES ASSUME NEW j \in Places PROVE At(j) \in Places /\ p[At(j)] = j
      OBVIOUS
    <3>1. PICK k \in Places : k = At(j)
      <4>1. i \in 0 .. L - 1 /\ j \in 0 .. L - 1
        BY <2>1
      <4>2. At(j) \in 0 .. L - 1
        BY <2>1, <4>1
      <4> HIDE DEF At
      <4> QED BY <2>1, <4>2
    <3>2. PICK l \in Places : l = p[k] /\ (k = i + l \/ k + L = i + l)
      BY <2>2
    <3>3. l = j
      BY <2>1, <3>1, <3>2
    <3> HIDE DEF p, At
    <3> QED BY <3>1, <3>2, <3>3
  <2>5. Num!Total(column(i), Places) = Num!Total(moved, Places)
    <3>1. p \in [Places -> Places]
      BY <2>2
    <3>2. \A x, y \in Places : p[x] = p[y] => x = y
      <4> HIDE DEF p, At
      <4> QED BY <2>3
    <3>3. \A y \in Places : \E x \in Places : p[x] = y
      <4> HIDE DEF p, At
      <4> QED BY <2>4
    <3>4. \A x \in Places : column(i)[x] = moved[p[x]]
      <4> HIDE DEF p, At, F
      <4> QED BY <2>2, <2>3
    <3>5. Num!Numbers(moved, Places)
      <4> HIDE DEF p, At, F
      <4> QED BY <1>5, <2>4 DEF Num!Numbers
    <3>6. PICK q, r, t : q = p /\ r = column(i) /\ t = moved
      OBVIOUS
    <3>7. /\ q \in [Places -> Places] /\ Num!Numbers(t, Places)
          /\ \A x, y \in Places : q[x] = q[y] => x = y
          /\ \A y \in Places : \E x \in Places : q[x] = y
          /\ \A x \in Places : r[x] = t[q[x]]
      <4> HIDE DEF p, moved, column
      <4> QED BY <3>1, <3>2, <3>3, <3>4, <3>5, <3>6, Zenon
    <3>8. Num!Total(r, Places) = Num!Total(t, Places)
      <4>1. PICK P : P = Places
        OBVIOUS
      <4>2. /\ Num!IsFiniteSet(P) /\ q \in [P -> P] /\ Num!Numbers(t, P)
            /\ \A x, y \in P : q[x] = q[y] => x = y
            /\ \A y \in P : \E x \in P : q[x] = y
            /\ \A x \in P : r[x] = t[q[x]]
        BY <1>3, <3>7, <4>1, Zenon
      <4>3. Num!Total(r, P) = Num!Total(t, P)
        BY <4>2, Num!TotalMoved
      <4> QED BY <4>1, <4>3
    <3> HIDE DEF p, moved, column
    <3> QED BY <3>6, <3>8, Zenon
  <2>6. \A j \in Places : moved[j] \in Int /\ times[j] \in Int /\ moved[j] % m = times[j] % m
    <3> SUFFICES ASSUME NEW j \in Places
                 PROVE  moved[j] \in Int /\ times[j] \in Int /\ moved[j] % m = times[j] % m
      OBVIOUS
    <3>1. PICK k \in Places : k = At(j) /\ p[k] = j /\ (k = i + j \/ k + L = i + j)
      <4>1. At(j) \in Places /\ p[At(j)] = j
        BY <2>4
      <4> HIDE DEF p, At
      <4> QED BY <2>2, <4>1
    <3>2. PICK c \in Int : c = Coefficient(i, j)
      BY DEF Coefficient, Sized
    <3>3. PICK x \in Int, y \in Int : x = f[i] /\ y = g[j]
      BY <1>4
    <3>4. PICK wi \in Int, wj \in Int, wk \in Int :
            wi = 2^Weight(i) /\ wj = 2^Weight(j) /\ wk = 2^Weight(k)
      BY <1>4
    <3>5. PICK q \in Int : c * wk = wi * wj + q * m
      <4>1. \E q \in Int : Coefficient(i, j) * 2^Weight(k) = 2^Weight(i) * 2^Weight(j) + q * Prime
        <5>1. k = i + j \/ k + Limbs = i + j
          BY <2>1, <3>1, Zenon
        <5> QED BY <5>1, PlacesMeet
      <4> QED BY <1>1, <3>2, <3>4, <4>1, Zenon
    <3>6. moved[j] = c * x * y * wk
      <4>1. Part(f, g, k)[i] = c * x * y
        <5>1. (k - i) % Limbs = j
          BY <3>1
        <5> QED BY <3>2, <3>3, <5>1 DEF Part
      <4>2. moved[j] = F[k][i]
        <5> HIDE DEF F, At
        <5> QED BY <3>1
      <4> QED BY <3>4, <4>1, <4>2
    <3>7. times[j] = (x * wi) * (y * wj)
      BY <3>3, <3>4 DEF Term
    <3>8. PICK s \in Int, t \in Int : s = (c * x * y) * wk /\ t = (x * wi) * (y * wj)
      OBVIOUS
    <3>9. s = t + ((x * y) * q) * m
      <4>1. (c * x * y) * wk = (x * y) * (c * wk)
        OBVIOUS
      <4>2. (x * y) * (wi * wj + q * m) = (x * wi) * (y * wj) + ((x * y) * q) * m
        BY <1>1
      <4>3. (x * y) * (c * wk) = (x * y) * (wi * wj + q * m)
        BY <3>5, Zenon
      <4> QED BY <3>8, <4>1, <4>2, <4>3, Zenon
    <3>10. \E r \in Int : s = t + r * m
      <4>1. (x * y) * q \in Int
        OBVIOUS
      <4> QED BY <3>9, <4>1
    <3>11. s % m = t % m
      BY <3>10, Num!SameRemainder
    <3> HIDE DEF moved, times
    <3> QED BY <3>6, <3>7, <3>8, <3>11, Zenon
  <2>7. Num!Total(moved, Places) % m = Num!Total(times, Places) % m
    <3>1. Num!Numbers(moved, Places) /\ Num!Numbers(times, Places)
      <4> HIDE DEF moved, times
      <4> QED BY <2>6 DEF Num!Numbers
    <3> HIDE DEF moved, times
    <3> QED BY <1>3, <2>6, <3>1, Num!TotalRemainder
  <2>8. Num!Total(times, Places) = Term(f)[i] * b
    <3>1. PICK u \in Int : u = Term(f)[i]
      BY <1>3 DEF Num!Numbers
    <3>2. \A j \in Places : times[j] = u * Term(g)[j]
      BY <3>1
    <3>3. Num!Total(times, Places) = u * Num!Total(Term(g), Places)
      <4> HIDE DEF times
      <4> QED BY <1>3, <3>2, Num!TotalScaled
    <3> HIDE DEF times
    <3> QED BY <1>3, <3>1, <3>3, Zenon
  <2>9. Columns[i] = Num!Total(moved, Places) /\ Whole[i] = Num!Total(times, Places)
    <3>1. Columns[i] = Num!Total(column(i), Places) /\ Whole[i] = Term(f)[i] * b
      OBVIOUS
    <3> HIDE DEF Columns, Whole, column, moved, times
    <3> QED BY <2>5, <2>8, <3>1, Zenon
  <2>10. Columns[i] \in Int /\ Whole[i] \in Int
    <3>1. Num!Numbers(moved, Places) /\ Num!Numbers(times, Places)
      <4> HIDE DEF moved, times
      <4> QED BY <2>6 DEF Num!Numbers
    <3> HIDE DEF Columns, Whole, moved, times
    <3> QED BY <1>3, <2>9, <3>1, Num!TotalStep
  <2> HIDE DEF Columns, Whole, moved, times
  <2> QED BY <2>7, <2>9, <2>10, Zenon
<1>10. Num!Total(Columns, Places) % m = Num!Total(Whole, Places) % m
  <2>1. Num!Numbers(Columns, Places) /\ Num!Numbers(Whole, Places)
    <3> HIDE DEF Columns, Whole
    <3> QED BY <1>9 DEF Num!Numbers
  <2> HIDE DEF Columns, Whole
  <2> QED BY <1>3, <1>9, <2>1, Num!TotalRemainder
<1>11. Num!Total(Whole, Places) = b * a
  <2>1. \A i \in Places : Whole[i] = b * Term(f)[i]
    <3> SUFFICES ASSUME NEW i \in Places PROVE Whole[i] = b * Term(f)[i]
      OBVIOUS
    <3>1. PICK u \in Int : u = Term(f)[i]
      BY <1>3 DEF Num!Numbers
    <3>2. Whole[i] = u * b /\ u * b = b * u
      BY <3>1
    <3> QED BY <3>1, <3>2
  <2>2. PICK q, r : q = Term(f) /\ r = Whole
    OBVIOUS
  <2>3. Num!Numbers(q, Places) /\ \A i \in Places : r[i] = b * q[i]
    <3> HIDE DEF Whole
    <3> QED BY <1>3, <2>1, <2>2, Zenon
  <2>4. Num!Total(r, Places) = b * Num!Total(q, Places)
    BY <1>2, <1>3, <2>3, Num!TotalScaled
  <2> HIDE DEF Whole
  <2> QED BY <1>3, <2>2, <2>4, Zenon
<1>12. b * a = a * b
  BY <1>2
<1> HIDE DEF Columns, Whole
<1> QED BY <1>1, <1>2, <1>8, <1>10, <1>11, <1>12, Zenon

\* the same of the squarings, which take each pair of limbs once
Half(f, k) ==
  [i \in Places |-> LET j == (k - i) % Limbs
                    IN  IF i > j THEN 0
                        ELSE (IF i = j THEN 1 ELSE 2) * Coefficient(i, j) * f[i] * f[j]]

\* Where i and j are interchanged, the two terms are those of the product.
LEMMA BothHalves ==
  ASSUME Sized, NEW f \in Elements, NEW k \in Places, NEW i \in Places, NEW j \in Places,
         j = (k - i) % Limbs
  PROVE  /\ Half(f, k)[i] \in Int /\ Half(f, k)[j] \in Int
         /\ 2 * Part(f, f, k)[i] = Half(f, k)[i] + Half(f, k)[j]
<1>1. PICK L \in Nat \ {0} : L = Limbs /\ i \in 0 .. L - 1 /\ j \in 0 .. L - 1 /\ k \in 0 .. L - 1
  BY DEF Sized, Places
<1>2. (k - j) % Limbs = i
  <2>1. PICK l \in Places : l = (k - j) % Limbs /\ (k = j + l \/ k + L = j + l)
    BY <1>1, Across
  <2>2. k = i + j \/ k + L = i + j
    BY <1>1, Across
  <2>3. l \in 0 .. L - 1
    BY <1>1 DEF Places
  <2> QED BY <1>1, <2>1, <2>2, <2>3
<1>3. PICK c \in Int : c = Coefficient(i, j) /\ c = Coefficient(j, i)
  <2>1. i + j = j + i
    BY <1>1
  <2> QED BY <2>1 DEF Coefficient, Sized
<1>4. PICK x \in Int, y \in Int : x = f[i] /\ y = f[j]
  BY DEF Elements
<1>5. Part(f, f, k)[i] = c * x * y
  BY <1>3, <1>4 DEF Part
<1>6. Half(f, k)[i] = IF i > j THEN 0 ELSE (IF i = j THEN 1 ELSE 2) * c * x * y
  BY <1>3, <1>4 DEF Half
<1>7. Half(f, k)[j] = IF j > i THEN 0 ELSE (IF j = i THEN 1 ELSE 2) * c * y * x
  BY <1>2, <1>3, <1>4 DEF Half
<1>8. PICK t \in Int : t = c * x * y /\ t = c * y * x
  OBVIOUS
<1>9. 1 * c * x * y = t /\ 1 * c * y * x = t /\ 2 * c * x * y = 2 * t /\ 2 * c * y * x = 2 * t
  BY <1>8
<1>10. CASE i = j
  <2>1. Half(f, k)[i] = t /\ Half(f, k)[j] = t
    BY <1>1, <1>6, <1>7, <1>9, <1>10
  <2> QED BY <1>5, <1>8, <2>1
<1>11. CASE i < j
  <2>1. Half(f, k)[i] = 2 * t /\ Half(f, k)[j] = 0
    BY <1>1, <1>6, <1>7, <1>9, <1>11
  <2> QED BY <1>5, <1>8, <2>1
<1>12. CASE i > j
  <2>1. Half(f, k)[i] = 0 /\ Half(f, k)[j] = 2 * t
    BY <1>1, <1>6, <1>7, <1>9, <1>12
  <2> QED BY <1>5, <1>8, <2>1
<1> QED BY <1>1, <1>10, <1>11, <1>12

\* The squarings leave out what they count twice.
LEMMA SquareIsProduct ==
  ASSUME Sized, NEW f \in Elements
  PROVE  Square(f) = Product(f, f)
<1>1. ASSUME NEW k \in Places
      PROVE  MapThenSumSet(LAMBDA i : LET j == (k - i) % Limbs
                                      IN  IF i > j THEN 0
                                          ELSE (IF i = j THEN 1 ELSE 2) * Coefficient(i, j) * f[i] * f[j],
                           Places) = Num!Total(Half(f, k), Places)
  <2> DEFINE t(i) == IF i > (k - i) % Limbs THEN 0
                     ELSE (IF i = (k - i) % Limbs THEN 1 ELSE 2)
                          * Coefficient(i, (k - i) % Limbs) * f[i] * f[(k - i) % Limbs]
             F(it) == [A \in SUBSET Places |-> IF A = {} THEN 0
               ELSE Half(f, k)[CHOOSE x \in A : TRUE] + it[A \ {CHOOSE x \in A : TRUE}]]
             G(it) == [A \in SUBSET Places |-> IF A = {} THEN 0
               ELSE t(CHOOSE x \in A : TRUE) + it[A \ {CHOOSE x \in A : TRUE}]]
  <2>1. ASSUME NEW it PROVE F(it) = G(it)
    <3>1. ASSUME NEW A \in SUBSET Places, A # {}
          PROVE  Half(f, k)[CHOOSE x \in A : TRUE] = t(CHOOSE x \in A : TRUE)
      <4>1. PICK y : y = CHOOSE x \in A : TRUE
        OBVIOUS
      <4>2. y \in Places
        BY <3>1, <4>1
      <4>3. Half(f, k)[y] = t(y)
        BY <4>2 DEF Half
      <4> HIDE DEF t
      <4> QED BY <4>1, <4>3, Zenon
    <3> HIDE DEF t
    <3> QED BY <3>1
  <2>2. MapThenSumSet(LAMBDA i : LET j == (k - i) % Limbs
                                 IN  IF i > j THEN 0
                                     ELSE (IF i = j THEN 1 ELSE 2) * Coefficient(i, j) * f[i] * f[j],
                      Places) = (CHOOSE it : it = G(it))[Places]
    BY Zenon DEF MapThenSumSet, MapThenFoldSet
  <2>3. Num!Total(Half(f, k), Places) = (CHOOSE it : it = F(it))[Places]
    BY Zenon DEF Num!Total
  <2>4. (CHOOSE it : it = F(it)) = (CHOOSE it : it = G(it))
    <3> HIDE DEF F, G
    <3> QED BY <2>1, Zenon
  <2> HIDE DEF F, G
  <2> QED BY <2>2, <2>3, <2>4, Zenon
<1>2. ASSUME NEW k \in Places PROVE Num!Total(Half(f, k), Places) = Num!Total(Part(f, f, k), Places)
  <2> DEFINE p == [i \in Places |-> (k - i) % Limbs]
             other == [i \in Places |-> Half(f, k)[p[i]]]
             both == [i \in Places |-> Half(f, k)[i] + other[i]]
  <2>1. PICK L \in Nat \ {0} : L = Limbs /\ Places = 0 .. L - 1
    BY DEF Sized, Places
  <2>2. \A i \in Places : p[i] \in Places /\ (k = i + p[i] \/ k + L = i + p[i])
    BY <2>1, Across
  <2>3. \A i \in Places : p[p[i]] = i
    <3> SUFFICES ASSUME NEW i \in Places PROVE p[p[i]] = i
      OBVIOUS
    <3>1. PICK j \in Places : j = p[i] /\ (k = i + j \/ k + L = i + j)
      BY <2>2
    <3>2. PICK l \in Places : l = p[j] /\ (k = j + l \/ k + L = j + l)
      BY <2>2
    <3>3. l = i
      <4>1. i \in 0 .. L - 1 /\ j \in 0 .. L - 1 /\ k \in 0 .. L - 1 /\ l \in 0 .. L - 1
        BY <2>1
      <4> HIDE DEF p
      <4> QED BY <3>1, <3>2, <4>1
    <3> HIDE DEF p
    <3> QED BY <3>1, <3>2, <3>3
  <2>4. \A i \in Places : /\ Half(f, k)[i] \in Int /\ other[i] \in Int
                          /\ both[i] = 2 * Part(f, f, k)[i]
    <3> SUFFICES ASSUME NEW i \in Places
                 PROVE  /\ Half(f, k)[i] \in Int /\ other[i] \in Int
                        /\ both[i] = 2 * Part(f, f, k)[i]
      OBVIOUS
    <3>1. PICK j \in Places : j = p[i] /\ j = (k - i) % Limbs
      BY <2>2
    <3>2. /\ Half(f, k)[i] \in Int /\ Half(f, k)[j] \in Int
          /\ 2 * Part(f, f, k)[i] = Half(f, k)[i] + Half(f, k)[j]
      BY <3>1, BothHalves
    <3>3. other[i] = Half(f, k)[j] /\ both[i] = Half(f, k)[i] + other[i]
      <4> HIDE DEF p
      <4> QED BY <3>1
    <3> HIDE DEF p, other, both
    <3> QED BY <3>2, <3>3
  <2> HIDE DEF p
  <2>5. PICK P, s, o, b, t : /\ P = Places /\ s = Half(f, k) /\ t = Part(f, f, k)
                             /\ o = other /\ b = both
    OBVIOUS
  <2>6. /\ Num!IsFiniteSet(P)
        /\ Num!Numbers(s, P) /\ Num!Numbers(o, P) /\ Num!Numbers(t, P)
        /\ \A x \in P : b[x] = s[x] + o[x]
        /\ \A x \in P : b[x] = 2 * t[x]
    <3>1. Num!IsFiniteSet(P)
      BY <2>5, PlacesFinite
    <3>2. Num!Numbers(s, P) /\ Num!Numbers(o, P)
      <4> HIDE DEF other, both
      <4> QED BY <2>4, <2>5 DEF Num!Numbers
    <3>3. Num!Numbers(t, P)
      BY <2>5, Parts
    <3>4. \A x \in P : b[x] = s[x] + o[x]
      BY <2>5
    <3>5. \A x \in P : b[x] = 2 * t[x]
      <4> HIDE DEF other, both
      <4> QED BY <2>4, <2>5
    <3> QED BY <3>1, <3>2, <3>3, <3>4, <3>5
  <2>7. Num!Total(o, P) = Num!Total(s, P)
    <3>1. /\ p \in [P -> P]
          /\ \A x, y \in P : p[x] = p[y] => x = y
          /\ \A y \in P : \E x \in P : p[x] = y
      <4>1. p \in [P -> P]
        <5>1. p = [i \in P |-> p[i]]
          BY <2>5 DEF p
        <5> QED BY <2>2, <2>5, <5>1
      <4>2. \A x, y \in P : p[x] = p[y] => x = y
        BY <2>3, <2>5
      <4>3. \A y \in P : \E x \in P : p[x] = y
        BY <2>2, <2>3, <2>5
      <4> QED BY <4>1, <4>2, <4>3
    <3>2. \A x \in P : o[x] = s[p[x]]
      BY <2>5
    <3> HIDE DEF other, both
    <3> QED BY <2>6, <3>1, <3>2, Num!TotalMoved
  <2>8. Num!Total(b, P) = Num!Total(s, P) + Num!Total(o, P)
    <3> HIDE DEF other, both
    <3> QED BY <2>6, Num!TotalOfSums
  <2>9. Num!Total(b, P) = 2 * Num!Total(t, P)
    <3> HIDE DEF other, both
    <3> QED BY <2>6, Num!TotalScaled
  <2>10. Num!Total(s, P) \in Int /\ Num!Total(t, P) \in Int
    <3> HIDE DEF other, both
    <3> QED BY <2>6, Num!TotalStep
  <2>11. Num!Total(s, P) = Num!Total(t, P)
    BY <2>7, <2>8, <2>9, <2>10
  <2> QED BY <2>5, <2>11, Zenon
<1>3. Square(f) = [k \in Places |-> Num!Total(Half(f, k), Places)]
  BY <1>1 DEF Square
<1>4. Product(f, f) = [k \in Places |-> Num!Total(Part(f, f, k), Places)]
  BY Parts
<1> QED BY <1>2, <1>3, <1>4

\* Both orders of carries carry limbs that there are.
LEMMA CarryOrders ==
  ASSUME Sized
  PROVE  ProductCarries \in Seq(Places) /\ OddThenEven \in Seq(Places)
<1>1. PICK l \in Nat \ {0} : Limbs = 2 * l /\ Limbs \div 2 = l
  <2>1. Limbs = 2 * (Limbs \div 2) /\ Limbs \div 2 \in Nat \ {0}
    BY DEF Sized
  <2> QED BY <2>1
<1>2. Places = 0 .. 2 * l - 1 /\ End = 2 * l - 1
  BY <1>1 DEF Places, End
<1>3. <<End>> \in Seq(Places) /\ <<End, 0>> \in Seq(Places)
  BY <1>2
<1>4. [k \in 1 .. Limbs |-> (k - 1) \div 2 + (IF k % 2 = 0 THEN Limbs \div 2 - 1 ELSE 0)]
        \in Seq(Places)
  <2>1. ASSUME NEW k \in 1 .. 2 * l
        PROVE  (k - 1) \div 2 + (IF k % 2 = 0 THEN l - 1 ELSE 0) \in 0 .. 2 * l - 1
    OBVIOUS
  <2> QED BY <1>1, <1>2, <2>1
<1>5. [k \in 1 .. l - 1 |-> 2 * k - 1] \in Seq(Places)
  <2>1. ASSUME NEW k \in 1 .. l - 1 PROVE 2 * k - 1 \in 0 .. 2 * l - 1
    OBVIOUS
  <2>2. l - 1 \in Nat
    OBVIOUS
  <2> QED BY <1>2, <2>1, <2>2
<1>6. [k \in 1 .. l |-> 2 * k - 2] \in Seq(Places)
  <2>1. ASSUME NEW k \in 1 .. l PROVE 2 * k - 2 \in 0 .. 2 * l - 1
    OBVIOUS
  <2> QED BY <1>2, <2>1
<1>7. ProductCarries \in Seq(Places)
  <2>1. \A s, t \in Seq(Places) : s \o t \in Seq(Places)
    OBVIOUS
  <2> QED BY <1>3, <1>4, <2>1, Zenon DEF ProductCarries
<1>8. OddThenEven \in Seq(Places)
  BY <1>1, <1>3, <1>5, <1>6 DEF OddThenEven
<1> QED BY <1>7, <1>8

\* A multiple of every limb is one of the number.
LEMMA Multiples ==
  ASSUME Sized, NEW h \in Elements, NEW d \in Int
  PROVE  /\ [i \in Places |-> d * h[i]] \in Elements
         /\ Value([i \in Places |-> d * h[i]]) = d * Value(h)
<1> DEFINE k == [i \in Places |-> d * h[i]]
<1>1. k \in Elements
  BY DEF Elements
<1>2. \A i \in Places : Term(k)[i] = d * Term(h)[i]
  <2> SUFFICES ASSUME NEW i \in Places PROVE Term(k)[i] = d * Term(h)[i]
    OBVIOUS
  <2>1. PICK w \in Int, x \in Int : w = 2^Weight(i) /\ x = h[i]
    BY Powers, PlacesFinite DEF Elements
  <2>2. Term(k)[i] = (d * x) * w /\ Term(h)[i] = x * w
    BY <2>1 DEF Term
  <2>3. (d * x) * w = d * (x * w)
    OBVIOUS
  <2> QED BY <2>2, <2>3, Zenon
<1> HIDE DEF k
<1>3. Num!Total(Term(k), Places) = d * Num!Total(Term(h), Places)
  <2>1. Num!Numbers(Term(h), Places)
    BY Terms
  <2> QED BY <1>2, <2>1, PlacesFinite, Num!TotalScaled
<1>4. Value(k) = d * Value(h)
  <2>1. Value(k) = Num!Total(Term(k), Places) /\ Value(h) = Num!Total(Term(h), Places)
    BY <1>1, Terms
  <2> QED BY <1>3, <2>1, Zenon
<1> QED BY <1>1, <1>4 DEF k

\* fe_add and fe_sub add and subtract numbers, without a carry.
LEMMA LimbByLimb ==
  ASSUME Sized, NEW f \in Elements, NEW g \in Elements
  PROVE  /\ fe_add(f, g) \in Elements /\ Value(fe_add(f, g)) = Value(f) + Value(g)
         /\ fe_sub(f, g) \in Elements /\ Value(fe_sub(f, g)) = Value(f) - Value(g)
<1>2. ASSUME NEW h \in Elements, NEW e \in Elements
      PROVE  /\ [i \in Places |-> h[i] + e[i]] \in Elements
             /\ Value([i \in Places |-> h[i] + e[i]]) = Value(h) + Value(e)
  <2> DEFINE k == [i \in Places |-> h[i] + e[i]]
  <2>1. k \in Elements
    BY DEF Elements
  <2>2. \A i \in Places : Term(k)[i] = Term(h)[i] + Term(e)[i]
    <3> SUFFICES ASSUME NEW i \in Places PROVE Term(k)[i] = Term(h)[i] + Term(e)[i]
      OBVIOUS
    <3>1. PICK w \in Int, x \in Int, y \in Int : w = 2^Weight(i) /\ x = h[i] /\ y = e[i]
      BY Powers, PlacesFinite DEF Elements
    <3>2. Term(k)[i] = (x + y) * w /\ Term(h)[i] = x * w /\ Term(e)[i] = y * w
      BY <3>1 DEF Term
    <3>3. (x + y) * w = x * w + y * w
      OBVIOUS
    <3> QED BY <3>2, <3>3, Zenon
  <2> HIDE DEF k
  <2>3. Num!Total(Term(k), Places) = Num!Total(Term(h), Places) + Num!Total(Term(e), Places)
    <3>1. Num!Numbers(Term(h), Places) /\ Num!Numbers(Term(e), Places)
      BY Terms
    <3> QED BY <2>2, <3>1, PlacesFinite, Num!TotalOfSums
  <2>4. Value(k) = Value(h) + Value(e)
    <3>1. /\ Value(k) = Num!Total(Term(k), Places) /\ Value(h) = Num!Total(Term(h), Places)
          /\ Value(e) = Num!Total(Term(e), Places)
      BY <2>1, Terms
    <3> QED BY <2>3, <3>1, Zenon
  <2> QED BY <2>1, <2>4 DEF k
<1>3. PICK n \in Elements : n = [i \in Places |-> (-1) * g[i]] /\ Value(n) = (-1) * Value(g)
  <2>1. -1 \in Int
    OBVIOUS
  <2> QED BY <2>1, Multiples
<1>4. fe_sub(f, g) = [i \in Places |-> f[i] + n[i]]
  <2>1. \A i \in Places : f[i] - g[i] = f[i] + n[i]
    BY <1>3 DEF Elements
  <2> QED BY <2>1 DEF fe_sub
<1>5. Value(f) \in Int /\ Value(g) \in Int
  BY Terms
<1>6. fe_sub(f, g) \in Elements /\ Value(fe_sub(f, g)) = Value(f) - Value(g)
  <2>1. fe_sub(f, g) \in Elements /\ Value(fe_sub(f, g)) = Value(f) + Value(n)
    BY <1>2, <1>4
  <2> QED BY <1>3, <1>5, <2>1
<1> QED BY <1>2, <1>6 DEF fe_add

\* fe_mul gives the product, modulo the prime.
LEMMA MulRight ==
  ASSUME Sized, NEW f \in Elements, NEW g \in Elements
  PROVE  /\ fe_mul(f, g) \in Elements
         /\ Value(fe_mul(f, g)) % Prime = (Value(f) * Value(g)) % Prime
<1>1. /\ Product(f, g) \in Elements
      /\ Value(Product(f, g)) % Prime = (Value(f) * Value(g)) % Prime
  BY Parts, ProductKeeps
<1>2. /\ FoldLeft(Carry, Product(f, g), ProductCarries) \in Elements
      /\ Value(FoldLeft(Carry, Product(f, g), ProductCarries)) % Prime = Value(Product(f, g)) % Prime
  BY <1>1, CarryOrders, CarriesKeep
<1> QED BY <1>1, <1>2, Zenon DEF fe_mul

\* So do the squarings, and the other functions that carry give what they promise.
LEMMA OthersRight ==
  ASSUME Sized, NEW f \in Elements
  PROVE  /\ fe_sq(f) \in Elements
         /\ Value(fe_sq(f)) % Prime = (Value(f) * Value(f)) % Prime
         /\ fe_sq2(f) \in Elements
         /\ Value(fe_sq2(f)) % Prime = (2 * (Value(f) * Value(f))) % Prime
         /\ fe_mul121666(f) \in Elements
         /\ Value(fe_mul121666(f)) % Prime = (Factor * Value(f)) % Prime
         /\ fe_frombytes_carry(f) \in Elements
         /\ Value(fe_frombytes_carry(f)) % Prime = Value(f) % Prime
<1>1. fe_sq(f) = fe_mul(f, f)
  BY SquareIsProduct DEF fe_sq, fe_mul
<1>2. fe_sq(f) \in Elements /\ Value(fe_sq(f)) % Prime = (Value(f) * Value(f)) % Prime
  BY <1>1, MulRight
<1>3. /\ fe_sq2(f) \in Elements
      /\ Value(fe_sq2(f)) % Prime = (2 * (Value(f) * Value(f))) % Prime
  <2>1. PICK q \in Elements : q = Square(f) /\ Value(q) % Prime = (Value(f) * Value(f)) % Prime
    BY Parts, ProductKeeps, SquareIsProduct
  <2>2. /\ [i \in Places |-> 2 * q[i]] \in Elements
        /\ Value([i \in Places |-> 2 * q[i]]) = 2 * Value(q)
    <3>1. 2 \in Int
      OBVIOUS
    <3> QED BY <3>1, Multiples
  <2>3. fe_sq2(f) \in Elements /\ Value(fe_sq2(f)) % Prime = (2 * Value(q)) % Prime
    <3>1. /\ FoldLeft(Carry, [i \in Places |-> 2 * q[i]], ProductCarries) \in Elements
          /\ Value(FoldLeft(Carry, [i \in Places |-> 2 * q[i]], ProductCarries)) % Prime
               = Value([i \in Places |-> 2 * q[i]]) % Prime
      BY <2>2, CarryOrders, CarriesKeep
    <3>2. fe_sq2(f) = FoldLeft(Carry, [i \in Places |-> 2 * q[i]], ProductCarries)
      BY <2>1, Zenon DEF fe_sq2
    <3> QED BY <2>2, <3>1, <3>2, Zenon
  <2>4. PICK m \in Nat \ {0}, a \in Int, v \in Int, two \in Int :
          m = Prime /\ a = Value(f) * Value(f) /\ v = Value(q) /\ two = 2
    <3>1. Value(f) \in Int /\ Value(q) \in Int
      BY Terms
    <3> QED BY <3>1 DEF Sized
  <2>5. (v * two) % m = (a * two) % m
    <3>1. ((v % m) * two) % m = (v * two) % m /\ ((a % m) * two) % m = (a * two) % m
      BY Num!RemainderOfProduct
    <3> QED BY <2>1, <2>4, <3>1, Zenon
  <2>6. v * two = 2 * v /\ a * two = 2 * a
    BY <2>4
  <2> QED BY <2>3, <2>4, <2>5, <2>6, Zenon
<1>4. /\ fe_mul121666(f) \in Elements
      /\ Value(fe_mul121666(f)) % Prime = (Factor * Value(f)) % Prime
  <2>1. PICK c \in Int : c = Factor
    BY DEF Sized
  <2>2. /\ [i \in Places |-> c * f[i]] \in Elements
        /\ Value([i \in Places |-> c * f[i]]) = c * Value(f)
    BY Multiples
  <2>3. /\ FoldLeft(Carry, [i \in Places |-> c * f[i]], OddThenEven) \in Elements
        /\ Value(FoldLeft(Carry, [i \in Places |-> c * f[i]], OddThenEven)) % Prime
             = Value([i \in Places |-> c * f[i]]) % Prime
    BY <2>2, CarryOrders, CarriesKeep
  <2>4. fe_mul121666(f) = FoldLeft(Carry, [i \in Places |-> c * f[i]], OddThenEven)
    BY <2>1, Zenon DEF fe_mul121666
  <2> QED BY <2>1, <2>2, <2>3, <2>4, Zenon
<1>5. /\ fe_frombytes_carry(f) \in Elements
      /\ Value(fe_frombytes_carry(f)) % Prime = Value(f) % Prime
  BY CarryOrders, CarriesKeep DEF fe_frombytes_carry
<1> QED BY <1>2, <1>3, <1>4, <1>5

\* fe_0, fe_1 and fe_neg.
LEMMA ConstantsRight ==
  ASSUME Sized, NEW f \in Elements
  PROVE  /\ fe_0 \in Elements /\ Value(fe_0) = 0
         /\ fe_1 \in Elements /\ Value(fe_1) = 1
         /\ fe_neg(f) \in Elements /\ Value(fe_neg(f)) = -Value(f)
<1>1. fe_0 \in Elements /\ Value(fe_0) = 0
  <2>1. PICK z \in Elements : z = [i \in Places |-> 0 * f[i]] /\ Value(z) = 0 * Value(f)
    <3>1. 0 \in Int
      OBVIOUS
    <3> QED BY <3>1, Multiples
  <2>2. fe_0 = z
    <3>1. \A i \in Places : 0 = 0 * f[i]
      BY DEF Elements
    <3> QED BY <2>1, <3>1 DEF fe_0
  <2>3. Value(f) \in Int
    BY Terms
  <2> QED BY <2>1, <2>2, <2>3
<1>2. fe_1 \in Elements /\ Value(fe_1) = 1
  <2>1. PICK one \in Int : one = 1
    OBVIOUS
  <2>2. /\ [fe_0 EXCEPT ![0] = @ + one] \in Elements
        /\ Value([fe_0 EXCEPT ![0] = @ + one]) = 0 + one * 2^Weight(0)
    BY <1>1, PlacesFinite, OneLimb
  <2>3. fe_1 = [fe_0 EXCEPT ![0] = @ + one]
    BY <2>1, PlacesFinite DEF fe_1, fe_0
  <2>4. 2^Weight(0) = 1
    BY Weights, Num!PowerOfTwo
  <2> QED BY <2>1, <2>2, <2>3, <2>4
<1>3. fe_neg(f) \in Elements /\ Value(fe_neg(f)) = -Value(f)
  <2>1. fe_sub(fe_0, f) \in Elements /\ Value(fe_sub(fe_0, f)) = 0 - Value(f)
    BY <1>1, LimbByLimb
  <2>2. fe_neg(f) = fe_sub(fe_0, f)
    <3>1. \A i \in Places : -f[i] = fe_0[i] - f[i]
      BY DEF Elements, fe_0
    <3> QED BY <3>1 DEF fe_neg, fe_sub
  <2>3. Value(f) \in Int
    BY Terms
  <2> QED BY <2>1, <2>2, <2>3
<1> QED BY <1>1, <1>2, <1>3

\* It does not matter whether operands are reduced first.
LEMMA ReducedProduct ==
  ASSUME NEW m \in Nat \ {0}, NEW a \in Int, NEW b \in Int
  PROVE  (a * b) % m = ((a % m) * (b % m)) % m
<1>1. PICK u \in Int, v \in Int : u = a % m /\ v = b % m
  OBVIOUS
<1>2. (u * b) % m = (a * b) % m /\ (v * u) % m = (b * u) % m
  BY <1>1, Num!RemainderOfProduct
<1>3. u * b = b * u /\ v * u = u * v
  OBVIOUS
<1> QED BY <1>1, <1>2, <1>3, Zenon

LEMMA ReducedSum ==
  ASSUME NEW m \in Nat \ {0}, NEW a \in Int, NEW b \in Int
  PROVE  /\ (a + b) % m = ((a % m) + (b % m)) % m
         /\ (a - b) % m = ((a % m) - (b % m)) % m
<1>1. PICK r \in Int, s \in Int, q \in Int, p \in Int :
        r = a % m /\ s = b % m /\ a = r + q * m /\ b = s + p * m
  <2>1. PICK r \in Int, s \in Int : r = a % m /\ s = b % m
    OBVIOUS
  <2>2. a % m = r % m /\ b % m = s % m
    BY <2>1
  <2>3. (\E q \in Int : a = r + q * m) /\ (\E p \in Int : b = s + p * m)
    BY <2>2, Num!SameRemainder
  <2> QED BY <2>1, <2>3
<1>2. PICK qm \in Int, pm \in Int : qm = q * m /\ pm = p * m /\ a = r + qm /\ b = s + pm
  BY <1>1
<1>3. ASSUME NEW x \in Int, NEW y \in Int, NEW k \in Int, x = y + k * m PROVE x % m = y % m
  <2>1. \E l \in Int : x = y + l * m
    BY <1>3
  <2> QED BY <2>1, Num!SameRemainder
<1>4. (a + b) % m = (r + s) % m
  <2>1. PICK x \in Int, y \in Int, k \in Int : x = a + b /\ y = r + s /\ k = q + p
    OBVIOUS
  <2>2. k * m = qm + pm
    <3>1. (q + p) * m = q * m + p * m
      OBVIOUS
    <3> QED BY <1>2, <2>1, <3>1
  <2>3. x = y + k * m
    BY <1>2, <2>1, <2>2
  <2>4. x % m = y % m
    BY <1>3, <2>3, Zenon
  <2> QED BY <2>1, <2>4, Zenon
<1>5. (a - b) % m = (r - s) % m
  <2>1. PICK x \in Int, y \in Int, k \in Int : x = a - b /\ y = r - s /\ k = q - p
    OBVIOUS
  <2>2. k * m = qm - pm
    <3>1. (q - p) * m = q * m - p * m
      OBVIOUS
    <3> QED BY <1>2, <2>1, <3>1
  <2>3. x = y + k * m
    BY <1>2, <2>1, <2>2
  <2>4. x % m = y % m
    BY <1>3, <2>3, Zenon
  <2> QED BY <2>1, <2>4, Zenon
<1> QED BY <1>1, <1>4, <1>5, Zenon

\* What the functions make of registers that stand for the numbers r and s.
LEMMA OfOne ==
  ASSUME Sized, NEW f \in Elements, NEW r \in Int, Value(f) % Prime = r % Prime
  PROVE  /\ fe_neg(f) \in Elements /\ Value(fe_neg(f)) % Prime = (-r) % Prime
         /\ fe_sq(f) \in Elements /\ Value(fe_sq(f)) % Prime = (r * r) % Prime
         /\ fe_sq2(f) \in Elements
         /\ Value(fe_sq2(f)) % Prime = (2 * ((r * r) % Prime)) % Prime
         /\ fe_mul121666(f) \in Elements
         /\ Value(fe_mul121666(f)) % Prime = (Factor * r) % Prime
<1>1. PICK m \in Nat \ {0}, a \in Int, c \in Int : m = Prime /\ a = Value(f) /\ c = Factor
  BY Terms DEF Sized
<1>2. a % m = r % m
  BY <1>1
<1>3. (a * a) % m = (r * r) % m /\ (c * a) % m = (c * r) % m
  <2>1. /\ (a * a) % m = ((a % m) * (a % m)) % m /\ (r * r) % m = ((r % m) * (r % m)) % m
        /\ (c * a) % m = ((c % m) * (a % m)) % m /\ (c * r) % m = ((c % m) * (r % m)) % m
    BY ReducedProduct, Zenon
  <2> QED BY <1>2, <2>1, Zenon
<1>4. (2 * (a * a)) % m = (2 * ((r * r) % m)) % m
  <2>1. PICK two \in Int, aa \in Int, rr \in Int, t \in Int :
          two = 2 /\ aa = a * a /\ rr = r * r /\ t = rr % m
    OBVIOUS
  <2>2. t % m = rr % m
    BY <2>1
  <2>3. aa % m = t % m
    BY <1>3, <2>1, <2>2, Zenon
  <2>4. (two * aa) % m = (two * t) % m
    <3>1. /\ (two * aa) % m = ((two % m) * (aa % m)) % m
          /\ (two * t) % m = ((two % m) * (t % m)) % m
      BY ReducedProduct, Zenon
    <3> QED BY <2>3, <3>1, Zenon
  <2> QED BY <2>1, <2>4, Zenon
<1>5. (-a) % m = (-r) % m
  <2>1. PICK zero \in Int : zero = 0
    OBVIOUS
  <2>2. (zero - a) % m = (zero - r) % m
    <3>1. /\ (zero - a) % m = ((zero % m) - (a % m)) % m
          /\ (zero - r) % m = ((zero % m) - (r % m)) % m
      BY ReducedSum, Zenon
    <3> QED BY <1>2, <3>1, Zenon
  <2>3. zero - a = -a /\ zero - r = -r
    BY <2>1
  <2> QED BY <2>2, <2>3, Zenon
<1>6. fe_neg(f) \in Elements /\ Value(fe_neg(f)) = -a
  BY <1>1, ConstantsRight
<1>7. /\ fe_sq(f) \in Elements /\ Value(fe_sq(f)) % m = (a * a) % m
      /\ fe_sq2(f) \in Elements /\ Value(fe_sq2(f)) % m = (2 * (a * a)) % m
      /\ fe_mul121666(f) \in Elements /\ Value(fe_mul121666(f)) % m = (c * a) % m
  BY <1>1, OthersRight, Zenon
<1> QED BY <1>1, <1>3, <1>4, <1>5, <1>6, <1>7, Zenon

LEMMA OfTwo ==
  ASSUME Sized, NEW f \in Elements, NEW r \in Int, Value(f) % Prime = r % Prime,
         NEW g \in Elements, NEW s \in Int, Value(g) % Prime = s % Prime
  PROVE  /\ fe_add(f, g) \in Elements /\ Value(fe_add(f, g)) % Prime = (r + s) % Prime
         /\ fe_sub(f, g) \in Elements /\ Value(fe_sub(f, g)) % Prime = (r - s) % Prime
         /\ fe_mul(f, g) \in Elements /\ Value(fe_mul(f, g)) % Prime = (r * s) % Prime
<1>1. PICK m \in Nat \ {0}, a \in Int, b \in Int : m = Prime /\ a = Value(f) /\ b = Value(g)
  BY Terms DEF Sized
<1>2. a % m = r % m /\ b % m = s % m
  BY <1>1
<1>3. (a * b) % m = (r * s) % m
  <2>1. (a * b) % m = ((a % m) * (b % m)) % m /\ (r * s) % m = ((r % m) * (s % m)) % m
    BY ReducedProduct, Zenon
  <2> QED BY <1>2, <2>1, Zenon
<1>4. (a + b) % m = (r + s) % m /\ (a - b) % m = (r - s) % m
  <2>1. /\ (a + b) % m = ((a % m) + (b % m)) % m /\ (r + s) % m = ((r % m) + (s % m)) % m
        /\ (a - b) % m = ((a % m) - (b % m)) % m /\ (r - s) % m = ((r % m) - (s % m)) % m
    BY ReducedSum, Zenon
  <2> QED BY <1>2, <2>1, Zenon
<1>5. /\ fe_add(f, g) \in Elements /\ Value(fe_add(f, g)) = a + b
      /\ fe_sub(f, g) \in Elements /\ Value(fe_sub(f, g)) = a - b
  BY <1>1, LimbByLimb
<1>6. fe_mul(f, g) \in Elements /\ Value(fe_mul(f, g)) % m = (a * b) % m
  BY <1>1, MulRight
<1> QED BY <1>1, <1>3, <1>4, <1>5, <1>6, Zenon

-----------------------------------------------------------------------------
(* The calls.  Registers hold limbs and stand for their numbers.             *)

Kept == reg \in [Registers -> Elements] /\ num \in [Registers -> Int] /\ NumbersKept

LEMMA WriteKeeps ==
  ASSUME Kept, NEW h \in Registers, NEW e \in Elements, NEW n \in Int,
         Value(e) % Prime = n % Prime, Write(h, e, n)
  PROVE  Kept'
<1>1. n % Prime \in Int
  BY FieldAssumption DEF Sized
<1>2. reg' \in [Registers -> Elements] /\ num' \in [Registers -> Int]
  BY <1>1 DEF Kept, Write
<1>3. ASSUME NEW k \in Registers PROVE Value(reg'[k]) % Prime = num'[k]
  <2>1. CASE k = h
    <3>1. reg'[k] = e /\ num'[k] = n % Prime
      BY <2>1 DEF Kept, Write
    <3> QED BY <3>1
  <2>2. CASE k # h
    <3>1. reg'[k] = reg[k] /\ num'[k] = num[k]
      BY <2>2 DEF Kept, Write
    <3> QED BY <3>1 DEF Kept, NumbersKept
  <2> QED BY <2>1, <2>2
<1> QED BY <1>2, <1>3 DEF Kept, NumbersKept

LEMMA CallKeeps == Kept /\ [FieldNext]_registers => Kept'
<1> SUFFICES ASSUME Kept, [FieldNext]_registers PROVE Kept'
  OBVIOUS
<1>1. PICK m \in Nat \ {0} : m = Prime
  BY FieldAssumption DEF Sized
<1>2. ASSUME NEW f \in Registers
      PROVE  /\ reg[f] \in Elements /\ Value(reg[f]) \in Int
             /\ num[f] \in Int /\ num[f] = Value(reg[f]) % m
  BY <1>1, FieldAssumption, Terms DEF Kept, NumbersKept
<1>3. ASSUME NEW h \in Registers, Constant(h) \/ FromBytes(h) PROVE Kept'
  <2>1. CASE Write(h, fe_0, 0)
    <3>1. fe_0 \in Elements /\ Value(fe_0) = 0
      BY <1>2, FieldAssumption, ConstantsRight
    <3> QED BY <2>1, <3>1, WriteKeeps
  <2>2. CASE Write(h, fe_1, 1)
    <3>1. fe_1 \in Elements /\ Value(fe_1) = 1
      BY <1>2, FieldAssumption, ConstantsRight
    <3> QED BY <2>2, <3>1, WriteKeeps
  <2>3. ASSUME NEW e \in Loads, Write(h, fe_frombytes_carry(e), Value(e)) PROVE Kept'
    <3>1. e \in Elements
      BY FieldAssumption
    <3>2. Value(e) \in Int
      BY <3>1, FieldAssumption, Terms
    <3>3. /\ fe_frombytes_carry(e) \in Elements
          /\ Value(fe_frombytes_carry(e)) % Prime = Value(e) % Prime
      BY <3>1, FieldAssumption, OthersRight
    <3> QED BY <2>3, <3>2, <3>3, WriteKeeps
  <2> QED BY <1>3, <2>1, <2>2, <2>3 DEF Constant, FromBytes
<1>4. ASSUME NEW h \in Registers, NEW f \in Registers,
             Copy(h, f) \/ Neg(h, f) \/ Sq(h, f) \/ Sq2(h, f) \/ Mul121666(h, f)
      PROVE  Kept'
  <2>1. PICK e \in Elements, r \in Int, c \in Int : e = reg[f] /\ r = num[f] /\ c = Factor
    BY <1>2, FieldAssumption DEF Sized
  <2>2. Value(e) % Prime = r % Prime
    BY <1>1, <1>2, <2>1
  <2>3. -r \in Int /\ r * r \in Int /\ 2 * ((r * r) % Prime) \in Int /\ c * r \in Int
    BY <1>1
  <2>4. CASE Copy(h, f)
    BY <2>1, <2>2, <2>4, WriteKeeps DEF Copy
  <2>5. CASE Neg(h, f)
    BY <2>1, <2>2, <2>3, <2>5, FieldAssumption, OfOne, WriteKeeps DEF Neg
  <2>6. CASE Sq(h, f)
    BY <2>1, <2>2, <2>3, <2>6, FieldAssumption, OfOne, WriteKeeps DEF Sq
  <2>7. CASE Sq2(h, f)
    BY <2>1, <2>2, <2>3, <2>7, FieldAssumption, OfOne, WriteKeeps DEF Sq2
  <2>8. CASE Mul121666(h, f)
    BY <2>1, <2>2, <2>3, <2>8, FieldAssumption, OfOne, WriteKeeps DEF Mul121666
  <2> QED BY <1>4, <2>4, <2>5, <2>6, <2>7, <2>8
<1>5. ASSUME NEW h \in Registers, NEW f \in Registers, NEW g \in Registers,
             Add(h, f, g) \/ Sub(h, f, g) \/ Mul(h, f, g)
      PROVE  Kept'
  <2>1. PICK e \in Elements, r \in Int, d \in Elements, s \in Int :
          e = reg[f] /\ r = num[f] /\ d = reg[g] /\ s = num[g]
    BY <1>2
  <2>2. Value(e) % Prime = r % Prime /\ Value(d) % Prime = s % Prime
    BY <1>1, <1>2, <2>1
  <2>3. r * s \in Int /\ r + s \in Int /\ r - s \in Int
    OBVIOUS
  <2>4. CASE Add(h, f, g)
    BY <2>1, <2>2, <2>3, <2>4, FieldAssumption, OfTwo, WriteKeeps DEF Add
  <2>5. CASE Sub(h, f, g)
    BY <2>1, <2>2, <2>3, <2>5, FieldAssumption, OfTwo, WriteKeeps DEF Sub
  <2>6. CASE Mul(h, f, g)
    BY <2>1, <2>2, <2>3, <2>6, FieldAssumption, OfTwo, WriteKeeps DEF Mul
  <2> QED BY <1>5, <2>4, <2>5, <2>6
<1>6. ASSUME NEW f \in Registers, NEW g \in Registers, NEW b \in {0, 1},
             CMov(f, g, b) \/ CSwap(f, g, b)
      PROVE  Kept'
  <2>1. CASE CMov(f, g, b)
    <3>1. PICK k \in {f, g} : /\ reg[k] = IF b = 1 THEN reg[g] ELSE reg[f]
                              /\ num[k] = IF b = 1 THEN num[g] ELSE num[f]
      OBVIOUS
    <3>2. k \in Registers /\ Write(f, reg[k], num[k])
      BY <2>1, <3>1 DEF CMov
    <3>3. num[k] % m = num[k]
      BY <1>2, <3>2
    <3> QED BY <1>1, <1>2, <3>2, <3>3, WriteKeeps
  <2>2. CASE CSwap(f, g, b)
    <3>1. PICK other \in [Registers -> Registers] :
            reg' = [h \in Registers |-> reg[other[h]]] /\ num' = [h \in Registers |-> num[other[h]]]
      <4> DEFINE o == [h \in Registers |-> CASE b = 1 /\ h = f -> g [] b = 1 /\ h = g -> f [] OTHER -> h]
      <4>1. o \in [Registers -> Registers]
        OBVIOUS
      <4>2. reg' = [h \in Registers |-> reg[o[h]]] /\ num' = [h \in Registers |-> num[o[h]]]
        BY <2>2 DEF CSwap
      <4> QED BY <4>1, <4>2
    <3> QED BY <3>1 DEF Kept, NumbersKept
  <2> QED BY <1>6, <2>1, <2>2
<1>7. CASE UNCHANGED registers
  BY <1>7 DEF registers, Kept, NumbersKept
<1> QED BY <1>3, <1>4, <1>5, <1>6, <1>7 DEF FieldNext, Return

\* Registers stand for their numbers at the start.
LEMMA StartKept == FieldInit => Kept
<1> SUFFICES ASSUME FieldInit PROVE Kept
  OBVIOUS
<1>1. reg \in [Registers -> Elements]
  BY FieldAssumption DEF FieldInit
<1>2. \A h \in Registers : Value(reg[h]) % Prime \in Int
  <2>1. \A h \in Registers : Value(reg[h]) \in Int
    BY <1>1, FieldAssumption, Terms
  <2> QED BY <2>1, FieldAssumption DEF Sized
<1> QED BY <1>1, <1>2 DEF FieldInit, Kept, NumbersKept

\* Whatever functions of fe.c were called on whatever limbs, every register stands
\* for its number modulo the prime: for every even number of limbs, every width of
\* them, every fold and every set of loads.
THEOREM EveryNumberKept == FieldSpec => []NumbersKept
<1>1. FieldInit => Kept
  BY StartKept
<1>2. Kept /\ [FieldNext]_registers => Kept'
  BY CallKeeps
<1>3. Kept => NumbersKept
  BY DEF Kept
<1> QED BY <1>1, <1>2, <1>3, PTL DEF FieldSpec

-----------------------------------------------------------------------------
(* The canonical form.  The comment of fe_tobytes argues with fractions that  *)
(* its quotient is right, for limbs up to 1.1 times what their width holds;   *)
(* this is the argument in integers.                                         *)

\* What is neglected when the top limb alone is folded is at most half of a unit.
LEMMA SizeOfFolds ==
  ASSUME NEW F \in Nat \ {0}, NEW H \in Nat \ {0}, NEW U \in Nat \ {0}, 2 * F <= H, 4 * H <= U,
         NEW T \in Int, -(44 * U) <= 30 * T, 30 * T <= 44 * U, NEW q \in -2 .. 2
  PROVE  /\ -(U * H) <= F * (q * F) + F * T
         /\ F * (q * F) + F * T <= U * H
<1>1. PICK d \in Nat : d = U * H
  OBVIOUS
<1>2. PICK h \in Nat : h = H * H
  OBVIOUS
<1>3. 4 * h <= d
  <2>1. (U - 4 * H) * H >= 0
    <3>1. U - 4 * H \in Nat
      OBVIOUS
    <3> QED BY <3>1
  <2>2. (U - 4 * H) * H = U * H - 4 * (H * H)
    OBVIOUS
  <2> QED BY <1>1, <1>2, <2>1, <2>2
<1>4. PICK f \in Nat : f = F * F
  OBVIOUS
<1>5. 4 * f <= h
  <2>1. (H - 2 * F) * (H + 2 * F) >= 0
    <3>1. H - 2 * F \in Nat /\ H + 2 * F \in Nat
      OBVIOUS
    <3> QED BY <3>1
  <2>2. (H - 2 * F) * (H + 2 * F) = H * H - 4 * (F * F)
    OBVIOUS
  <2> QED BY <1>2, <1>4, <2>1, <2>2
<1>6. PICK a \in Int : a = F * (q * F)
  OBVIOUS
<1>7. -(2 * f) <= a /\ a <= 2 * f
  <2>1. F * (q * F) = q * (F * F)
    OBVIOUS
  <2>2. a = q * f
    BY <1>4, <1>6, <2>1
  <2>3. q = -2 \/ q = -1 \/ q = 0 \/ q = 1 \/ q = 2
    OBVIOUS
  <2> QED BY <2>2, <2>3
<1>8. PICK b \in Int : b = F * T
  OBVIOUS
<1>9. PICK v \in Nat : v = F * U
  OBVIOUS
<1>10. -(44 * v) <= 30 * b /\ 30 * b <= 44 * v
  <2>1. 44 * U - 30 * T \in Nat /\ 44 * U + 30 * T \in Nat
    OBVIOUS
  <2>2. F * (44 * U - 30 * T) >= 0 /\ F * (44 * U + 30 * T) >= 0
    BY <2>1
  <2>3. F * (44 * U - 30 * T) = 44 * (F * U) - 30 * (F * T)
        /\ F * (44 * U + 30 * T) = 44 * (F * U) + 30 * (F * T)
    OBVIOUS
  <2> QED BY <1>8, <1>9, <2>2, <2>3
<1>11. 2 * v <= d
  <2>1. H - 2 * F \in Nat
    OBVIOUS
  <2>2. U * (H - 2 * F) >= 0
    BY <2>1
  <2>3. U * (H - 2 * F) = U * H - 2 * (F * U)
    OBVIOUS
  <2> QED BY <1>1, <1>9, <2>2, <2>3
<1>12. -d <= a + b /\ a + b <= d
  BY <1>3, <1>5, <1>7, <1>10, <1>11
<1> QED BY <1>1, <1>6, <1>8, <1>12

\* The rounded fold of the top limb, p, is near enough to the fold of the quotient:
\* with it instead, the number and the remainder lie in the same period of 2^255.
LEMMA QuotientBounds ==
  ASSUME NEW F \in Nat \ {0}, NEW H \in Nat \ {0}, NEW U \in Nat \ {0}, 2 * F <= H, 4 * H <= U,
         NEW T \in Int, -(44 * U) <= 30 * T, 30 * T <= 44 * U, NEW q \in -2 .. 2,
         NEW D \in Nat, D = 2 * H, NEW W \in Nat, W = U * D,
         NEW e \in Int, NEW r \in Nat, r < W - F, T + e * U = q * (W - F) + r,
         NEW p \in Int, NEW s \in 0 .. D - 1, p * D + s = F * e + H
  PROVE  0 <= p - q * F + r /\ p - q * F + r < W
<1>1. PICK d \in Nat \ {0} : d = U * H
  OBVIOUS
<1>2. W = 2 * d
  <2>1. U * (2 * H) = 2 * (U * H)
    OBVIOUS
  <2> QED BY <1>1, <2>1
<1>3. PICK k \in Int : k = q * F
  OBVIOUS
<1>4. PICK a \in Int, b \in Int : a = F * k /\ b = F * T
  BY <1>3
<1>5. -d <= a + b /\ a + b <= d
  BY <1>1, <1>3, <1>4, SizeOfFolds
<1>6. PICK y \in Int : y = e * U
  OBVIOUS
<1>7. PICK x \in Int : x = q * W
  OBVIOUS
<1>8. T + y = x - k + r
  <2>1. q * (W - F) = q * W - q * F
    OBVIOUS
  <2> QED BY <1>3, <1>6, <1>7, <2>1
<1>9. PICK u \in Nat : u = U * s
  OBVIOUS
<1>10. u <= 2 * d - U
  <2>1. U * (D - 1 - s) >= 0
    <3>1. D - 1 - s \in Nat
      OBVIOUS
    <3> QED BY <3>1
  <2>2. U * (D - 1 - s) = U * D - U - U * s
    OBVIOUS
  <2> QED BY <1>2, <1>9, <2>1, <2>2
<1>11. PICK z \in Int : z = F * y
  BY <1>6
<1>12. p * W = z + d - u
  <2>1. U * (p * D + s) = U * (F * e + H)
    OBVIOUS
  <2>2. U * (p * D + s) = p * (U * D) + U * s
    OBVIOUS
  <2>3. U * (F * e + H) = F * (e * U) + U * H
    OBVIOUS
  <2>4. p * (U * D) \in Int
    OBVIOUS
  <2>5. p * W + u = z + d
    BY <1>1, <1>6, <1>9, <1>11, <2>1, <2>2, <2>3, Zenon
  <2> QED BY <1>9, <1>11, <2>5
<1>13. PICK c \in Nat : c = F * r
  OBVIOUS
<1>14. z = k * W - a + c - b
  <2>1. y = x - k + r - T
    BY <1>6, <1>7, <1>8
  <2>2. F * (x - k + r - T) = F * x - F * k + F * r - F * T
    BY <1>3, <1>7
  <2>3. F * x = k * W
    <3>1. F * (q * W) = (q * F) * W
      OBVIOUS
    <3> QED BY <1>3, <1>7, <3>1
  <2> QED BY <1>4, <1>11, <1>13, <2>1, <2>2, <2>3
<1>15. PICK X \in Int : X = p - k + r
  BY <1>3
<1>16. PICK R \in Nat, K \in Int, Q \in Int : R = r * W /\ K = k * W /\ Q = p * W
  BY <1>3
<1>17. X * W = Q - K + R
  <2>1. (p - k + r) * W = p * W - k * W + r * W
    BY <1>3
  <2> QED BY <1>15, <1>16, <2>1
<1>18. X * W = R + c - a - b + d - u
  BY <1>12, <1>14, <1>16, <1>17
<1>19. X >= 0
  <2>1. SUFFICES ASSUME X <= -1 PROVE FALSE
    BY <1>15
  <2>2. X * W <= -W
    <3>1. (-1 - X) * W >= 0
      <4>1. -1 - X \in Nat
        BY <2>1
      <4> QED BY <4>1
    <3>2. (-1 - X) * W = -W - X * W
      OBVIOUS
    <3> QED BY <3>1, <3>2
  <2>3. PICK Y \in Int : Y = X * W
    OBVIOUS
  <2> QED BY <1>2, <1>5, <1>10, <1>18, <2>2, <2>3
<1>20. X < W
  <2>1. SUFFICES ASSUME X >= W PROVE FALSE
    BY <1>15
  <2>2. PICK w \in Nat : w = W * W
    OBVIOUS
  <2>3. X * W >= w
    <3>1. (X - W) * W >= 0
      <4>1. X - W \in Nat
        BY <2>1
      <4> QED BY <4>1
    <3>2. (X - W) * W = X * W - W * W
      OBVIOUS
    <3> QED BY <2>2, <3>1, <3>2
  <2>4. R + c <= w - W - F
    <3>1. (F + W) * (W - F - 1 - r) >= 0
      <4>1. W - F - 1 - r \in Nat /\ F + W \in Nat
        OBVIOUS
      <4> QED BY <4>1
    <3>2. (F + W) * (W - F - 1 - r) = W * W - F * F - F - W - (F * r + r * W)
      OBVIOUS
    <3>3. PICK f \in Nat : f = F * F
      OBVIOUS
    <3> QED BY <1>13, <1>16, <2>2, <3>1, <3>2, <3>3
  <2>5. PICK Y \in Int : Y = X * W
    OBVIOUS
  <2> QED BY <1>2, <1>5, <1>18, <2>3, <2>4, <2>5
<1> QED BY <1>3, <1>15, <1>19, <1>20

\* Limbs within their bounds make a number a small multiple of the prime at most.
LEMMA SmallQuotient ==
  ASSUME NEW F \in Nat \ {0}, NEW U \in Nat \ {0}, 8 * F <= U,
         NEW T \in Int, -(44 * U) <= 30 * T, 30 * T <= 44 * U,
         NEW D \in Nat, 4 <= D, NEW W \in Nat, W = U * D,
         NEW e \in Int, -(11 * D) <= 10 * e, 10 * e <= 11 * D,
         NEW q \in Int, NEW r \in Nat, r < W - F, T + e * U = q * (W - F) + r
  PROVE  q \in -2 .. 2
<1>1. 4 * U <= W
  <2>1. U * (D - 4) >= 0
    <3>1. D - 4 \in Nat
      OBVIOUS
    <3> QED BY <3>1
  <2>2. U * (D - 4) = U * D - 4 * U
    OBVIOUS
  <2> QED BY <2>1, <2>2
<1>2. PICK y \in Int : y = e * U
  OBVIOUS
<1>3. -(11 * W) <= 10 * y /\ 10 * y <= 11 * W
  <2>1. U * (11 * D - 10 * e) >= 0 /\ U * (11 * D + 10 * e) >= 0
    <3>1. 11 * D - 10 * e \in Nat /\ 11 * D + 10 * e \in Nat
      OBVIOUS
    <3> QED BY <3>1
  <2>2. U * (11 * D - 10 * e) = 11 * (U * D) - 10 * (e * U)
        /\ U * (11 * D + 10 * e) = 11 * (U * D) + 10 * (e * U)
    OBVIOUS
  <2> QED BY <1>2, <2>1, <2>2
<1>4. PICK m \in Nat : m = W - F
  OBVIOUS
<1>5. PICK x \in Int : x = q * m
  BY <1>4
<1>6. T + y = x + r /\ r < m
  BY <1>2, <1>4, <1>5
<1>7. q <= 2
  <2>1. SUFFICES ASSUME q >= 3 PROVE FALSE
    OBVIOUS
  <2>2. (q - 3) * m >= 0
    <3>1. q - 3 \in Nat
      BY <2>1
    <3> QED BY <1>4, <3>1
  <2>3. (q - 3) * m = q * m - 3 * m
    BY <1>4
  <2>4. x >= 3 * m
    BY <1>5, <2>2, <2>3
  <2> QED BY <1>1, <1>3, <1>4, <1>6, <2>4
<1>8. q >= -2
  <2>1. SUFFICES ASSUME q <= -3 PROVE FALSE
    OBVIOUS
  <2>2. (-3 - q) * m >= 0
    <3>1. -3 - q \in Nat
      BY <2>1
    <3> QED BY <1>4, <3>1
  <2>3. (-3 - q) * m = -(3 * m) - q * m
    BY <1>4
  <2>4. x <= -(3 * m)
    BY <1>5, <2>2, <2>3
  <2> QED BY <1>1, <1>3, <1>4, <1>6, <2>4
<1> QED BY <1>7, <1>8

\* the limbs from the first to the last, as Quotient and fe_tobytes take them
Up == [k \in 1 .. Limbs |-> k - 1]

\* Its steps are the places, one after the other.
LEMMA UpFacts ==
  ASSUME Sized
  PROVE  /\ Limbs \in Nat /\ DOMAIN Up = 1 .. Limbs
         /\ \A k \in 1 .. Limbs : Up[k] \in Places /\ Up[k] = k - 1
         /\ \A k \in Places : k + 1 \in 1 .. Limbs /\ Up[k + 1] = k
<1>1. Limbs \in Nat
  BY DEF Sized
<1> QED BY <1>1 DEF Up, Places

\* The fold of Quotient, step by step.
LEMMA QuotientSteps ==
  ASSUME Sized, NEW h \in Elements
  PROVE  \E s \in [0 .. Limbs -> Int] :
           /\ s[0] = (Fold * h[End] + 2^(Narrow - 1)) \div 2^Narrow
           /\ \A k \in Places : s[k + 1] = (h[k] + s[k]) \div 2^Width(k)
           /\ Quotient(h) = s[Limbs]
<1> DEFINE n == Limbs
           a == (Fold * h[End] + 2^(Narrow - 1)) \div 2^Narrow
           F == [k \in 1 .. n |-> [q \in Int |-> (h[Up[k]] + q) \div 2^Width(Up[k])]]
           Body(it) == [A \in SUBSET (1 .. n) |->
                          IF A = {} THEN a
                          ELSE (h[Up[Num!Highest(A)]] + it[A \ {Num!Highest(A)}])
                                 \div 2^Width(Up[Num!Highest(A)])]
           fold == CHOOSE it : it = Body(it)
<1>1. n \in Nat /\ DOMAIN Up = 1 .. n /\ \A k \in 1 .. n : Up[k] \in Places
  BY UpFacts
<1>2. \A i \in Places : h[i] \in Int /\ 2^Width(i) \in Nat \ {0}
  BY Powers, PlacesFinite DEF Elements
<1>3. F \in [1 .. n -> [Int -> Int]]
  <2>1. ASSUME NEW k \in 1 .. n, NEW q \in Int PROVE (h[Up[k]] + q) \div 2^Width(Up[k]) \in Int
    <3>1. PICK x \in Int, d \in Nat \ {0} : x = h[Up[k]] /\ d = 2^Width(Up[k])
      BY <1>1, <1>2
    <3>2. (x + q) \div d \in Int
      OBVIOUS
    <3> QED BY <3>1, <3>2, Zenon
  <2> QED BY <2>1
<1>4. a \in Int
  <2>1. PICK x \in Int, y \in Int, d \in Nat \ {0} :
          x = Fold * h[End] /\ y = 2^(Narrow - 1) /\ d = 2^Narrow
    <3>1. Narrow \in Nat /\ Narrow - 1 \in Nat /\ Fold \in Int
      BY DEF Sized
    <3>2. 2^Narrow \in Nat \ {0} /\ 2^(Narrow - 1) \in Int
      BY <3>1, Num!PowerOfTwo
    <3>3. h[End] \in Int
      BY <1>2, PlacesFinite
    <3> QED BY <3>1, <3>2, <3>3
  <2>2. (x + y) \div d \in Int
    OBVIOUS
  <2> QED BY <2>1, <2>2, Zenon
<1> HIDE DEF a
<1>5. PICK it \in [SUBSET (1 .. n) -> Int] : Num!FoldsUp(it, Int, n, a, F)
  <2> HIDE DEF n, F
  <2> QED BY <1>1, <1>3, <1>4, Num!FoldUpExists
<1>6. it = Body(it)
  <2>1. ASSUME NEW A \in SUBSET (1 .. n), A # {}
        PROVE  F[Num!Highest(A)][it[A \ {Num!Highest(A)}]]
                 = (h[Up[Num!Highest(A)]] + it[A \ {Num!Highest(A)}]) \div 2^Width(Up[Num!Highest(A)])
    <3>1. PICK k : k = Num!Highest(A)
      OBVIOUS
    <3>2. k \in A
      <4> HIDE DEF n
      <4> QED BY <1>1, <2>1, <3>1, Num!HighestOf
    <3>3. F[k][it[A \ {k}]] = (h[Up[k]] + it[A \ {k}]) \div 2^Width(Up[k])
      BY <3>2
    <3> QED BY <3>1, <3>3, Zenon
  <2> HIDE DEF F
  <2> QED BY <1>5, <2>1 DEF Num!FoldsUp
<1>7. Quotient(h) = fold[1 .. n]
  BY <1>1, Zenon DEF Quotient, FoldLeft, MapThenFoldSet, Num!Highest, Max, Up, a
<1>8. fold = Body(fold)
  <2> HIDE DEF Body
  <2> QED BY <1>6
<1> HIDE DEF fold
<1>9. fold[1 .. 0] = a
  <2>1. 1 .. 0 = {} /\ {} \in SUBSET (1 .. n)
    OBVIOUS
  <2> QED BY <1>8, <2>1
<1>10. \A k \in Places : fold[1 .. k + 1] = (h[k] + fold[1 .. k]) \div 2^Width(k)
  <2> TAKE k \in Places
  <2>1. PICK j \in 1 .. n : j = k + 1 /\ j - 1 = k /\ Up[j] = k
    BY UpFacts, PlacesFinite
  <2>2. /\ 1 .. j \in SUBSET (1 .. n) /\ 1 .. j # {} /\ Num!Highest(1 .. j) = j
        /\ (1 .. j) \ {j} = 1 .. j - 1
    BY <1>1, <2>1, Num!Prefixes
  <2>3. fold[1 .. j] = (h[Up[Num!Highest(1 .. j)]] + fold[(1 .. j) \ {Num!Highest(1 .. j)}])
                         \div 2^Width(Up[Num!Highest(1 .. j)])
    BY <1>8, <2>2
  <2> QED BY <2>1, <2>2, <2>3, Zenon
<1> DEFINE s == [k \in 0 .. n |-> fold[1 .. k]]
           S == {k \in 0 .. n : fold[1 .. k] \in Int}
<1>11. 0 \in S
  BY <1>1, <1>4, <1>9
<1>12. ASSUME NEW k \in 0 .. n - 1, k \in S PROVE k + 1 \in S
  <2>1. k \in Places /\ k + 1 \in 0 .. n
    BY <1>1 DEF Places
  <2>2. PICK x \in Int, y \in Int, d \in Nat \ {0} : x = h[k] /\ y = fold[1 .. k] /\ d = 2^Width(k)
    BY <1>2, <1>12, <2>1
  <2>3. (x + y) \div d \in Int
    OBVIOUS
  <2>4. fold[1 .. k + 1] \in Int
    BY <1>10, <2>1, <2>2, <2>3, Zenon
  <2> QED BY <2>1, <2>4
<1>13. 0 .. n \subseteq S
  <2> HIDE DEF S, n
  <2> QED BY <1>1, <1>11, <1>12, Num!UpTo
<1>14. s \in [0 .. Limbs -> Int]
  BY <1>13
<1>15. s[0] = a /\ s[n] = fold[1 .. n] /\ \A k \in Places : s[k + 1] = fold[1 .. k + 1] /\ s[k] = fold[1 .. k]
  <2>1. 0 \in 0 .. n /\ n \in 0 .. n /\ \A k \in Places : k + 1 \in 0 .. n /\ k \in 0 .. n
    BY <1>1 DEF Places
  <2> QED BY <1>9, <2>1
<1>16. /\ s[0] = (Fold * h[End] + 2^(Narrow - 1)) \div 2^Narrow
       /\ \A k \in Places : s[k + 1] = (h[k] + s[k]) \div 2^Width(k)
       /\ Quotient(h) = s[Limbs]
  BY <1>7, <1>10, <1>15 DEF a
<1> HIDE DEF s
<1> QED BY <1>14, <1>16

\* The fold of fe_tobytes, step by step.
LEMMA FloorSteps ==
  ASSUME Sized, NEW h \in Elements, \A g \in Elements, i \in Places : Floor(g, i) \in Elements
  PROVE  \E s \in [0 .. Limbs -> Elements] :
           /\ s[0] = h
           /\ \A k \in Places : s[k + 1] = Floor(s[k], k)
           /\ FoldLeft(Floor, h, Up) = s[Limbs]
<1> DEFINE n == Limbs
           F == [k \in 1 .. n |-> [g \in Elements |-> Floor(g, Up[k])]]
           Body(it) == [A \in SUBSET (1 .. n) |->
                          IF A = {} THEN h ELSE Floor(it[A \ {Num!Highest(A)}], Up[Num!Highest(A)])]
           fold == CHOOSE it : it = Body(it)
<1>1. n \in Nat /\ DOMAIN Up = 1 .. n /\ \A k \in 1 .. n : Up[k] \in Places
  BY UpFacts
<1>2. F \in [1 .. n -> [Elements -> Elements]]
  BY <1>1
<1>3. PICK it \in [SUBSET (1 .. n) -> Elements] : Num!FoldsUp(it, Elements, n, h, F)
  <2> HIDE DEF n, F
  <2> QED BY <1>1, <1>2, Num!FoldUpExists
<1>4. it = Body(it)
  <2>1. ASSUME NEW A \in SUBSET (1 .. n), A # {}
        PROVE  F[Num!Highest(A)][it[A \ {Num!Highest(A)}]]
                 = Floor(it[A \ {Num!Highest(A)}], Up[Num!Highest(A)])
    <3>1. PICK k : k = Num!Highest(A)
      OBVIOUS
    <3>2. k \in A
      <4> HIDE DEF n
      <4> QED BY <1>1, <2>1, <3>1, Num!HighestOf
    <3>3. F[k][it[A \ {k}]] = Floor(it[A \ {k}], Up[k])
      BY <3>2
    <3> QED BY <3>1, <3>3, Zenon
  <2> HIDE DEF F
  <2> QED BY <1>3, <2>1 DEF Num!FoldsUp
<1>5. FoldLeft(Floor, h, Up) = fold[1 .. n]
  BY <1>1, Zenon DEF FoldLeft, MapThenFoldSet, Num!Highest, Max
<1>6. fold = Body(fold)
  <2> HIDE DEF Body
  <2> QED BY <1>4
<1> HIDE DEF fold
<1>7. fold[1 .. 0] = h
  <2>1. 1 .. 0 = {} /\ {} \in SUBSET (1 .. n)
    OBVIOUS
  <2> QED BY <1>6, <2>1
<1>8. \A k \in Places : fold[1 .. k + 1] = Floor(fold[1 .. k], k)
  <2> TAKE k \in Places
  <2>1. PICK j \in 1 .. n : j = k + 1 /\ j - 1 = k /\ Up[j] = k
    BY UpFacts, PlacesFinite
  <2>2. /\ 1 .. j \in SUBSET (1 .. n) /\ 1 .. j # {} /\ Num!Highest(1 .. j) = j
        /\ (1 .. j) \ {j} = 1 .. j - 1
    BY <1>1, <2>1, Num!Prefixes
  <2>3. fold[1 .. j] = Floor(fold[(1 .. j) \ {Num!Highest(1 .. j)}], Up[Num!Highest(1 .. j)])
    BY <1>6, <2>2
  <2> QED BY <2>1, <2>2, <2>3, Zenon
<1> DEFINE s == [k \in 0 .. n |-> fold[1 .. k]]
           S == {k \in 0 .. n : fold[1 .. k] \in Elements}
<1>9. 0 \in S
  BY <1>1, <1>7
<1>10. ASSUME NEW k \in 0 .. n - 1, k \in S PROVE k + 1 \in S
  <2>1. k \in Places /\ k + 1 \in 0 .. n
    BY <1>1 DEF Places
  <2> QED BY <1>8, <1>10, <2>1
<1>11. 0 .. n \subseteq S
  <2> HIDE DEF S, n
  <2> QED BY <1>1, <1>9, <1>10, Num!UpTo
<1>12. s \in [0 .. Limbs -> Elements]
  BY <1>11
<1>13. s[0] = h /\ s[n] = fold[1 .. n] /\ \A k \in Places : s[k + 1] = fold[1 .. k + 1] /\ s[k] = fold[1 .. k]
  <2>1. 0 \in 0 .. n /\ n \in 0 .. n /\ \A k \in Places : k + 1 \in 0 .. n /\ k \in 0 .. n
    BY <1>1 DEF Places
  <2> QED BY <1>7, <2>1
<1>14. /\ s[0] = h /\ FoldLeft(Floor, h, Up) = s[Limbs]
       /\ \A k \in Places : s[k + 1] = Floor(s[k], k)
  BY <1>5, <1>8, <1>13, Zenon
<1> HIDE DEF s
<1> QED BY <1>12, <1>14

\* The bound that the comment of fe_tobytes needs: 19 is well below 2^25.
Roomy == Fold \in Nat \ {0} /\ 4 * Fold <= 2^Narrow

\* The weight of the last limb is at least twice what the limb counts.
LEMMA TopLimb ==
  ASSUME Sized
  PROVE  \E H \in Nat \ {0}, U \in Nat \ {0}, D \in Nat, W \in Nat \ {0} :
           /\ H = 2^(Narrow - 1) /\ D = 2^Narrow /\ D = 2 * H
           /\ U = 2^Weight(End) /\ 4 * H <= U
           /\ W = 2^Weight(Limbs) /\ W = U * D /\ D = 2^Width(End)
<1>1. PICK n \in Nat \ {0} : n = Narrow
  BY DEF Sized
<1>2. PICK e \in Nat : e = End - 1 /\ e + 1 = End /\ End + 1 = Limbs /\ e % 2 = 0 /\ (e + 1) % 2 = 1
  <2>1. PICK l \in Nat \ {0} : l = Limbs /\ l % 2 = 0
    BY DEF Sized
  <2>2. l - 2 \in Nat /\ (l - 2) % 2 = 0 /\ (l - 1) % 2 = 1
    BY <2>1
  <2>3. End = l - 1
    BY <2>1 DEF End
  <2>4. PICK e \in Nat : e = l - 2
    BY <2>2
  <2> QED BY <2>1, <2>2, <2>3, <2>4
<1>3. Width(e) = n + 1 /\ Width(End) = n
  BY <1>1, <1>2 DEF Width
<1>4. PICK H \in Nat \ {0} : H = 2^(n - 1) /\ 2^n = 2 * H /\ 2^(n + 1) = 4 * H
  <2>1. n - 1 \in Nat /\ (n - 1) + 1 = n /\ 1 \in Nat
    OBVIOUS
  <2>2. 2^(n - 1) \in Nat \ {0} /\ 2^((n - 1) + 1) = 2^(n - 1) * 2^1 /\ 2^(n + 1) = 2^n * 2^1 /\ 2^1 = 2
    BY <2>1, Num!PowerOfTwo
  <2>3. PICK x \in Nat \ {0} : x = 2^(n - 1)
    BY <2>2
  <2>4. 2^n = x * 2 /\ 2^(n + 1) = 2^n * 2
    BY <2>1, <2>2, <2>3, Zenon
  <2>5. 2^n = 2 * x
    BY <2>4
  <2>6. 2^(n + 1) = 4 * x
    BY <2>4, <2>5
  <2> QED BY <2>3, <2>5, <2>6
<1>5. PICK u \in Nat \ {0} : u = 2^Weight(e) /\ 2^Weight(End) = u * (4 * H)
  <2>1. 2^Weight(e) \in Nat \ {0} /\ 2^Weight(e + 1) = 2^Weight(e) * 2^Width(e)
    BY Powers
  <2>2. 2^Width(e) = 4 * H
    BY <1>3, <1>4, Zenon
  <2>3. 2^Weight(End) = 2^Weight(e) * (4 * H)
    BY <1>2, <2>1, <2>2, Zenon
  <2> QED BY <2>1, <2>3, Zenon
<1>6. PICK U \in Nat \ {0} : U = 2^Weight(End) /\ 4 * H <= U
  <2>1. PICK k \in Nat \ {0} : k = 4 * H
    OBVIOUS
  <2>2. u * k >= k /\ u * k \in Nat \ {0}
    <3>1. (u - 1) * k >= 0
      <4>1. u - 1 \in Nat
        OBVIOUS
      <4> QED BY <4>1
    <3>2. (u - 1) * k = u * k - k
      OBVIOUS
    <3> QED BY <3>1, <3>2
  <2> QED BY <1>5, <2>1, <2>2
<1>7. PICK W \in Nat \ {0} : W = 2^Weight(Limbs) /\ W = U * (2 * H)
  <2>1. End \in Nat
    BY PlacesFinite
  <2>2. 2^Weight(Limbs) = U * (2 * H)
    BY <1>1, <1>2, <1>3, <1>4, <1>6, <2>1, Powers
  <2>3. U * (2 * H) \in Nat \ {0}
    OBVIOUS
  <2> QED BY <2>2, <2>3
<1> QED BY <1>1, <1>3, <1>4, <1>6, <1>7

\* No limb is narrower than the odd ones.
LEMMA WideLimbs ==
  ASSUME Sized, NEW i \in Nat
  PROVE  2^Narrow <= 2^Width(i)
<1>1. PICK n \in Nat : n = Narrow
  BY DEF Sized
<1>2. 2^n \in Nat /\ 2^(n + 1) = 2^n * 2^1 /\ 2^1 = 2
  BY Num!PowerOfTwo
<1>3. PICK x \in Nat : x = 2^n
  BY <1>2
<1>4. 2^(n + 1) = 2 * x
  BY <1>2, <1>3
<1>5. Width(i) = n \/ Width(i) = n + 1
  BY <1>1 DEF Width
<1> QED BY <1>1, <1>3, <1>4, <1>5

\* A limb within its bounds adds no more than four thirds of 1.1 times what its
\* weight grows by, so that the sum of them is bounded limb by limb.
LEMMA BoundStep ==
  ASSUME NEW p \in Nat, NEW d \in Nat, 4 <= d, NEW x \in Int, -(11 * d) <= 10 * x, 10 * x <= 11 * d
  PROVE  /\ -(44 * (p * d)) + 44 * p <= 30 * (x * p)
         /\ 30 * (x * p) <= 44 * (p * d) - 44 * p
<1>1. p * (44 * d - 44 - 30 * x) >= 0 /\ p * (44 * d - 44 + 30 * x) >= 0
  <2>1. 44 * d - 44 - 30 * x \in Nat /\ 44 * d - 44 + 30 * x \in Nat
    OBVIOUS
  <2> QED BY <2>1
<1>2. /\ p * (44 * d - 44 - 30 * x) = 44 * (p * d) - 44 * p - 30 * (x * p)
      /\ p * (44 * d - 44 + 30 * x) = 44 * (p * d) - 44 * p + 30 * (x * p)
  OBVIOUS
<1>3. PICK y \in Int, z \in Int : y = p * d /\ z = x * p
  OBVIOUS
<1> QED BY <1>1, <1>2, <1>3

\* The bounds of one limb.
LEMMA InBoundsOf ==
  ASSUME Sized, NEW h \in Elements, InBounds(h), NEW i \in Places
  PROVE  \E x \in Int, d \in Nat \ {0} :
           x = h[i] /\ d = 2^Width(i) /\ -(11 * d) <= 10 * x /\ 10 * x <= 11 * d
<1>1. PICK x \in Int, d \in Nat \ {0} : x = h[i] /\ d = 2^Width(i)
  BY Powers, PlacesFinite DEF Elements
<1>2. 10 * x \in -(11 * d) .. 11 * d
  BY <1>1, Zenon DEF InBounds
<1> QED BY <1>1, <1>2

\* The limbs below the last one are less than 22/15 of a unit of it together.
LEMMA BelowTheTop ==
  ASSUME Sized, Roomy, NEW h \in Elements, InBounds(h)
  PROVE  \E T \in Int : /\ Value(h) = T + h[End] * 2^Weight(End)
                        /\ -(44 * 2^Weight(End)) <= 30 * T
                        /\ 30 * T <= 44 * 2^Weight(End)
<1>1. PICK e \in Nat : e = End /\ Places = 0 .. e
  <2>1. Limbs - 1 \in Nat
    BY DEF Sized
  <2> QED BY <2>1 DEF End, Places
<1> DEFINE f == Term(h)
           R == 0 .. e - 1
           g == [i \in R |-> 30 * f[i]]
           P == [k \in 0 .. e |-> 2^Weight(k)]
           lo == [k \in 0 .. e |-> -(44 * P[k])]
           hi == [k \in 0 .. e |-> 44 * P[k]]
<1>2. Num!Numbers(f, 0 .. e) /\ Value(h) = Num!Total(f, 0 .. e)
  BY <1>1, Terms, Zenon
<1>3. Value(h) = f[e] + Num!Total(f, R)
  <2> HIDE DEF f
  <2> QED BY <1>2, Num!TotalLast
<1>4. Num!IsFiniteSet(R) /\ Num!Numbers(f, R)
  <2>1. Num!IsFiniteSet(R)
    BY Num!FS_Interval
  <2>2. R \subseteq 0 .. e
    OBVIOUS
  <2> HIDE DEF f, R
  <2> QED BY <1>2, <2>1, <2>2 DEF Num!Numbers
<1>5. PICK T \in Int : T = Num!Total(f, R)
  <2> HIDE DEF f, R
  <2> QED BY <1>4, Num!TotalStep
<1>6. Num!Total(g, R) = 30 * T
  <2>1. \A i \in R : g[i] = 30 * f[i]
    OBVIOUS
  <2>2. 30 \in Int
    OBVIOUS
  <2> HIDE DEF f, R, g
  <2>3. Num!Total(g, R) = 30 * Num!Total(f, R)
    BY <1>4, <2>1, <2>2, Num!TotalScaled
  <2> QED BY <1>5, <2>3, Zenon
<1>7. P \in [0 .. e -> Nat]
  BY Powers
<1>8. ASSUME NEW k \in 0 .. e - 1
      PROVE  g[k] \in Int /\ lo[k + 1] - lo[k] <= g[k] /\ g[k] <= hi[k + 1] - hi[k]
  <2>1. k \in Places /\ k \in Nat /\ k \in R /\ k \in 0 .. e /\ k + 1 \in 0 .. e
    BY <1>1
  <2>2. PICK x \in Int, d \in Nat \ {0} :
          x = h[k] /\ d = 2^Width(k) /\ -(11 * d) <= 10 * x /\ 10 * x <= 11 * d
    BY <2>1, InBoundsOf
  <2>3. 4 <= d
    <3>1. PICK n \in Nat : n = 2^Narrow
      BY TopLimb
    <3>2. 4 <= n
      BY <3>1 DEF Roomy
    <3> QED BY <2>1, <2>2, <3>1, <3>2, WideLimbs
  <2>4. PICK p \in Nat : p = 2^Weight(k) /\ 2^Weight(k + 1) = p * d
    BY <2>1, <2>2, Powers
  <2>5. /\ -(44 * (p * d)) + 44 * p <= 30 * (x * p)
        /\ 30 * (x * p) <= 44 * (p * d) - 44 * p
    BY <2>2, <2>3, BoundStep
  <2>6. P[k] = p /\ P[k + 1] = p * d /\ g[k] = 30 * (x * p)
    BY <2>1, <2>2, <2>4 DEF Term
  <2>7. lo[k] = -(44 * p) /\ lo[k + 1] = -(44 * (p * d)) /\ hi[k] = 44 * p /\ hi[k + 1] = 44 * (p * d)
    BY <2>1, <2>6
  <2>8. PICK y \in Int, z \in Int : y = p * d /\ z = x * p
    OBVIOUS
  <2> HIDE DEF lo, hi, g, P
  <2> QED BY <2>5, <2>6, <2>7, <2>8
<1>9. lo \in [0 .. e -> Int] /\ hi \in [0 .. e -> Int]
  <2>1. \A k \in 0 .. e : P[k] \in Nat
    BY <1>7
  <2> HIDE DEF P
  <2>2. \A k \in 0 .. e : -(44 * P[k]) \in Int /\ 44 * P[k] \in Int
    BY <2>1
  <2> QED BY <2>2
<1>10. lo[e] - lo[0] <= Num!Total(g, R) /\ Num!Total(g, R) <= hi[e] - hi[0]
  <2>1. Num!Numbers(g, R)
    BY <1>8 DEF Num!Numbers
  <2> HIDE DEF lo, hi, g
  <2> QED BY <1>8, <1>9, <2>1, Num!TotalBetween
<1>11. PICK u \in Nat, v \in Nat : u = P[e] /\ v = P[0] /\ u = 2^Weight(End)
  <2>1. e \in 0 .. e /\ 0 \in 0 .. e
    OBVIOUS
  <2> QED BY <1>1, <1>7, <2>1
<1>12. lo[e] = -(44 * u) /\ lo[0] = -(44 * v) /\ hi[e] = 44 * u /\ hi[0] = 44 * v
  BY <1>11
<1>13. -(44 * u) <= 30 * T /\ 30 * T <= 44 * u
  <2>1. /\ -(44 * u) - (-(44 * v)) <= 30 * T
        /\ 30 * T <= 44 * u - 44 * v
    <3> HIDE DEF lo, hi, g, P, R
    <3> QED BY <1>6, <1>10, <1>12, Zenon
  <2> QED BY <2>1
<1>14. Value(h) = T + h[End] * 2^Weight(End)
  <2>1. f[e] = h[End] * 2^Weight(End)
    BY <1>1, PlacesFinite DEF Term
  <2>2. f[e] \in Int
    BY <1>2 DEF Num!Numbers
  <2>3. PICK x \in Int : x = h[End] * 2^Weight(End)
    BY <2>1, <2>2
  <2>4. Value(h) = x + T
    BY <1>3, <1>5, <2>1, <2>3, Zenon
  <2> HIDE DEF f
  <2> QED BY <2>3, <2>4
<1> QED BY <1>11, <1>13, <1>14, Zenon

\* There is one quotient only.
LEMMA SameQuotient ==
  ASSUME NEW w \in Nat \ {0}, NEW x \in Int, NEW a \in Int, NEW b \in Int,
         a * w <= x, x < a * w + w, b * w <= x, x < b * w + w
  PROVE  a = b
<1>1. ASSUME NEW c \in Int, NEW e \in Int, c * w <= x, x < e * w + w PROVE c <= e
  <2>1. SUFFICES ASSUME c >= e + 1 PROVE FALSE
    OBVIOUS
  <2>2. (c - e - 1) * w >= 0
    <3>1. c - e - 1 \in Nat
      BY <2>1
    <3> QED BY <3>1
  <2>3. (c - e - 1) * w = c * w - e * w - w
    OBVIOUS
  <2>4. PICK y \in Int, z \in Int : y = c * w /\ z = e * w
    OBVIOUS
  <2> QED BY <1>1, <2>2, <2>3, <2>4
<1> QED BY <1>1

\* One step of Quotient, at the weight p of its limb of d.
LEMMA StepOfQuotient ==
  ASSUME NEW p \in Nat \ {0}, NEW d \in Nat \ {0}, NEW x \in Int, NEW a \in Int
  PROVE  LET b == (x + a) \div d
         IN  /\ b \in Int /\ b * (p * d) - a * p <= x * p
             /\ x * p <= (b * (p * d) + p * d) - (a * p + p)
<1>1. PICK b \in Int, r \in 0 .. d - 1 : b = (x + a) \div d /\ x + a = r + b * d
  <2>1. PICK y \in Int : y = x + a
    OBVIOUS
  <2>2. y \div d \in Int /\ y % d \in 0 .. d - 1 /\ y = (y % d) + (y \div d) * d
    BY Num!Quotients
  <2> QED BY <2>1, <2>2
<1>2. p * (d - 1 - r) >= 0 /\ p * r >= 0
  <2>1. d - 1 - r \in Nat /\ r \in Nat
    OBVIOUS
  <2> QED BY <2>1
<1>3. p * (d - 1 - r) = p * d - p - p * r
  OBVIOUS
<1>4. p * (x + a) = x * p + a * p
  OBVIOUS
<1>5. p * (r + b * d) = p * r + b * (p * d)
  OBVIOUS
<1>6. PICK A \in Int, B \in Int, C \in Int, X \in Int, R \in Int :
        A = a * p /\ B = b * (p * d) /\ C = p * d /\ X = x * p /\ R = p * r
  OBVIOUS
<1>7. X + A = R + B /\ R >= 0 /\ C - p - R >= 0
  BY <1>1, <1>2, <1>3, <1>4, <1>5, <1>6
<1>8. B - A <= X /\ X <= (B + C) - (A + p)
  BY <1>7
<1> QED BY <1>1, <1>6, <1>8

\* What the steps of Quotient end with is the quotient of the whole number, and
\* what they began with, by 2^255.
LEMMA FoldedQuotient ==
  ASSUME Sized, NEW h \in Elements, NEW s \in [0 .. Limbs -> Int],
         \A k \in Places : s[k + 1] = (h[k] + s[k]) \div 2^Width(k)
  PROVE  /\ s[Limbs] * 2^Weight(Limbs) <= Value(h) + s[0]
         /\ Value(h) + s[0] < s[Limbs] * 2^Weight(Limbs) + 2^Weight(Limbs)
<1>1. PICK n \in Nat : n = Limbs /\ Places = 0 .. n - 1
  BY DEF Sized, Places
<1> DEFINE f == Term(h)
           P == [k \in 0 .. n |-> 2^Weight(k)]
           lo == [k \in 0 .. n |-> s[k] * P[k]]
           hi == [k \in 0 .. n |-> s[k] * P[k] + P[k]]
<1>2. Num!Numbers(f, 0 .. n - 1) /\ Value(h) = Num!Total(f, 0 .. n - 1) /\ Value(h) \in Int
  BY <1>1, Terms, Zenon
<1>3. \A k \in 0 .. n : P[k] \in Nat \ {0} /\ s[k] \in Int
  <2>1. \A k \in 0 .. n : k \in Nat /\ P[k] = 2^Weight(k)
    OBVIOUS
  <2> HIDE DEF P
  <2> QED BY <1>1, <2>1, Powers
<1>4. ASSUME NEW k \in 0 .. n - 1
      PROVE  lo[k + 1] - lo[k] <= f[k] /\ f[k] <= hi[k + 1] - hi[k]
  <2>1. k \in Places /\ k \in Nat /\ k \in 0 .. n /\ k + 1 \in 0 .. n
    BY <1>1
  <2>2. PICK x \in Int, d \in Nat \ {0} : x = h[k] /\ d = 2^Width(k)
    BY <2>1, Powers DEF Elements
  <2>3. PICK p \in Nat \ {0} : p = P[k] /\ P[k + 1] = p * d /\ f[k] = x * p
    BY <2>1, <2>2, Powers DEF Term
  <2>4. PICK a \in Int : a = s[k]
    BY <2>1, <1>3
  <2>5. s[k + 1] = (x + a) \div d
    BY <2>1, <2>2, <2>4, Zenon
  <2>6. PICK b \in Int : b = s[k + 1] /\ b * (p * d) - a * p <= x * p
                         /\ x * p <= (b * (p * d) + p * d) - (a * p + p)
    BY <2>5, StepOfQuotient
  <2>7. /\ lo[k] = a * p /\ lo[k + 1] = b * (p * d)
        /\ hi[k] = a * p + p /\ hi[k + 1] = b * (p * d) + p * d
    BY <2>1, <2>3, <2>4, <2>6
  <2> HIDE DEF lo, hi, f
  <2> QED BY <2>3, <2>6, <2>7, Zenon
<1>5. lo \in [0 .. n -> Int] /\ hi \in [0 .. n -> Int]
  <2> HIDE DEF P
  <2>1. \A k \in 0 .. n : s[k] * P[k] \in Int /\ s[k] * P[k] + P[k] \in Int
    BY <1>3
  <2> QED BY <2>1
<1>6. lo[n] - lo[0] <= Num!Total(f, 0 .. n - 1) /\ Num!Total(f, 0 .. n - 1) <= hi[n] - hi[0]
  <2> HIDE DEF lo, hi, f
  <2> QED BY <1>2, <1>4, <1>5, Num!TotalBetween
<1>7. P[0] = 1
  BY Weights, Num!PowerOfTwo
<1>8. PICK V \in Int, a \in Int, b \in Int, w \in Nat :
        V = Value(h) /\ a = s[0] /\ b = s[n] /\ w = P[n]
  BY <1>2, <1>3
<1>9. 0 \in 0 .. n /\ n \in 0 .. n
  OBVIOUS
<1>10. lo[0] = a /\ hi[0] = a + 1 /\ lo[n] = b * w /\ hi[n] = b * w + w
  <2>1. lo[0] = a * 1 /\ hi[0] = a * 1 + 1 /\ lo[n] = b * w /\ hi[n] = b * w + w
    <3> HIDE DEF P
    <3> QED BY <1>7, <1>8, <1>9
  <2> QED BY <2>1
<1>11. b * w - a <= V /\ V <= (b * w + w) - (a + 1)
  <2> HIDE DEF lo, hi, f, P
  <2> QED BY <1>2, <1>6, <1>8, <1>10, Zenon
<1>12. PICK y \in Int : y = b * w
  OBVIOUS
<1>13. y <= V + a /\ V + a < y + w
  BY <1>11, <1>12
<1>14. P[n] = 2^Weight(Limbs)
  BY <1>1, <1>9
<1> HIDE DEF P
<1> QED BY <1>1, <1>8, <1>12, <1>13, <1>14, Zenon

\* Quotient is the quotient by the prime, though the number is never formed and the
\* fold is added before the quotient is known.
LEMMA QuotientRight ==
  ASSUME Sized, Roomy, NEW h \in Elements, InBounds(h)
  PROVE  Quotient(h) = Value(h) \div Prime
<1>1. PICK H \in Nat \ {0}, U \in Nat \ {0}, D \in Nat, W \in Nat \ {0} :
        /\ H = 2^(Narrow - 1) /\ D = 2^Narrow /\ D = 2 * H
        /\ U = 2^Weight(End) /\ 4 * H <= U
        /\ W = 2^Weight(Limbs) /\ W = U * D /\ D = 2^Width(End)
  BY TopLimb
<1>2. PICK F \in Nat \ {0} : F = Fold /\ 2 * F <= H
  BY <1>1 DEF Roomy
<1>3. PICK m \in Nat \ {0} : m = Prime /\ m = W - F
  BY <1>1, <1>2 DEF Sized, Prime
<1>4. PICK s \in [0 .. Limbs -> Int] :
        /\ s[0] = (Fold * h[End] + 2^(Narrow - 1)) \div 2^Narrow
        /\ \A k \in Places : s[k + 1] = (h[k] + s[k]) \div 2^Width(k)
        /\ Quotient(h) = s[Limbs]
  BY QuotientSteps
<1>5. PICK T \in Int : Value(h) = T + h[End] * U /\ -(44 * U) <= 30 * T /\ 30 * T <= 44 * U
  BY <1>1, BelowTheTop, Zenon
<1>6. PICK e \in Int : e = h[End] /\ -(11 * D) <= 10 * e /\ 10 * e <= 11 * D
  <2>1. End \in Places
    BY PlacesFinite
  <2>2. PICK x \in Int, d \in Nat \ {0} :
          x = h[End] /\ d = 2^Width(End) /\ -(11 * d) <= 10 * x /\ 10 * x <= 11 * d
    BY <2>1, InBoundsOf
  <2>3. d = D
    BY <1>1, <2>2, Zenon
  <2> QED BY <2>2, <2>3
<1>7. PICK V \in Int : V = Value(h) /\ V = T + e * U
  <2>1. T + e * U \in Int
    OBVIOUS
  <2> QED BY <1>5, <1>6, <2>1
<1>8. PICK q \in Int, r \in Nat : q = V \div m /\ r < m /\ V = r + q * m
  <2>1. V \div m \in Int /\ V % m \in 0 .. m - 1 /\ V = (V % m) + (V \div m) * m
    BY Num!Quotients
  <2> QED BY <2>1
<1>9. r < W - F /\ T + e * U = q * (W - F) + r
  <2>1. q * m \in Int
    OBVIOUS
  <2>2. V = q * m + r
    BY <1>8, <2>1
  <2> QED BY <1>3, <1>7, <1>8, <2>2, Zenon
<1>10. q \in -2 .. 2
  <2>1. 4 <= D /\ 8 * F <= U
    <3>1. 4 * H <= U /\ D = 2 * H /\ 2 * F <= H
      BY <1>1, <1>2
    <3> QED BY <3>1
  <2>2. /\ -(44 * U) <= 30 * T /\ 30 * T <= 44 * U /\ W = U * D
        /\ -(11 * D) <= 10 * e /\ 10 * e <= 11 * D
        /\ r < W - F /\ T + e * U = q * (W - F) + r
    BY <1>1, <1>5, <1>6, <1>9, Zenon
  <2>3. D \in Nat /\ W \in Nat
    OBVIOUS
  <2> QED BY <2>1, <2>2, <2>3, SmallQuotient
<1>11. PICK p \in Int, c \in 0 .. D - 1 : p = s[0] /\ p * D + c = F * e + H
  <2>1. PICK y \in Int : y = F * e + H
    OBVIOUS
  <2>2. PICK n \in Nat \ {0} : n = D
    BY <1>1
  <2>3. y \div n \in Int /\ y % n \in 0 .. n - 1 /\ y = (y % n) + (y \div n) * n
    BY Num!Quotients
  <2>4. s[0] = y \div n
    BY <1>1, <1>2, <1>4, <1>6, <2>1, <2>2, Zenon
  <2> QED BY <2>1, <2>2, <2>3, <2>4
<1>12. 0 <= p - q * F + r /\ p - q * F + r < W
  <2>1. /\ 2 * F <= H /\ 4 * H <= U /\ -(44 * U) <= 30 * T /\ 30 * T <= 44 * U
        /\ D = 2 * H /\ W = U * D /\ r < W - F /\ T + e * U = q * (W - F) + r
        /\ p * D + c = F * e + H
    BY <1>1, <1>2, <1>5, <1>9, <1>11, Zenon
  <2>2. W \in Nat /\ D \in Nat
    OBVIOUS
  <2> QED BY <1>10, <2>1, <2>2, QuotientBounds
<1>13. q * W <= V + p /\ V + p < q * W + W
  <2>1. q * (W - F) = q * W - q * F
    OBVIOUS
  <2>2. PICK x \in Int, y \in Int : x = q * W /\ y = q * F
    OBVIOUS
  <2>3. V = x - y + r
    BY <1>7, <1>9, <2>1, <2>2
  <2> QED BY <1>12, <2>2, <2>3
<1>14. PICK b \in Int : b = s[Limbs]
  <2>1. Limbs \in 0 .. Limbs
    BY DEF Sized
  <2> QED BY <2>1
<1>15. b * W <= V + p /\ V + p < b * W + W
  BY <1>1, <1>4, <1>7, <1>11, <1>14, FoldedQuotient
<1>16. b = q
  <2>1. V + p \in Int
    OBVIOUS
  <2> QED BY <1>13, <1>15, <2>1, SameQuotient
<1> QED BY <1>3, <1>4, <1>7, <1>8, <1>14, <1>16, Zenon

\* A carry that rounds down leaves its limb in its width and the limbs below as
\* they were, and drops multiples of 2^255 only.
LEMMA FloorKeeps ==
  ASSUME Sized, NEW h \in Elements, NEW i \in Places
  PROVE  /\ Floor(h, i) \in Elements
         /\ Floor(h, i)[i] \in 0 .. 2^Width(i) - 1
         /\ \A j \in Places : j < i => Floor(h, i)[j] = h[j]
         /\ \E k \in Int : Value(Floor(h, i)) = Value(h) + k * 2^Weight(Limbs)
<1>1. PICK w \in Nat \ {0}, d \in Nat \ {0} :
        w = 2^Weight(i) /\ d = 2^Width(i) /\ 2^Weight(i + 1) = w * d /\ i \in Nat
  BY Powers, PlacesFinite
<1>2. PICK a \in Int : a = h[i]
  BY DEF Elements
<1>3. PICK c \in Int, b \in 0 .. d - 1 : c = h[i] \div 2^Width(i) /\ a = b + c * d
  <2>1. a \div d \in Int /\ a % d \in 0 .. d - 1 /\ a = (a % d) + (a \div d) * d
    BY Num!Quotients
  <2>2. h[i] \div 2^Width(i) = a \div d
    BY <1>1, <1>2, Zenon
  <2> QED BY <2>1, <2>2
<1>4. PICK x \in Int : x = -(c * d) /\ a + x = b
  <2>1. PICK y \in Int : y = c * d
    OBVIOUS
  <2>2. a = b + y
    BY <1>3, <2>1
  <2>3. -y \in Int /\ a + (-y) = b
    BY <2>2
  <2> QED BY <2>1, <2>3
<1> DEFINE r == [h EXCEPT ![i] = @ + x]
<1>5. r = [h EXCEPT ![i] = @ - c * 2^Width(i)]
  <2>1. PICK y \in Int : y = c * d
    OBVIOUS
  <2>2. a + x = a - y
    BY <1>4, <2>1
  <2>3. h[i] + x = h[i] - c * 2^Width(i)
    BY <1>1, <1>2, <2>1, <2>2, Zenon
  <2> QED BY <2>3
<1>6. r \in Elements /\ Value(r) = Value(h) + x * w
  BY <1>1, OneLimb
<1>7. r[i] = b /\ \A j \in Places : j # i => r[j] = h[j]
  <2>1. r[i] = h[i] + x
    BY DEF Elements
  <2> QED BY <1>2, <1>4, <2>1 DEF Elements
<1>8. Floor(h, i) = IF i = End THEN r ELSE [r EXCEPT ![i + 1] = @ + c]
  BY <1>3, <1>5 DEF Floor
<1> HIDE DEF r
<1>9. PICK v \in Int : v = Value(h)
  BY Terms
<1>10. PICK y \in Int : y = c * (w * d)
  OBVIOUS
<1>11. Value(r) = v - y
  <2>1. x * w = -y
    <3>1. (-(c * d)) * w = -(c * (w * d))
      OBVIOUS
    <3> QED BY <1>4, <1>10, <3>1
  <2> QED BY <1>6, <1>9, <1>10, <2>1
<1>12. CASE i # End
  <2>1. i + 1 \in Places
    BY <1>12 DEF Places, End, Sized
  <2>2. PICK g \in Elements : g = [r EXCEPT ![i + 1] = @ + c] /\ Value(g) = Value(r) + c * (w * d)
    <3>1. /\ [r EXCEPT ![i + 1] = @ + c] \in Elements
          /\ Value([r EXCEPT ![i + 1] = @ + c]) = Value(r) + c * 2^Weight(i + 1)
      BY <1>6, <2>1, OneLimb
    <3> QED BY <1>1, <3>1, Zenon
  <2>3. g[i] = r[i] /\ \A j \in Places : j < i => g[j] = r[j]
    <3>1. \A j \in Places : j <= i => j # i + 1
      BY <1>1, PlacesFinite
    <3>2. \A j \in Places : j # i + 1 => g[j] = r[j]
      BY <1>6, <2>2 DEF Elements
    <3>3. i <= i
      BY <1>1
    <3>4. \A j \in Places : j < i => j <= i
      BY <1>1, PlacesFinite
    <3> QED BY <3>1, <3>2, <3>3, <3>4
  <2>4. Value(g) = v
    <3>1. Value(g) = (v - y) + y
      BY <1>10, <1>11, <2>2, Zenon
    <3> QED BY <3>1
  <2>5. Value(g) = Value(h) + 0 * 2^Weight(Limbs)
    <3>1. PICK u \in Nat : u = 2^Weight(Limbs)
      BY TopLimb
    <3>2. v = v + 0 * u
      OBVIOUS
    <3> QED BY <1>9, <2>4, <3>1, <3>2, Zenon
  <2>6. 0 \in Int /\ \A j \in Places : j < i => j # i
    BY <1>1, PlacesFinite
  <2>7. Floor(h, i) = g
    BY <1>8, <1>12, <2>2
  <2>8. \E k \in Int : Value(g) = Value(h) + k * 2^Weight(Limbs)
    BY <2>5, <2>6, Zenon
  <2>9. \A j \in Places : j < i => g[j] = h[j]
    BY <1>7, <2>3, <2>6
  <2> QED BY <1>1, <1>7, <2>3, <2>7, <2>8, <2>9
<1>13. CASE i = End
  <2>1. Floor(h, i) = r
    BY <1>8, <1>13
  <2>2. w * d = 2^Weight(Limbs)
    <3>1. End + 1 = Limbs
      BY DEF End, Sized
    <3> QED BY <1>1, <1>13, <3>1
  <2>3. \E k \in Int : Value(r) = Value(h) + k * 2^Weight(Limbs)
    <3>1. PICK k \in Int : k = -c
      OBVIOUS
    <3>2. k * (w * d) = -y
      <4>1. (-c) * (w * d) = -(c * (w * d))
        OBVIOUS
      <4> QED BY <1>10, <3>1, <4>1
    <3>3. v - y = v + -y
      OBVIOUS
    <3>4. Value(r) = Value(h) + k * 2^Weight(Limbs)
      BY <1>9, <1>11, <2>2, <3>2, <3>3, Zenon
    <3> QED BY <3>4
  <2>4. \A j \in Places : j < i => r[j] = h[j]
    BY <1>1, <1>7, PlacesFinite
  <2> QED BY <1>1, <1>6, <1>7, <2>1, <2>3, <2>4
<1> QED BY <1>12, <1>13

\* limbs of their width
Fitting(t) == \A i \in Places : t[i] \in 0 .. 2^Width(i) - 1

\* Such limbs make a number below 2^255, which is zero for no other limbs than zeros.
LEMMA FittingNumbers ==
  ASSUME Sized, NEW t \in Elements, Fitting(t)
  PROVE  /\ Value(t) \in Nat /\ Value(t) < 2^Weight(Limbs)
         /\ Value(t) = 0 <=> t = fe_0
<1>1. PICK n \in Nat : n = Limbs /\ Places = 0 .. n - 1
  BY DEF Sized, Places
<1> DEFINE f == Term(t)
           P == [k \in 0 .. n |-> 2^Weight(k)]
           none == [k \in 0 .. n |-> 0]
<1>2. Num!Numbers(f, 0 .. n - 1) /\ Value(t) = Num!Total(f, 0 .. n - 1) /\ Value(t) \in Int
  BY <1>1, Terms, Zenon
<1>3. P \in [0 .. n -> Nat \ {0}]
  BY Powers
<1>4. ASSUME NEW k \in 0 .. n - 1
      PROVE  \E x \in Nat, p \in Nat \ {0}, d \in Nat \ {0} :
               /\ x = t[k] /\ p = P[k] /\ P[k + 1] = p * d /\ f[k] = x * p
               /\ 0 <= x * p /\ x * p <= p * d - p /\ (x # 0 => p <= x * p)
  <2>1. k \in Places /\ k \in Nat /\ k \in 0 .. n /\ k + 1 \in 0 .. n
    BY <1>1
  <2>2. PICK d \in Nat \ {0} : d = 2^Width(k)
    BY <2>1, Powers
  <2>3. PICK x \in 0 .. d - 1 : x = t[k]
    BY <2>1, <2>2 DEF Fitting
  <2>4. PICK p \in Nat \ {0} : p = P[k] /\ P[k + 1] = p * d /\ f[k] = x * p
    BY <2>1, <2>2, <2>3, Powers DEF Term
  <2>5. 0 <= x * p
    OBVIOUS
  <2>6. x * p <= p * d - p
    <3>1. p * (d - 1 - x) >= 0
      <4>1. d - 1 - x \in Nat
        OBVIOUS
      <4> QED BY <4>1
    <3>2. p * (d - 1 - x) = p * d - p - x * p
      OBVIOUS
    <3>3. PICK y \in Int, z \in Int : y = p * d /\ z = x * p
      OBVIOUS
    <3> QED BY <3>1, <3>2, <3>3
  <2>7. x # 0 => p <= x * p
    <3>1. SUFFICES ASSUME x # 0 PROVE p <= x * p
      OBVIOUS
    <3>2. (x - 1) * p >= 0
      <4>1. x - 1 \in Nat
        BY <3>1
      <4> QED BY <4>1
    <3>3. (x - 1) * p = x * p - p
      OBVIOUS
    <3> QED BY <3>2, <3>3
  <2>8. x \in Nat
    OBVIOUS
  <2> HIDE DEF f, P
  <2> QED BY <2>3, <2>4, <2>5, <2>6, <2>7, <2>8, Zenon
<1>5. none \in [0 .. n -> Int] /\ P \in [0 .. n -> Int]
  BY <1>3
<1>6. P[0] = 1 /\ P[n] = 2^Weight(Limbs) /\ P[n] \in Nat
  <2>1. 0 \in 0 .. n /\ n \in 0 .. n
    OBVIOUS
  <2>2. P[0] = 2^Weight(0) /\ P[n] = 2^Weight(n)
    BY <2>1
  <2>3. 2^Weight(0) = 1
    BY Weights, Num!PowerOfTwo
  <2> HIDE DEF P
  <2> QED BY <1>1, <1>3, <2>1, <2>2, <2>3
<1>7. 0 <= Value(t) /\ Value(t) <= P[n] - P[0]
  <2>1. ASSUME NEW k \in 0 .. n - 1
        PROVE  none[k + 1] - none[k] <= f[k] /\ f[k] <= P[k + 1] - P[k]
    <3>1. none[k + 1] - none[k] = 0
      OBVIOUS
    <3> HIDE DEF f, P, none
    <3> QED BY <1>4, <3>1
  <2>2. none[n] - none[0] = 0
    OBVIOUS
  <2> HIDE DEF f, P, none
  <2>3. none[n] - none[0] <= Num!Total(f, 0 .. n - 1) /\ Num!Total(f, 0 .. n - 1) <= P[n] - P[0]
    BY <1>2, <1>5, <2>1, Num!TotalBetween
  <2> QED BY <1>2, <2>2, <2>3
<1>8. Value(t) \in Nat /\ Value(t) < 2^Weight(Limbs)
  <2> HIDE DEF f, P, none
  <2> QED BY <1>2, <1>6, <1>7
<1>9. ASSUME NEW i \in Places, t[i] # 0 PROVE Value(t) # 0
  <2> DEFINE lo == [k \in 0 .. n |-> IF k <= i THEN 0 ELSE 1]
  <2>1. i \in 0 .. n - 1
    BY <1>1
  <2>2. lo \in [0 .. n -> Int] /\ lo[0] = 0 /\ lo[n] = 1
    BY <2>1
  <2>3. ASSUME NEW k \in 0 .. n - 1
        PROVE  lo[k + 1] - lo[k] <= f[k] /\ f[k] <= P[k + 1] - P[k]
    <3>1. lo[k + 1] - lo[k] = IF k = i THEN 1 ELSE 0
      BY <2>1
    <3> HIDE DEF f, P, none, lo
    <3>2. PICK x \in Nat, p \in Nat \ {0}, d \in Nat \ {0} :
            /\ x = t[k] /\ p = P[k] /\ P[k + 1] = p * d /\ f[k] = x * p
            /\ 0 <= x * p /\ x * p <= p * d - p /\ (x # 0 => p <= x * p)
      BY <1>4
    <3>3. PICK y \in Int, z \in Int : y = p * d /\ z = x * p
      OBVIOUS
    <3>4. k = i => x # 0
      BY <1>9, <3>2
    <3> QED BY <3>1, <3>2, <3>3, <3>4
  <2> HIDE DEF f, P, none, lo
  <2>4. lo[n] - lo[0] <= Num!Total(f, 0 .. n - 1)
    BY <1>2, <1>5, <2>2, <2>3, Num!TotalBetween
  <2>5. 1 <= Value(t)
    BY <1>2, <2>2, <2>4
  <2> QED BY <2>5
<1>10. Value(t) = 0 => t = fe_0
  BY <1>9 DEF fe_0, Elements
<1>11. t = fe_0 => Value(t) = 0
  BY ConstantsRight
<1> QED BY <1>8, <1>10, <1>11

\* After all of the carries every limb has its width.
LEMMA FloorsRight ==
  ASSUME Sized, NEW h \in Elements
  PROVE  \E t \in Elements : /\ t = FoldLeft(Floor, h, Up)
                             /\ Fitting(t)
                             /\ \E k \in Int : Value(t) = Value(h) + k * 2^Weight(Limbs)
<1>1. PICK n \in Nat : n = Limbs /\ Places = 0 .. n - 1
  BY DEF Sized, Places
<1>2. PICK s \in [0 .. Limbs -> Elements] :
        /\ s[0] = h
        /\ \A k \in Places : s[k + 1] = Floor(s[k], k)
        /\ FoldLeft(Floor, h, Up) = s[Limbs]
  BY FloorKeeps, FloorSteps
<1>3. PICK w \in Int : w = 2^Weight(Limbs)
  BY TopLimb
<1>4. PICK v \in Int : v = Value(h)
  BY Terms
<1> DEFINE Done(k) == /\ \A j \in Places : j < k => s[k][j] \in 0 .. 2^Width(j) - 1
                      /\ \E q \in Int : Value(s[k]) = v + q * w
           S == {k \in 0 .. n : Done(k)}
<1>5. 0 \in S
  <2>1. \A j \in Places : ~(j < 0)
    BY <1>1
  <2>2. v = v + 0 * w /\ 0 \in Int
    OBVIOUS
  <2>3. \E q \in Int : Value(s[0]) = v + q * w
    BY <1>2, <1>4, <2>2, Zenon
  <2> QED BY <2>1, <2>3
<1>6. ASSUME NEW k \in 0 .. n - 1, k \in S PROVE k + 1 \in S
  <2>1. k \in Places /\ k \in 0 .. Limbs /\ k + 1 \in 0 .. n
    BY <1>1
  <2>2. PICK g \in Elements : g = s[k] /\ s[k + 1] = Floor(g, k)
    BY <1>2, <2>1
  <2>3. PICK q \in Int : Value(g) = v + q * w
    BY <1>6, <2>2
  <2>4. \A j \in Places : j < k => g[j] \in 0 .. 2^Width(j) - 1
    BY <1>6, <2>2
  <2>5. PICK e : e = Floor(g, k)
    OBVIOUS
  <2>6. /\ e[k] \in 0 .. 2^Width(k) - 1 /\ \A j \in Places : j < k => e[j] = g[j]
        /\ \E p \in Int : Value(e) = Value(g) + p * w
    BY <1>3, <2>1, <2>5, FloorKeeps
  <2>7. PICK p \in Int : Value(e) = Value(g) + p * w
    BY <2>6
  <2>8. q + p \in Int /\ Value(e) = v + (q + p) * w
    <3>1. q + p \in Int /\ (v + q * w) + p * w = v + (q + p) * w
      OBVIOUS
    <3> QED BY <2>3, <2>7, <3>1, Zenon
  <2>9. ASSUME NEW j \in Places, j < k + 1 PROVE e[j] \in 0 .. 2^Width(j) - 1
    <3>1. j = k \/ j < k
      BY <1>1, <2>9
    <3> QED BY <2>4, <2>6, <3>1
  <2>10. Done(k + 1)
    BY <2>2, <2>5, <2>8, <2>9, Zenon
  <2> HIDE DEF Done
  <2> QED BY <2>1, <2>10
<1>7. n \in S
  <2>1. 0 .. n \subseteq S
    <3> HIDE DEF S
    <3> QED BY <1>5, <1>6, Num!UpTo
  <2> HIDE DEF S
  <2> QED BY <2>1
<1>8. \A j \in Places : j < n
  BY <1>1
<1>9. s[n] \in Elements /\ Done(n)
  BY <1>1, <1>2, <1>7
<1>10. Fitting(s[n])
  BY <1>8, <1>9 DEF Fitting
<1>11. \E k \in Int : Value(s[n]) = Value(h) + k * 2^Weight(Limbs)
  BY <1>3, <1>4, <1>9, Zenon
<1> QED BY <1>1, <1>2, <1>9, <1>10, <1>11, Zenon

\* What fe_tobytes writes is the number modulo the prime.
LEMMA BytesOf ==
  ASSUME Sized, Roomy, NEW h \in Elements, InBounds(h)
  PROVE  \E t \in Elements : t = fe_tobytes(h) /\ Fitting(t) /\ Value(t) = Value(h) % Prime
<1>1. PICK W \in Nat \ {0}, F \in Nat, m \in Nat \ {0} :
        W = 2^Weight(Limbs) /\ F = Fold /\ m = Prime /\ m = W - F
  <2>1. PICK W \in Nat \ {0} : W = 2^Weight(Limbs)
    BY TopLimb
  <2> QED BY <2>1 DEF Sized, Roomy, Prime
<1>2. PICK v \in Int : v = Value(h)
  BY Terms
<1>3. PICK q \in Int, r \in 0 .. m - 1 : q = Quotient(h) /\ r = v % m /\ v = r + q * m
  <2>1. v \div m \in Int /\ v % m \in 0 .. m - 1 /\ v = (v % m) + (v \div m) * m
    BY Num!Quotients
  <2>2. Quotient(h) = v \div m
    BY <1>1, <1>2, QuotientRight, Zenon
  <2> QED BY <2>1, <2>2
<1>4. PICK x \in Int : x = F * q
  OBVIOUS
<1>5. PICK g \in Elements : g = [h EXCEPT ![0] = @ + Fold * Quotient(h)] /\ Value(g) = v + x
  <2>1. /\ [h EXCEPT ![0] = @ + x] \in Elements
        /\ Value([h EXCEPT ![0] = @ + x]) = v + x * 2^Weight(0)
    BY <1>2, PlacesFinite, OneLimb
  <2>2. 2^Weight(0) = 1
    BY Weights, Num!PowerOfTwo
  <2>3. x * 1 = x
    OBVIOUS
  <2>4. Value([h EXCEPT ![0] = @ + x]) = v + x
    BY <2>1, <2>2, <2>3, Zenon
  <2>5. x = Fold * Quotient(h)
    BY <1>1, <1>3, <1>4
  <2> QED BY <2>1, <2>4, <2>5, Zenon
<1>6. PICK t \in Elements : t = fe_tobytes(h) /\ Fitting(t) /\ \E k \in Int : Value(t) = v + x + k * W
  <2>1. fe_tobytes(h) = FoldLeft(Floor, g, Up)
    BY <1>5 DEF fe_tobytes, Up
  <2> QED BY <1>1, <1>5, <2>1, FloorsRight
<1>7. PICK k \in Int : Value(t) = v + x + k * W
  BY <1>6
<1>8. Value(t) \in 0 .. W - 1
  <2>1. Value(t) \in Nat /\ Value(t) < W
    BY <1>1, <1>6, FittingNumbers
  <2> QED BY <2>1
<1>9. PICK y \in 0 .. W - 1 : y = Value(t)
  BY <1>8
<1>10. y = r + (q + k) * W
  <2>1. q * (W - F) = q * W - F * q /\ (q + k) * W = q * W + k * W
    OBVIOUS
  <2>2. PICK a \in Int, b \in Int : a = q * W /\ b = k * W
    OBVIOUS
  <2>3. v = r + a - x
    BY <1>1, <1>3, <1>4, <2>1, <2>2
  <2> QED BY <1>7, <1>9, <2>1, <2>2, <2>3
<1>11. y = r
  <2>1. r \in 0 .. W - 1
    BY <1>1
  <2>2. y + 0 * W = r + (q + k) * W /\ 0 \in Int /\ q + k \in Int
    BY <1>10
  <2> QED BY <2>1, <2>2, Num!OneRemainder
<1> QED BY <1>1, <1>2, <1>3, <1>6, <1>9, <1>11, Zenon

\* So it is for every register that stands for its number.
LEMMA KeptInBytes ==
  ASSUME Roomy, Kept
  PROVE  BytesRight
<1> SUFFICES ASSUME NEW h \in Registers, InBounds(reg[h])
             PROVE  LET t == fe_tobytes(reg[h])
                    IN  /\ \A i \in Places : t[i] \in 0 .. 2^Width(i) - 1
                        /\ Value(t) = num[h]
                        /\ fe_isnegative(reg[h]) = num[h] % 2
                        /\ fe_isnonzero(reg[h]) <=> num[h] # 0
  BY DEF BytesRight
<1>1. reg[h] \in Elements /\ Value(reg[h]) % Prime = num[h]
  BY DEF Kept, NumbersKept
<1>2. PICK t \in Elements : t = fe_tobytes(reg[h]) /\ Fitting(t) /\ Value(t) = num[h]
  BY <1>1, FieldAssumption, BytesOf
<1>3. Value(t) = 0 <=> t = fe_0
  BY <1>2, FieldAssumption, FittingNumbers
<1> QED BY <1>2, <1>3 DEF Fitting, fe_isnegative, fe_isnonzero

\* Whatever functions of fe.c were called before, fe_tobytes of limbs within its
\* precondition writes the one number below the prime that the register stands for,
\* and the parity and the test for zero are those of that number: for every even
\* number of limbs, every width and every fold that the comment of fe_tobytes allows.
THEOREM BytesAreRight == ASSUME Roomy PROVE FieldSpec => []BytesRight
<1>1. FieldInit => Kept
  BY StartKept
<1>2. Kept /\ [FieldNext]_registers => Kept'
  BY CallKeeps
<1>3. Kept => BytesRight
  BY KeptInBytes
<1> QED BY <1>1, <1>2, <1>3, PTL DEF FieldSpec

-----------------------------------------------------------------------------
(*************************************************************************)
(* Digits of scalars.  A number in digits is a sum, read from the last    *)
(* digit down or from the first up; the recodings keep that sum turn by   *)
(* turn of their loops.                                                   *)
(*************************************************************************)

\* what the digits from place k on show, for each k
Horner(v, e, n, w, a) ==
  /\ v \in [0 .. n -> Int] /\ v[0] = a /\ v[n] = 0
  /\ \A k \in 0 .. n - 1 : v[k] = e[k] + 2^w * v[k + 1]

\* Weights of digits.
LEMMA DigitWeights ==
  ASSUME NEW w \in Nat
  PROVE  /\ 2^w \in Nat \ {0} /\ 2^(w * 0) = 1
         /\ \A k \in Nat : 2^(w * k) \in Nat \ {0} /\ 2^(w * (k + 1)) = 2^(w * k) * 2^w
<1>1. w * 0 = 0
  OBVIOUS
<1>2. ASSUME NEW k \in Nat PROVE 2^(w * k) \in Nat \ {0} /\ 2^(w * (k + 1)) = 2^(w * k) * 2^w
  <2>1. PICK m \in Nat : m = w * k
    OBVIOUS
  <2>2. w * (k + 1) = w * k + w
    OBVIOUS
  <2>3. 2^m \in Nat \ {0} /\ 2^(m + w) = 2^m * 2^w
    BY Num!PowerOfTwo
  <2> QED BY <2>1, <2>2, <2>3, Zenon
<1> QED BY <1>1, <1>2, Num!PowerOfTwo

\* The sum that Denotes speaks of.
LEMMA DigitTotal ==
  ASSUME NEW n \in Nat, NEW w \in Nat, NEW e
  PROVE  MapThenSumSet(LAMBDA i : e[i] * 2^(w * i), 0 .. n - 1)
           = Num!Total([i \in 0 .. n - 1 |-> e[i] * 2^(w * i)], 0 .. n - 1)
<1> DEFINE S == 0 .. n - 1
           f == [i \in S |-> e[i] * 2^(w * i)]
           F(it) == [A \in SUBSET S |-> IF A = {} THEN 0
             ELSE f[CHOOSE x \in A : TRUE] + it[A \ {CHOOSE x \in A : TRUE}]]
           G(it) == [A \in SUBSET S |-> IF A = {} THEN 0
             ELSE e[CHOOSE x \in A : TRUE] * 2^(w * (CHOOSE x \in A : TRUE))
                  + it[A \ {CHOOSE x \in A : TRUE}]]
<1>1. ASSUME NEW it PROVE F(it) = G(it)
  <2>1. ASSUME NEW A \in SUBSET S, A # {}
        PROVE  f[CHOOSE x \in A : TRUE]
                 = e[CHOOSE x \in A : TRUE] * 2^(w * (CHOOSE x \in A : TRUE))
    <3>1. PICK y : y = CHOOSE x \in A : TRUE
      OBVIOUS
    <3>2. y \in S
      BY <2>1, <3>1
    <3>3. f[y] = e[y] * 2^(w * y)
      BY <3>2
    <3> QED BY <3>1, <3>3, Zenon
  <2> QED BY <2>1
<1>2. MapThenSumSet(LAMBDA i : e[i] * 2^(w * i), S) = (CHOOSE it : it = G(it))[S]
  BY Zenon DEF MapThenSumSet, MapThenFoldSet
<1>3. Num!Total(f, S) = (CHOOSE it : it = F(it))[S]
  BY Zenon DEF Num!Total
<1>4. (CHOOSE it : it = F(it)) = (CHOOSE it : it = G(it))
  <2> HIDE DEF F, G
  <2> QED BY <1>1, Zenon
<1> QED BY <1>2, <1>3, <1>4, Zenon

\* the weights of the digits and what the digits from place k on add up to, for each k
Remains(u, e, n, w, a) ==
  /\ u \in [0 .. n -> Int] /\ u[0] = a /\ u[n] = 0
  /\ \A k \in 0 .. n - 1 : u[k] = e[k] * 2^(w * k) + u[k + 1]

\* Digits add up to the number that they have a tail at 0 of.
LEMMA RemainsDenote ==
  ASSUME NEW n \in Nat, NEW w \in Nat, NEW e, \A k \in 0 .. n - 1 : e[k] \in Int,
         NEW a \in Int, NEW u, Remains(u, e, n, w, a)
  PROVE  Denotes(e, n, w, a)
<1> DEFINE f == [k \in 0 .. n - 1 |-> e[k] * 2^(w * k)]
           at == [k \in 0 .. n |-> -u[k]]
<1>1. /\ u \in [0 .. n -> Int] /\ u[0] = a /\ u[n] = 0
      /\ \A k \in 0 .. n - 1 : u[k] = e[k] * 2^(w * k) + u[k + 1]
  BY DEF Remains
<1>2. ASSUME NEW k \in 0 .. n - 1 PROVE f[k] \in Int /\ u[k] = f[k] + u[k + 1]
  <2>1. PICK x \in Int, p \in Int : x = e[k] /\ p = 2^(w * k)
    <3>1. k \in Nat
      OBVIOUS
    <3>2. 2^(w * k) \in Int
      BY <3>1, DigitWeights
    <3> QED BY <3>2
  <2>2. f[k] = x * p
    BY <2>1
  <2> QED BY <1>1, <2>1, <2>2
<1>3. Num!Numbers(f, 0 .. n - 1)
  <2> HIDE DEF f
  <2> QED BY <1>2 DEF Num!Numbers
<1>4. at \in [0 .. n -> Int]
  BY <1>1
<1>5. ASSUME NEW k \in 0 .. n - 1 PROVE at[k + 1] - at[k] <= f[k] /\ f[k] <= at[k + 1] - at[k]
  <2>1. k \in 0 .. n /\ k + 1 \in 0 .. n
    OBVIOUS
  <2>2. PICK x \in Int, y \in Int, z \in Int : x = u[k] /\ y = u[k + 1] /\ z = f[k]
    <3> HIDE DEF f
    <3> QED BY <1>1, <1>2, <2>1
  <2>3. x = z + y /\ at[k] = -x /\ at[k + 1] = -y
    <3> HIDE DEF f
    <3> QED BY <1>2, <2>1, <2>2
  <2> HIDE DEF f, at
  <2> QED BY <2>2, <2>3
<1>6. at[n] - at[0] = a
  <2>1. 0 \in 0 .. n /\ n \in 0 .. n
    OBVIOUS
  <2>2. at[n] = -0 /\ at[0] = -a
    BY <1>1, <2>1
  <2> HIDE DEF at
  <2> QED BY <2>2
<1>7. Num!Total(f, 0 .. n - 1) \in Int
  <2>1. Num!IsFiniteSet(0 .. n - 1)
    <3>1. n - 1 \in Int
      OBVIOUS
    <3> QED BY <3>1, Num!FS_Interval
  <2> HIDE DEF f
  <2> QED BY <1>3, <2>1, Num!TotalStep
<1>8. at[n] - at[0] <= Num!Total(f, 0 .. n - 1) /\ Num!Total(f, 0 .. n - 1) <= at[n] - at[0]
  <2> HIDE DEF f, at
  <2> QED BY <1>3, <1>4, <1>5, Num!TotalBetween
<1>9. Num!Total(f, 0 .. n - 1) = a
  <2> HIDE DEF f, at
  <2> QED BY <1>6, <1>7, <1>8
<1>10. MapThenSumSet(LAMBDA i : e[i] * 2^(w * i), 0 .. n - 1) = Num!Total(f, 0 .. n - 1)
  BY DigitTotal
<1> HIDE DEF f
<1> QED BY <1>9, <1>10, Zenon DEF Denotes

\* What digits show, weighed.
LEMMA HornerRemains ==
  ASSUME NEW n \in Nat, NEW w \in Nat, NEW e, \A k \in 0 .. n - 1 : e[k] \in Int,
         NEW a \in Int, NEW v, Horner(v, e, n, w, a)
  PROVE  Remains([k \in 0 .. n |-> v[k] * 2^(w * k)], e, n, w, a)
<1> DEFINE u == [k \in 0 .. n |-> v[k] * 2^(w * k)]
<1>1. /\ v \in [0 .. n -> Int] /\ v[0] = a /\ v[n] = 0
      /\ \A k \in 0 .. n - 1 : v[k] = e[k] + 2^w * v[k + 1]
  BY DEF Horner
<1>2. ASSUME NEW k \in 0 .. n PROVE v[k] \in Int /\ 2^(w * k) \in Nat \ {0} /\ u[k] = v[k] * 2^(w * k)
  <2>1. k \in Nat
    OBVIOUS
  <2> QED BY <1>1, <2>1, DigitWeights
<1>3. u \in [0 .. n -> Int]
  <2>1. ASSUME NEW k \in 0 .. n PROVE v[k] * 2^(w * k) \in Int
    <3>1. PICK x \in Int, p \in Int : x = v[k] /\ p = 2^(w * k)
      BY <1>2
    <3> QED BY <3>1
  <2> QED BY <2>1
<1>4. u[0] = a /\ u[n] = 0
  <2>1. 0 \in 0 .. n /\ n \in 0 .. n
    OBVIOUS
  <2>2. u[0] = a * 1
    BY <1>1, <1>2, <2>1, DigitWeights
  <2>3. PICK p \in Int : p = 2^(w * n)
    BY <1>2, <2>1
  <2>4. u[n] = 0 * p
    BY <1>1, <1>2, <2>1, <2>3
  <2> HIDE DEF u
  <2> QED BY <2>2, <2>4
<1>5. ASSUME NEW k \in 0 .. n - 1 PROVE u[k] = e[k] * 2^(w * k) + u[k + 1]
  <2>1. k \in 0 .. n /\ k + 1 \in 0 .. n /\ k \in Nat
    OBVIOUS
  <2>2. PICK x \in Int, y \in Int, z \in Int, p \in Int, d \in Int :
          /\ x = v[k] /\ y = v[k + 1] /\ z = e[k] /\ p = 2^(w * k) /\ d = 2^w
          /\ 2^(w * (k + 1)) = p * d
    <3>1. v[k] \in Int /\ v[k + 1] \in Int /\ e[k] \in Int
      BY <1>1, <2>1
    <3>2. 2^(w * k) \in Int /\ 2^w \in Int /\ 2^(w * (k + 1)) = 2^(w * k) * 2^w
      BY <2>1, DigitWeights
    <3> QED BY <3>1, <3>2
  <2>3. x = z + d * y
    BY <1>1, <2>2
  <2>4. u[k] = x * p /\ u[k + 1] = y * (p * d)
    BY <1>2, <2>1, <2>2
  <2>5. (z + d * y) * p = z * p + y * (p * d)
    OBVIOUS
  <2> HIDE DEF u
  <2> QED BY <2>2, <2>3, <2>4, <2>5, Zenon
<1> HIDE DEF u
<1>6. Remains(u, e, n, w, a)
  BY <1>3, <1>4, <1>5 DEF Remains
<1> QED BY <1>6 DEF u

\* Digits show the number that they add up to.
LEMMA HornerDenotes ==
  ASSUME NEW n \in Nat, NEW w \in Nat, NEW e, \A k \in 0 .. n - 1 : e[k] \in Int,
         NEW a \in Int, NEW v, Horner(v, e, n, w, a)
  PROVE  Denotes(e, n, w, a)
BY HornerRemains, RemainsDenote

\* To divide by one number and then by another is to divide by their product.
LEMMA DivisionTwice ==
  ASSUME NEW a \in Nat, NEW p \in Nat \ {0}, NEW d \in Nat \ {0}
  PROVE  (a \div p) \div d = a \div (p * d)
<1>1. PICK x \in Int, r \in 0 .. p - 1 : x = a \div p /\ a = r + x * p
  <2>1. a \div p \in Int /\ a % p \in 0 .. p - 1 /\ a = (a % p) + (a \div p) * p
    BY Num!Quotients
  <2> QED BY <2>1
<1>2. PICK y \in Int, s \in 0 .. d - 1 : y = x \div d /\ x = s + y * d
  <2>1. x \div d \in Int /\ x % d \in 0 .. d - 1 /\ x = (x % d) + (x \div d) * d
    BY Num!Quotients
  <2> QED BY <2>1
<1>3. PICK w \in Nat \ {0} : w = p * d
  OBVIOUS
<1>4. PICK z \in Int, t \in 0 .. w - 1 : z = a \div w /\ a = t + z * w
  <2>1. a \div w \in Int /\ a % w \in 0 .. w - 1 /\ a = (a % w) + (a \div w) * w
    BY Num!Quotients
  <2> QED BY <2>1
<1>5. y * w <= a /\ a < y * w + w
  <2>1. (s + y * d) * p = s * p + y * (p * d)
    OBVIOUS
  <2>2. 0 <= s * p /\ s * p <= p * d - p
    <3>1. s \in Nat /\ d - 1 - s \in Nat
      OBVIOUS
    <3>2. s * p >= 0 /\ (d - 1 - s) * p >= 0
      BY <3>1
    <3>3. (d - 1 - s) * p = p * d - p - s * p
      OBVIOUS
    <3> QED BY <3>2, <3>3
  <2>3. PICK A \in Int, B \in Int, C \in Int : A = s * p /\ B = y * (p * d) /\ C = x * p
    OBVIOUS
  <2>4. C = A + B
    BY <1>2, <2>1, <2>3, Zenon
  <2>5. a = r + C /\ B = y * w /\ 0 <= A /\ A <= w - p
    BY <1>1, <1>3, <2>2, <2>3
  <2> QED BY <2>3, <2>4, <2>5
<1>6. z * w <= a /\ a < z * w + w
  <2>1. PICK A \in Int : A = z * w
    OBVIOUS
  <2> QED BY <1>4, <2>1
<1>7. y = z
  BY <1>5, <1>6, SameQuotient
<1> QED BY <1>1, <1>2, <1>3, <1>4, <1>7

\* What is left of a number when digits are cut off: it shows the number.
LEMMA CutShows ==
  ASSUME NEW n \in Nat, NEW w \in Nat, NEW a \in Nat, a < 2^(w * n)
  PROVE  LET q == [k \in 0 .. n |-> a \div 2^(w * k)]
         IN  /\ Horner(q, Cut(a, n, w), n, w, a)
             /\ \A k \in 0 .. n : q[k] \in Nat
             /\ \A k \in 0 .. n - 1 : Cut(a, n, w)[k] \in 0 .. 2^w - 1
<1> DEFINE q == [k \in 0 .. n |-> a \div 2^(w * k)]
           e == Cut(a, n, w)
<1>1. PICK d \in Nat \ {0} : d = 2^w
  BY DigitWeights
<1>2. ASSUME NEW k \in 0 .. n PROVE q[k] \in Nat
  <2>1. PICK p \in Nat \ {0} : p = 2^(w * k)
    BY DigitWeights
  <2>2. a \div p \in Nat
    OBVIOUS
  <2> QED BY <2>1, <2>2
<1>3. q[0] = a
  <2>1. 2^(w * 0) = 1 /\ 0 \in 0 .. n
    BY DigitWeights
  <2>2. q[0] = a \div 1
    BY <2>1
  <2> QED BY <2>2
<1>4. q[n] = 0
  <2>1. PICK p \in Nat \ {0} : p = 2^(w * n)
    BY DigitWeights
  <2>2. a < p
    BY <2>1
  <2>3. a \div p = 0
    BY <2>2
  <2> QED BY <2>1, <2>3
<1>5. ASSUME NEW k \in 0 .. n - 1
      PROVE  e[k] = q[k] % d /\ q[k + 1] = q[k] \div d
  <2>1. PICK p \in Nat \ {0} : p = 2^(w * k) /\ 2^(w * (k + 1)) = p * d
    <3>1. k \in Nat
      OBVIOUS
    <3>2. 2^(w * k) \in Nat \ {0} /\ 2^(w * (k + 1)) = 2^(w * k) * 2^w
      BY <3>1, DigitWeights
    <3> QED BY <1>1, <3>2
  <2>2. k \in 0 .. n /\ k + 1 \in 0 .. n
    OBVIOUS
  <2>3. q[k] = a \div p /\ q[k + 1] = a \div (p * d)
    BY <2>1, <2>2
  <2>4. e[k] = (a \div p) % d
    BY <1>1, <2>1 DEF Cut
  <2>5. (a \div p) \div d = a \div (p * d)
    BY DivisionTwice
  <2> QED BY <2>3, <2>4, <2>5
<1>6. ASSUME NEW k \in 0 .. n - 1
      PROVE  q[k] = e[k] + 2^w * q[k + 1] /\ e[k] \in 0 .. 2^w - 1
  <2>1. PICK x \in Nat : x = q[k]
    <3>1. k \in 0 .. n
      OBVIOUS
    <3>2. q[k] \in Nat
      BY <1>2, <3>1
    <3> QED BY <3>2
  <2>2. x \div d \in Int /\ x % d \in 0 .. d - 1 /\ x = (x % d) + (x \div d) * d
    BY Num!Quotients
  <2>3. e[k] = x % d /\ q[k + 1] = x \div d
    BY <1>5, <2>1
  <2>4. PICK y \in Int, r \in 0 .. d - 1 : y = x \div d /\ r = x % d
    BY <2>2
  <2>5. x = r + d * y
    BY <2>2, <2>4
  <2> HIDE DEF q, e
  <2> QED BY <1>1, <2>1, <2>3, <2>4, <2>5
<1>7. q \in [0 .. n -> Int]
  BY <1>2
<1> HIDE DEF q, e
<1>8. Horner(q, e, n, w, a)
  BY <1>3, <1>4, <1>6, <1>7 DEF Horner
<1>9. \A k \in 0 .. n : q[k] \in Nat
  BY <1>2
<1>10. \A k \in 0 .. n - 1 : e[k] \in 0 .. 2^w - 1
  BY <1>6
<1> QED BY <1>8, <1>9, <1>10 DEF q, e

\* The last digit of a number that leaves bits free.
LEMMA LastDigit ==
  ASSUME NEW n \in Nat \ {0}, NEW w \in Nat, NEW m \in 0 .. w, NEW a \in Nat,
         a < 2^(w * n - m)
  PROVE  a < 2^(w * n) /\ a \div 2^(w * (n - 1)) < 2^(w - m)
<1>1. PICK i \in Nat : i = w * (n - 1) /\ w * n - m = i + (w - m) /\ w * n = (i + (w - m)) + m
  <2>1. w * (n - 1) \in Nat /\ w * n = w * (n - 1) + w
    <3>1. n - 1 \in Nat
      OBVIOUS
    <3> QED BY <3>1
  <2> QED BY <2>1
<1>2. PICK j \in Nat : j = w - m
  OBVIOUS
<1>3. PICK p \in Nat \ {0}, d \in Nat \ {0}, f \in Nat \ {0} :
        p = 2^i /\ d = 2^j /\ f = 2^m /\ 2^(i + j) = p * d /\ 2^((i + j) + m) = (p * d) * f
  <2>1. 2^i \in Nat \ {0} /\ 2^j \in Nat \ {0} /\ 2^m \in Nat \ {0}
    BY <1>2, Num!PowerOfTwo
  <2>2. i + j \in Nat /\ m \in Nat
    OBVIOUS
  <2>3. 2^(i + j) = 2^i * 2^j /\ 2^((i + j) + m) = 2^(i + j) * 2^m
    BY <2>2, Num!PowerOfTwo
  <2> QED BY <2>1, <2>3
<1>4. a < p * d
  BY <1>1, <1>2, <1>3
<1>5. a < (p * d) * f
  <2>1. PICK x \in Nat : x = p * d
    OBVIOUS
  <2>2. x * f >= x
    <3>1. f - 1 \in Nat
      OBVIOUS
    <3>2. x * (f - 1) >= 0
      BY <3>1
    <3> QED BY <3>2
  <2> QED BY <1>4, <2>1, <2>2
<1>6. a \div p < d
  <2>1. a \div p \in Int /\ a % p \in 0 .. p - 1 /\ a = (a % p) + (a \div p) * p
    BY Num!Quotients
  <2>2. PICK q \in Int : q = a \div p
    BY <2>1
  <2>3. SUFFICES ASSUME q >= d PROVE FALSE
    BY <2>2
  <2>4. (q - d) * p >= 0
    <3>1. q - d \in Nat
      BY <2>3
    <3> QED BY <3>1
  <2>5. (q - d) * p = q * p - p * d
    OBVIOUS
  <2>6. PICK y \in Int, x \in Int : y = q * p /\ x = p * d
    OBVIOUS
  <2> QED BY <1>4, <2>1, <2>2, <2>4, <2>5, <2>6
<1> QED BY <1>1, <1>2, <1>3, <1>5, <1>6

\* The values of a fold over 1 .. n, one after the other.
StepsOf(fold, n, T, a, F) ==
  /\ fold[{}] = a
  /\ \A k \in 1 .. n : fold[1 .. k - 1] \in T => fold[1 .. k] = F[k][fold[1 .. k - 1]]

\* A fold over 1 .. n is a computation of n steps.
LEMMA StepByStep ==
  ASSUME NEW n \in Nat, NEW T, NEW a \in T, NEW F \in [1 .. n -> [T -> T]],
         NEW fold, StepsOf(fold, n, T, a, F)
  PROVE  \E s : Num!Computes(s, T, a, F, n) /\ s[n] = fold[1 .. n]
<1>s. /\ fold[{}] = a
      /\ \A k \in 1 .. n : fold[1 .. k - 1] \in T => fold[1 .. k] = F[k][fold[1 .. k - 1]]
  BY DEF StepsOf
<1> DEFINE s == [k \in 0 .. n |-> fold[1 .. k]]
           S == {k \in 0 .. n : fold[1 .. k] \in T}
<1>1. fold[1 .. 0] = a
  <2>1. 1 .. 0 = {}
    OBVIOUS
  <2> QED BY <1>s, <2>1
<1>2. 0 \in S
  BY <1>1
<1>3. ASSUME NEW k \in 0 .. n - 1, k \in S PROVE k + 1 \in S
  <2>1. PICK j \in 1 .. n : j = k + 1 /\ j - 1 = k
    OBVIOUS
  <2>2. fold[1 .. j - 1] \in T
    BY <1>3, <2>1
  <2>3. fold[1 .. j] = F[j][fold[1 .. j - 1]]
    BY <1>s, <2>2
  <2>4. F[j][fold[1 .. j - 1]] \in T
    BY <2>2
  <2>5. j \in 0 .. n /\ fold[1 .. j] \in T
    BY <2>1, <2>3, <2>4
  <2> QED BY <2>1, <2>5
<1>4. 0 .. n \subseteq S
  <2> HIDE DEF S
  <2> QED BY <1>2, <1>3, Num!UpTo
<1>5. s \in [0 .. n -> T]
  BY <1>4
<1>6. s[0] = a /\ s[n] = fold[1 .. n]
  <2>1. 0 \in 0 .. n /\ n \in 0 .. n
    OBVIOUS
  <2> QED BY <1>1, <2>1
<1>7. ASSUME NEW k \in 1 .. n PROVE s[k] = F[k][s[k - 1]]
  <2>1. PICK j \in 0 .. n : j = k - 1
    OBVIOUS
  <2>2. k \in 0 .. n
    OBVIOUS
  <2>3. s[k] = fold[1 .. k] /\ s[j] = fold[1 .. j]
    BY <2>2
  <2>4. fold[1 .. j] \in T
    BY <1>4
  <2>5. fold[1 .. k] = F[k][fold[1 .. j]]
    BY <1>s, <2>1, <2>4
  <2> HIDE DEF s
  <2> QED BY <2>1, <2>3, <2>5, Zenon
<1> HIDE DEF s
<1>8. Num!Computes(s, T, a, F, n)
  BY <1>5, <1>6, <1>7 DEF Num!Computes
<1> QED BY <1>6, <1>8

\* the steps of the loops from 0
Rising(n) == [i \in 1 .. n |-> i - 1]

\* The loop of ge_scalarmult_base, turn by turn.
NibbleStay(T, n) == \A t \in T, k \in 1 .. n : Nibble(t, k - 1) \in T
NibbleSteps(s, T, a, n) ==
  /\ s \in [0 .. n -> T] /\ s[0] = a
  /\ \A k \in 1 .. n : s[k] = Nibble(s[k - 1], k - 1)

\* Its turns are such steps.
LEMMA NibbleFold ==
  ASSUME NEW n \in Nat, NEW T, NEW a \in T, NibbleStay(T, n)
  PROVE  \E s : NibbleSteps(s, T, a, n) /\ FoldLeft(Nibble, a, Rising(n)) = s[n]
<1>0. \A t \in T, k \in 1 .. n : Nibble(t, k - 1) \in T
  BY DEF NibbleStay
<1> DEFINE seq == Rising(n)
           F == [k \in 1 .. n |-> [t \in T |-> Nibble(t, seq[k])]]
           Body(it) == [A \in SUBSET (1 .. n) |->
                          IF A = {} THEN a ELSE Nibble(it[A \ {Num!Highest(A)}], seq[Num!Highest(A)])]
           fold == CHOOSE it : it = Body(it)
<1>1. DOMAIN seq = 1 .. n /\ \A k \in 1 .. n : seq[k] = k - 1
  BY DEF Rising
<1>2. \A k \in 1 .. n, t \in T : F[k][t] = Nibble(t, seq[k]) /\ F[k][t] = Nibble(t, k - 1)
  <2> HIDE DEF seq
  <2> QED BY <1>1
<1>3. F \in [1 .. n -> [T -> T]]
  <2>1. \A k \in 1 .. n, t \in T : Nibble(t, seq[k]) \in T
    <3> HIDE DEF seq
    <3> QED BY <1>0, <1>1
  <2> HIDE DEF seq
  <2> QED BY <2>1
<1>4. PICK it \in [SUBSET (1 .. n) -> T] : Num!FoldsUp(it, T, n, a, F)
  <2> HIDE DEF F
  <2> QED BY <1>3, Num!FoldUpExists
<1>5. it = Body(it)
  <2>1. ASSUME NEW A \in SUBSET (1 .. n), A # {}
        PROVE  F[Num!Highest(A)][it[A \ {Num!Highest(A)}]] = Nibble(it[A \ {Num!Highest(A)}], seq[Num!Highest(A)])
    <3>1. PICK k : k = Num!Highest(A)
      OBVIOUS
    <3>2. k \in A
      BY <2>1, <3>1, Num!HighestOf
    <3>3. k \in 1 .. n /\ it[A \ {k}] \in T
      BY <3>2
    <3> HIDE DEF F, seq
    <3>4. F[k][it[A \ {k}]] = Nibble(it[A \ {k}], seq[k])
      BY <1>2, <3>3
    <3> QED BY <3>1, <3>4, Zenon
  <2> HIDE DEF F, seq
  <2> QED BY <1>4, <2>1 DEF Num!FoldsUp
<1>6. FoldLeft(Nibble, a, Rising(n)) = fold[1 .. n]
  <2>1. DOMAIN seq = 1 .. n
    BY <1>1
  <2> QED BY <2>1, Zenon DEF FoldLeft, MapThenFoldSet, Num!Highest, Max, Rising
<1>7. fold = Body(fold)
  <2> HIDE DEF Body
  <2> QED BY <1>5
<1> HIDE DEF fold
<1>8. fold[{}] = a
  <2>1. {} \in SUBSET (1 .. n)
    OBVIOUS
  <2> QED BY <1>7, <2>1
<1>9. ASSUME NEW k \in 1 .. n, fold[1 .. k - 1] \in T
      PROVE  fold[1 .. k] = F[k][fold[1 .. k - 1]]
  <2>1. /\ 1 .. k \in SUBSET (1 .. n) /\ 1 .. k # {} /\ Num!Highest(1 .. k) = k
        /\ (1 .. k) \ {k} = 1 .. k - 1
    BY Num!Prefixes
  <2>2. PICK A : A = 1 .. k
    OBVIOUS
  <2> HIDE DEF seq
  <2>3. fold[A] = Nibble(fold[A \ {Num!Highest(A)}], seq[Num!Highest(A)])
    BY <1>7, <2>1, <2>2
  <2>4. fold[1 .. k] = Nibble(fold[1 .. k - 1], seq[k])
    BY <2>1, <2>2, <2>3, Zenon
  <2> HIDE DEF F
  <2> QED BY <1>2, <1>9, <2>4
<1>10. PICK s : Num!Computes(s, T, a, F, n) /\ s[n] = fold[1 .. n]
  <2> HIDE DEF F
  <2>1. StepsOf(fold, n, T, a, F)
    BY <1>8, <1>9 DEF StepsOf
  <2> QED BY <1>3, <2>1, StepByStep
<1>s. s \in [0 .. n -> T] /\ s[0] = a /\ \A k \in 1 .. n : s[k] = F[k][s[k - 1]]
  <2> HIDE DEF F
  <2> QED BY <1>10 DEF Num!Computes
<1>11. ASSUME NEW k \in 1 .. n PROVE s[k] = Nibble(s[k - 1], k - 1)
  <2>1. s[k - 1] \in T
    BY <1>s
  <2> HIDE DEF F
  <2> QED BY <1>2, <1>s, <2>1
<1>12. NibbleSteps(s, T, a, n)
  BY <1>s, <1>11 DEF NibbleSteps
<1> QED BY <1>6, <1>10, <1>12, Zenon

\* The loops of the windows.
WindowStay(T, n, w) == \A t \in T, k \in 1 .. n : Windowed(t, k - 1, w) \in T
WindowSteps(s, T, a, n, w) ==
  /\ s \in [0 .. n -> T] /\ s[0] = a
  /\ \A k \in 1 .. n : s[k] = Windowed(s[k - 1], k - 1, w)

Windows(a, n, w) == FoldLeft(LAMBDA t, i : Windowed(t, i, w), a, Rising(n))

\* Its turns are such steps.
LEMMA WindowFold ==
  ASSUME NEW n \in Nat, NEW w, NEW T, NEW a \in T, WindowStay(T, n, w)
  PROVE  \E s : WindowSteps(s, T, a, n, w) /\ Windows(a, n, w) = s[n]
<1>0. \A t \in T, k \in 1 .. n : Windowed(t, k - 1, w) \in T
  BY DEF WindowStay
<1> DEFINE seq == Rising(n)
           F == [k \in 1 .. n |-> [t \in T |-> Windowed(t, seq[k], w)]]
           Body(it) == [A \in SUBSET (1 .. n) |->
                          IF A = {} THEN a ELSE Windowed(it[A \ {Num!Highest(A)}], seq[Num!Highest(A)], w)]
           fold == CHOOSE it : it = Body(it)
<1>1. DOMAIN seq = 1 .. n /\ \A k \in 1 .. n : seq[k] = k - 1
  BY DEF Rising
<1>2. \A k \in 1 .. n, t \in T : F[k][t] = Windowed(t, seq[k], w) /\ F[k][t] = Windowed(t, k - 1, w)
  <2> HIDE DEF seq
  <2> QED BY <1>1
<1>3. F \in [1 .. n -> [T -> T]]
  <2>1. \A k \in 1 .. n, t \in T : Windowed(t, seq[k], w) \in T
    <3> HIDE DEF seq
    <3> QED BY <1>0, <1>1
  <2> HIDE DEF seq
  <2> QED BY <2>1
<1>4. PICK it \in [SUBSET (1 .. n) -> T] : Num!FoldsUp(it, T, n, a, F)
  <2> HIDE DEF F
  <2> QED BY <1>3, Num!FoldUpExists
<1>5. it = Body(it)
  <2>1. ASSUME NEW A \in SUBSET (1 .. n), A # {}
        PROVE  F[Num!Highest(A)][it[A \ {Num!Highest(A)}]] = Windowed(it[A \ {Num!Highest(A)}], seq[Num!Highest(A)], w)
    <3>1. PICK k : k = Num!Highest(A)
      OBVIOUS
    <3>2. k \in A
      BY <2>1, <3>1, Num!HighestOf
    <3>3. k \in 1 .. n /\ it[A \ {k}] \in T
      BY <3>2
    <3> HIDE DEF F, seq
    <3>4. F[k][it[A \ {k}]] = Windowed(it[A \ {k}], seq[k], w)
      BY <1>2, <3>3
    <3> QED BY <3>1, <3>4, Zenon
  <2> HIDE DEF F, seq
  <2> QED BY <1>4, <2>1 DEF Num!FoldsUp
<1>6. Windows(a, n, w) = fold[1 .. n]
  <2>1. DOMAIN seq = 1 .. n
    BY <1>1
  <2> QED BY <2>1, Zenon DEF FoldLeft, MapThenFoldSet, Num!Highest, Max, Rising, Windows
<1>7. fold = Body(fold)
  <2> HIDE DEF Body
  <2> QED BY <1>5
<1> HIDE DEF fold
<1>8. fold[{}] = a
  <2>1. {} \in SUBSET (1 .. n)
    OBVIOUS
  <2> QED BY <1>7, <2>1
<1>9. ASSUME NEW k \in 1 .. n, fold[1 .. k - 1] \in T
      PROVE  fold[1 .. k] = F[k][fold[1 .. k - 1]]
  <2>1. /\ 1 .. k \in SUBSET (1 .. n) /\ 1 .. k # {} /\ Num!Highest(1 .. k) = k
        /\ (1 .. k) \ {k} = 1 .. k - 1
    BY Num!Prefixes
  <2>2. PICK A : A = 1 .. k
    OBVIOUS
  <2> HIDE DEF seq
  <2>3. fold[A] = Windowed(fold[A \ {Num!Highest(A)}], seq[Num!Highest(A)], w)
    BY <1>7, <2>1, <2>2
  <2>4. fold[1 .. k] = Windowed(fold[1 .. k - 1], seq[k], w)
    BY <2>1, <2>2, <2>3, Zenon
  <2> HIDE DEF F
  <2> QED BY <1>2, <1>9, <2>4
<1>10. PICK s : Num!Computes(s, T, a, F, n) /\ s[n] = fold[1 .. n]
  <2> HIDE DEF F
  <2>1. StepsOf(fold, n, T, a, F)
    BY <1>8, <1>9 DEF StepsOf
  <2> QED BY <1>3, <2>1, StepByStep
<1>s. s \in [0 .. n -> T] /\ s[0] = a /\ \A k \in 1 .. n : s[k] = F[k][s[k - 1]]
  <2> HIDE DEF F
  <2> QED BY <1>10 DEF Num!Computes
<1>11. ASSUME NEW k \in 1 .. n PROVE s[k] = Windowed(s[k - 1], k - 1, w)
  <2>1. s[k - 1] \in T
    BY <1>s
  <2> HIDE DEF F
  <2> QED BY <1>2, <1>s, <2>1
<1>12. WindowSteps(s, T, a, n, w)
  BY <1>s, <1>11 DEF WindowSteps
<1> QED BY <1>6, <1>10, <1>12, Zenon

\* The outer loop of slide.
SlideStay(T, n) == \A t \in T, k \in 1 .. n : Gathered(t, k - 1) \in T
SlideSteps(s, T, a, n) ==
  /\ s \in [0 .. n -> T] /\ s[0] = a
  /\ \A k \in 1 .. n : s[k] = Gathered(s[k - 1], k - 1)

\* Its turns are such steps.
LEMMA SlideFold ==
  ASSUME NEW n \in Nat, NEW T, NEW a \in T, SlideStay(T, n)
  PROVE  \E s : SlideSteps(s, T, a, n) /\ FoldLeft(Gathered, a, Rising(n)) = s[n]
<1>0. \A t \in T, k \in 1 .. n : Gathered(t, k - 1) \in T
  BY DEF SlideStay
<1> DEFINE seq == Rising(n)
           F == [k \in 1 .. n |-> [t \in T |-> Gathered(t, seq[k])]]
           Body(it) == [A \in SUBSET (1 .. n) |->
                          IF A = {} THEN a ELSE Gathered(it[A \ {Num!Highest(A)}], seq[Num!Highest(A)])]
           fold == CHOOSE it : it = Body(it)
<1>1. DOMAIN seq = 1 .. n /\ \A k \in 1 .. n : seq[k] = k - 1
  BY DEF Rising
<1>2. \A k \in 1 .. n, t \in T : F[k][t] = Gathered(t, seq[k]) /\ F[k][t] = Gathered(t, k - 1)
  <2> HIDE DEF seq
  <2> QED BY <1>1
<1>3. F \in [1 .. n -> [T -> T]]
  <2>1. \A k \in 1 .. n, t \in T : Gathered(t, seq[k]) \in T
    <3> HIDE DEF seq
    <3> QED BY <1>0, <1>1
  <2> HIDE DEF seq
  <2> QED BY <2>1
<1>4. PICK it \in [SUBSET (1 .. n) -> T] : Num!FoldsUp(it, T, n, a, F)
  <2> HIDE DEF F
  <2> QED BY <1>3, Num!FoldUpExists
<1>5. it = Body(it)
  <2>1. ASSUME NEW A \in SUBSET (1 .. n), A # {}
        PROVE  F[Num!Highest(A)][it[A \ {Num!Highest(A)}]] = Gathered(it[A \ {Num!Highest(A)}], seq[Num!Highest(A)])
    <3>1. PICK k : k = Num!Highest(A)
      OBVIOUS
    <3>2. k \in A
      BY <2>1, <3>1, Num!HighestOf
    <3>3. k \in 1 .. n /\ it[A \ {k}] \in T
      BY <3>2
    <3> HIDE DEF F, seq
    <3>4. F[k][it[A \ {k}]] = Gathered(it[A \ {k}], seq[k])
      BY <1>2, <3>3
    <3> QED BY <3>1, <3>4, Zenon
  <2> HIDE DEF F, seq
  <2> QED BY <1>4, <2>1 DEF Num!FoldsUp
<1>6. FoldLeft(Gathered, a, Rising(n)) = fold[1 .. n]
  <2>1. DOMAIN seq = 1 .. n
    BY <1>1
  <2> QED BY <2>1, Zenon DEF FoldLeft, MapThenFoldSet, Num!Highest, Max, Rising
<1>7. fold = Body(fold)
  <2> HIDE DEF Body
  <2> QED BY <1>5
<1> HIDE DEF fold
<1>8. fold[{}] = a
  <2>1. {} \in SUBSET (1 .. n)
    OBVIOUS
  <2> QED BY <1>7, <2>1
<1>9. ASSUME NEW k \in 1 .. n, fold[1 .. k - 1] \in T
      PROVE  fold[1 .. k] = F[k][fold[1 .. k - 1]]
  <2>1. /\ 1 .. k \in SUBSET (1 .. n) /\ 1 .. k # {} /\ Num!Highest(1 .. k) = k
        /\ (1 .. k) \ {k} = 1 .. k - 1
    BY Num!Prefixes
  <2>2. PICK A : A = 1 .. k
    OBVIOUS
  <2> HIDE DEF seq
  <2>3. fold[A] = Gathered(fold[A \ {Num!Highest(A)}], seq[Num!Highest(A)])
    BY <1>7, <2>1, <2>2
  <2>4. fold[1 .. k] = Gathered(fold[1 .. k - 1], seq[k])
    BY <2>1, <2>2, <2>3, Zenon
  <2> HIDE DEF F
  <2> QED BY <1>2, <1>9, <2>4
<1>10. PICK s : Num!Computes(s, T, a, F, n) /\ s[n] = fold[1 .. n]
  <2> HIDE DEF F
  <2>1. StepsOf(fold, n, T, a, F)
    BY <1>8, <1>9 DEF StepsOf
  <2> QED BY <1>3, <2>1, StepByStep
<1>s. s \in [0 .. n -> T] /\ s[0] = a /\ \A k \in 1 .. n : s[k] = F[k][s[k - 1]]
  <2> HIDE DEF F
  <2> QED BY <1>10 DEF Num!Computes
<1>11. ASSUME NEW k \in 1 .. n PROVE s[k] = Gathered(s[k - 1], k - 1)
  <2>1. s[k - 1] \in T
    BY <1>s
  <2> HIDE DEF F
  <2> QED BY <1>2, <1>s, <2>1
<1>12. SlideSteps(s, T, a, n)
  BY <1>s, <1>11 DEF SlideSteps
<1> QED BY <1>6, <1>10, <1>12, Zenon

\* The inner loop of slide.
GatherStay(T, n, i) == \A t \in T, k \in 1 .. n : Gather(i, t, k) \in T
GatherSteps(s, T, a, n, i) ==
  /\ s \in [0 .. n -> T] /\ s[0] = a
  /\ \A k \in 1 .. n : s[k] = Gather(i, s[k - 1], k)

Gathers(a, n, i) == FoldLeft(LAMBDA t, b : Gather(i, t, b), a, [b \in 1 .. n |-> b])

\* Its turns are such steps.
LEMMA GatherFold ==
  ASSUME NEW n \in Nat, NEW i, NEW T, NEW a \in T, GatherStay(T, n, i)
  PROVE  \E s : GatherSteps(s, T, a, n, i) /\ Gathers(a, n, i) = s[n]
<1>0. \A t \in T, k \in 1 .. n : Gather(i, t, k) \in T
  BY DEF GatherStay
<1> DEFINE seq == [b \in 1 .. n |-> b]
           F == [k \in 1 .. n |-> [t \in T |-> Gather(i, t, seq[k])]]
           Body(it) == [A \in SUBSET (1 .. n) |->
                          IF A = {} THEN a ELSE Gather(i, it[A \ {Num!Highest(A)}], seq[Num!Highest(A)])]
           fold == CHOOSE it : it = Body(it)
<1>1. DOMAIN seq = 1 .. n /\ \A k \in 1 .. n : seq[k] = k
  OBVIOUS
<1>2. \A k \in 1 .. n, t \in T : F[k][t] = Gather(i, t, seq[k]) /\ F[k][t] = Gather(i, t, k)
  <2> HIDE DEF seq
  <2> QED BY <1>1
<1>3. F \in [1 .. n -> [T -> T]]
  <2>1. \A k \in 1 .. n, t \in T : Gather(i, t, seq[k]) \in T
    <3> HIDE DEF seq
    <3> QED BY <1>0, <1>1
  <2> HIDE DEF seq
  <2> QED BY <2>1
<1>4. PICK it \in [SUBSET (1 .. n) -> T] : Num!FoldsUp(it, T, n, a, F)
  <2> HIDE DEF F
  <2> QED BY <1>3, Num!FoldUpExists
<1>5. it = Body(it)
  <2>1. ASSUME NEW A \in SUBSET (1 .. n), A # {}
        PROVE  F[Num!Highest(A)][it[A \ {Num!Highest(A)}]] = Gather(i, it[A \ {Num!Highest(A)}], seq[Num!Highest(A)])
    <3>1. PICK k : k = Num!Highest(A)
      OBVIOUS
    <3>2. k \in A
      BY <2>1, <3>1, Num!HighestOf
    <3>3. k \in 1 .. n /\ it[A \ {k}] \in T
      BY <3>2
    <3> HIDE DEF F, seq
    <3>4. F[k][it[A \ {k}]] = Gather(i, it[A \ {k}], seq[k])
      BY <1>2, <3>3
    <3> QED BY <3>1, <3>4, Zenon
  <2> HIDE DEF F, seq
  <2> QED BY <1>4, <2>1 DEF Num!FoldsUp
<1>6. Gathers(a, n, i) = fold[1 .. n]
  <2>1. DOMAIN seq = 1 .. n
    BY <1>1
  <2> QED BY <2>1, Zenon DEF FoldLeft, MapThenFoldSet, Num!Highest, Max, Gathers
<1>7. fold = Body(fold)
  <2> HIDE DEF Body
  <2> QED BY <1>5
<1> HIDE DEF fold
<1>8. fold[{}] = a
  <2>1. {} \in SUBSET (1 .. n)
    OBVIOUS
  <2> QED BY <1>7, <2>1
<1>9. ASSUME NEW k \in 1 .. n, fold[1 .. k - 1] \in T
      PROVE  fold[1 .. k] = F[k][fold[1 .. k - 1]]
  <2>1. /\ 1 .. k \in SUBSET (1 .. n) /\ 1 .. k # {} /\ Num!Highest(1 .. k) = k
        /\ (1 .. k) \ {k} = 1 .. k - 1
    BY Num!Prefixes
  <2>2. PICK A : A = 1 .. k
    OBVIOUS
  <2> HIDE DEF seq
  <2>3. fold[A] = Gather(i, fold[A \ {Num!Highest(A)}], seq[Num!Highest(A)])
    BY <1>7, <2>1, <2>2
  <2>4. fold[1 .. k] = Gather(i, fold[1 .. k - 1], seq[k])
    BY <2>1, <2>2, <2>3, Zenon
  <2> HIDE DEF F
  <2> QED BY <1>2, <1>9, <2>4
<1>10. PICK s : Num!Computes(s, T, a, F, n) /\ s[n] = fold[1 .. n]
  <2> HIDE DEF F
  <2>1. StepsOf(fold, n, T, a, F)
    BY <1>8, <1>9 DEF StepsOf
  <2> QED BY <1>3, <2>1, StepByStep
<1>s. s \in [0 .. n -> T] /\ s[0] = a /\ \A k \in 1 .. n : s[k] = F[k][s[k - 1]]
  <2> HIDE DEF F
  <2> QED BY <1>10 DEF Num!Computes
<1>11. ASSUME NEW k \in 1 .. n PROVE s[k] = Gather(i, s[k - 1], k)
  <2>1. s[k - 1] \in T
    BY <1>s
  <2> HIDE DEF F
  <2> QED BY <1>2, <1>s, <2>1
<1>12. GatherSteps(s, T, a, n, i)
  BY <1>s, <1>11 DEF GatherSteps
<1> QED BY <1>6, <1>10, <1>12, Zenon

\* the digits e, with the carries c from each to the next, are r
Carries(e, c, r, n, w) ==
  /\ c \in [0 .. n -> Int] /\ c[0] = 0 /\ c[n] = 0
  /\ \A k \in 0 .. n - 1 : e[k] \in Int /\ r[k] = e[k] + c[k] - 2^w * c[k + 1]

\* Carries from digit to digit leave what the digits show.
LEMMA CarriedShows ==
  ASSUME NEW n \in Nat, NEW w \in Nat, NEW a \in Nat, NEW q, NEW e, Horner(q, e, n, w, a),
         NEW c, NEW r, Carries(e, c, r, n, w)
  PROVE  Denotes(r, n, w, a)
<1>c. /\ c \in [0 .. n -> Int] /\ c[0] = 0 /\ c[n] = 0
      /\ \A k \in 0 .. n - 1 : e[k] \in Int /\ r[k] = e[k] + c[k] - 2^w * c[k + 1]
  BY DEF Carries
<1> DEFINE v == [k \in 0 .. n |-> q[k] + c[k]]
<1>1. /\ q \in [0 .. n -> Int] /\ q[0] = a /\ q[n] = 0
      /\ \A k \in 0 .. n - 1 : q[k] = e[k] + 2^w * q[k + 1]
  BY DEF Horner
<1>2. PICK d \in Int : d = 2^w
  BY DigitWeights
<1>3. v \in [0 .. n -> Int] /\ v[0] = a /\ v[n] = 0
  BY <1>1, <1>c
<1>4. ASSUME NEW k \in 0 .. n - 1 PROVE r[k] \in Int /\ v[k] = r[k] + 2^w * v[k + 1]
  <2>1. k \in 0 .. n /\ k + 1 \in 0 .. n
    OBVIOUS
  <2>2. PICK x \in Int, y \in Int, b \in Int, f \in Int, z \in Int :
          x = q[k] /\ y = q[k + 1] /\ b = c[k] /\ f = c[k + 1] /\ z = e[k]
    BY <1>1, <1>c, <2>1
  <2>3. x = z + d * y /\ r[k] = z + b - d * f
    BY <1>1, <1>2, <1>c, <2>2
  <2>4. v[k] = x + b /\ v[k + 1] = y + f
    BY <2>1, <2>2
  <2>5. d * (y + f) = d * y + d * f
    OBVIOUS
  <2>6. PICK g \in Int, h \in Int : g = d * y /\ h = d * f
    OBVIOUS
  <2> HIDE DEF v
  <2>7. r[k] = z + b - h /\ v[k] = z + g + b /\ d * v[k + 1] = g + h
    BY <2>3, <2>4, <2>5, <2>6
  <2> QED BY <1>2, <2>6, <2>7
<1>5. Horner(v, r, n, w, a)
  <2> HIDE DEF v
  <2> QED BY <1>3, <1>4 DEF Horner
<1> HIDE DEF v
<1>6. \A k \in 0 .. n - 1 : r[k] \in Int
  BY <1>4
<1>7. a \in Int
  OBVIOUS
<1> QED BY <1>5, <1>6, <1>7, HornerDenotes, Zenon

\* the digits x up to m, with carries b of one at most, the last of them taken in
\* by the last digit, are r
LastTakes(x, b, r, m, w) ==
  /\ b \in [0 .. m -> {0, 1}] /\ b[0] = 0
  /\ \A k \in 0 .. m : x[k] \in Int
  /\ \A k \in 0 .. m - 1 : r[k] = x[k] + b[k] - 2^w * b[k + 1]
  /\ r[m] = x[m] + b[m]

\* The same when the last digit takes its carry in.
LEMMA LastCarry ==
  ASSUME NEW m \in Nat, NEW w \in Nat, NEW a \in Nat, NEW q, NEW x,
         Horner(q, x, m + 1, w, a), NEW b, NEW r, LastTakes(x, b, r, m, w)
  PROVE  Denotes(r, m + 1, w, a)
<1>b. /\ b \in [0 .. m -> {0, 1}] /\ b[0] = 0
      /\ \A k \in 0 .. m : x[k] \in Int
      /\ \A k \in 0 .. m - 1 : r[k] = x[k] + b[k] - 2^w * b[k + 1]
      /\ r[m] = x[m] + b[m]
  BY DEF LastTakes
<1>1. PICK n \in Nat \ {0} : n = m + 1 /\ n - 1 = m
  OBVIOUS
<1> DEFINE c == [k \in 0 .. n |-> IF k = n THEN 0 ELSE b[k]]
<1>2. \A k \in 0 .. n : c[k] = IF k = n THEN 0 ELSE b[k]
  OBVIOUS
<1>3. c \in [0 .. n -> Int]
  <2>1. \A k \in 0 .. n : (IF k = n THEN 0 ELSE b[k]) \in Int
    BY <1>1, <1>b
  <2> QED BY <2>1
<1> HIDE DEF c
<1>4. c[0] = 0 /\ c[n] = 0
  BY <1>1, <1>2, <1>b
<1>5. PICK d \in Int : d = 2^w
  BY DigitWeights
<1>6. ASSUME NEW k \in 0 .. n - 1 PROVE r[k] = x[k] + c[k] - 2^w * c[k + 1]
  <2>1. k \in 0 .. m /\ k \in 0 .. n /\ k + 1 \in 0 .. n
    BY <1>1
  <2>2. CASE k = m
    <3>1. c[k + 1] = 0 /\ c[k] = b[k] /\ r[k] = x[k] + b[k]
      BY <1>1, <1>2, <1>b, <2>1, <2>2
    <3>2. x[k] \in Int /\ b[k] \in Int
      BY <1>b, <2>1
    <3> QED BY <1>5, <3>1, <3>2
  <2>3. CASE k # m
    <3>1. k \in 0 .. m - 1 /\ k # n /\ k + 1 # n
      BY <1>1, <2>1, <2>3
    <3>2. c[k + 1] = b[k + 1] /\ c[k] = b[k]
      BY <1>2, <2>1, <2>3, <3>1
    <3> QED BY <1>b, <3>1, <3>2
  <2> QED BY <2>2, <2>3
<1>7. Carries(x, c, r, n, w)
  <2>1. \A k \in 0 .. n - 1 : x[k] \in Int
    BY <1>1, <1>b
  <2> QED BY <1>3, <1>4, <1>6, <2>1 DEF Carries
<1>8. Horner(q, x, n, w, a)
  BY <1>1
<1>9. n \in Nat
  OBVIOUS
<1>10. Denotes(r, n, w, a)
  BY <1>7, <1>8, <1>9, CarriedShows
<1> QED BY <1>1, <1>10

\* What a turn of the loops does with the digit at k, its carry and the next digit.
CarryTurn(e, c, f, d, x, k, m, W, D) ==
  \A z \in {0, 1} : e[k] + c = x[k] + z =>
    \E p \in {0, 1} : /\ f[k] = x[k] + z - W * p /\ f[k] \in D
                      /\ f[k + 1] + d = e[k + 1] + p
                      /\ \A j \in 0 .. m : j \notin {k, k + 1} => f[j] = e[j]

CarryRun(E, C, x, m, W, D) ==
  /\ E \in [0 .. m -> [0 .. m -> Int]] /\ C \in [0 .. m -> Int] /\ E[0] = x /\ C[0] = 0
  /\ \A k \in 0 .. m - 1 : CarryTurn(E[k], C[k], E[k + 1], C[k + 1], x, k, m, W, D)

\* the last digit takes the carry in
TakenIn(e, c, m) == [e EXCEPT ![m] = @ + c]

\* and what the digits are then
Carried(r, x, m, w, a, D) ==
  /\ Denotes(r, m + 1, w, a) /\ \A k \in 0 .. m - 1 : r[k] \in D
  /\ r[m] = x[m] \/ r[m] = x[m] + 1

\* A loop that carries from digit to digit keeps the number.
LEMMA CarryLoop ==
  ASSUME NEW m \in Nat, NEW w \in Nat, NEW a \in Nat, NEW q, NEW x \in [0 .. m -> Int],
         Horner(q, x, m + 1, w, a), NEW D,
         NEW E, NEW C, CarryRun(E, C, x, m, 2^w, D)
  PROVE  Carried(TakenIn(E[m], C[m], m), x, m, w, a, D)
<1>r. PICK r : r = TakenIn(E[m], C[m], m)
  OBVIOUS
<1>0. /\ E \in [0 .. m -> [0 .. m -> Int]] /\ C \in [0 .. m -> Int] /\ E[0] = x /\ C[0] = 0
      /\ \A k \in 0 .. m - 1 : CarryTurn(E[k], C[k], E[k + 1], C[k + 1], x, k, m, 2^w, D)
  BY DEF CarryRun
<1> DEFINE b == [k \in 0 .. m |-> E[k][k] + C[k] - x[k]]
<1>1. PICK W \in Int : W = 2^w
  BY DigitWeights
<1>2. \A k \in 0 .. m : b[k] = E[k][k] + C[k] - x[k]
  OBVIOUS
<1> HIDE DEF b
<1> DEFINE Good(k) == /\ b[k] \in {0, 1} /\ \A j \in k + 1 .. m : E[k][j] = x[j]
                      /\ \A j \in 0 .. k - 1 : E[k][j] = x[j] + b[j] - W * b[j + 1] /\ E[k][j] \in D
           S == {k \in 0 .. m : Good(k)}
<1>3. 0 \in S
  <2>1. 0 \in 0 .. m
    OBVIOUS
  <2>2. b[0] = 0
    <3>1. PICK y \in Int : y = x[0]
      BY <2>1
    <3>2. b[0] = E[0][0] + C[0] - x[0]
      BY <1>2, <2>1
    <3>3. E[0][0] = y /\ C[0] = 0
      BY <1>0, <3>1
    <3>4. b[0] = y + 0 - y
      BY <3>1, <3>2, <3>3, Zenon
    <3> QED BY <3>4
  <2>3. E[0] = x
    BY <1>0
  <2>4. Good(0)
    BY <2>2, <2>3
  <2> HIDE DEF Good
  <2> QED BY <2>1, <2>4
<1>4. ASSUME NEW k \in 0 .. m - 1, k \in S PROVE k + 1 \in S
  <2>1. PICK i \in 1 .. m : i = k + 1
    OBVIOUS
  <2>2. k \in 0 .. m /\ i \in 0 .. m /\ k # i
    BY <2>1
  <2>3. PICK e \in [0 .. m -> Int], f \in [0 .. m -> Int], c \in Int, d \in Int :
          e = E[k] /\ f = E[i] /\ c = C[k] /\ d = C[i]
    BY <1>0, <2>2
  <2>4. b[k] \in {0, 1} /\ e[k] + c = x[k] + b[k]
    <3>1. b[k] \in {0, 1} /\ b[k] = e[k] + c - x[k]
      <4>1. b[k] = E[k][k] + C[k] - x[k]
        BY <1>2, <2>2
      <4> QED BY <1>4, <2>3, <4>1
    <3>2. PICK y \in Int, z \in Int, g \in Int : y = e[k] /\ z = x[k] /\ g = b[k]
      BY <2>2, <3>1
    <3>3. g = y + c - z
      BY <3>1, <3>2, Zenon
    <3>4. y + c = z + g
      BY <3>3
    <3> QED BY <3>1, <3>2, <3>4, Zenon
  <2>5. CarryTurn(e, c, f, d, x, k, m, W, D)
    BY <1>0, <1>1, <2>1, <2>3
  <2>6. PICK p \in {0, 1} : /\ f[k] = x[k] + b[k] - W * p /\ f[k] \in D /\ f[i] + d = e[i] + p
                            /\ \A j \in 0 .. m : j \notin {k, i} => f[j] = e[j]
    BY <2>1, <2>4, <2>5 DEF CarryTurn
  <2>7. /\ \A j \in i .. m : e[j] = x[j]
        /\ \A j \in 0 .. k - 1 : e[j] = x[j] + b[j] - W * b[j + 1] /\ e[j] \in D
    BY <1>4, <2>1, <2>3
  <2>8. b[i] = p
    <3>1. e[i] = x[i] /\ f[i] \in Int /\ x[i] \in Int
      BY <2>2, <2>7
    <3>2. b[i] = f[i] + d - x[i]
      <4>1. b[i] = E[i][i] + C[i] - x[i]
        BY <1>2, <2>2
      <4> QED BY <2>3, <4>1, Zenon
    <3>3. PICK y \in Int, z \in Int : y = f[i] /\ z = x[i]
      BY <3>1
    <3>4. y + d = z + p /\ b[i] = y + d - z
      BY <2>6, <3>1, <3>2, <3>3, Zenon
    <3> QED BY <3>4
  <2>9. \A j \in i + 1 .. m : f[j] = x[j]
    <3> TAKE j \in i + 1 .. m
    <3>1. j \in 0 .. m /\ j \notin {k, i} /\ j \in i .. m
      BY <2>1
    <3> QED BY <2>6, <2>7, <3>1
  <2>10. ASSUME NEW j \in 0 .. i - 1 PROVE f[j] = x[j] + b[j] - W * b[j + 1] /\ f[j] \in D
    <3>1. CASE j = k
      BY <2>1, <2>6, <2>8, <3>1
    <3>2. CASE j # k
      <4>1. j \in 0 .. m /\ j \notin {k, i} /\ j \in 0 .. k - 1
        BY <2>1, <3>2
      <4> QED BY <2>6, <2>7, <4>1
    <3> QED BY <3>1, <3>2
  <2>11. Good(i)
    BY <2>3, <2>8, <2>9, <2>10
  <2> HIDE DEF Good
  <2> QED BY <2>1, <2>2, <2>11
<1>5. ASSUME NEW k \in 0 .. m PROVE Good(k)
  <2>1. 0 .. m \subseteq S
    <3> HIDE DEF S
    <3> QED BY <1>3, <1>4, Num!UpTo
  <2> HIDE DEF Good
  <2> QED BY <2>1
<1>6. b \in [0 .. m -> {0, 1}] /\ b[0] = 0
  <2>1. 0 \in 0 .. m
    OBVIOUS
  <2>2. b[0] = 0
    <3>1. PICK y \in Int : y = x[0]
      BY <2>1
    <3>2. b[0] = E[0][0] + C[0] - x[0]
      BY <1>2, <2>1
    <3>3. E[0][0] = y /\ C[0] = 0
      BY <1>0, <3>1
    <3>4. b[0] = y + 0 - y
      BY <3>1, <3>2, <3>3, Zenon
    <3> QED BY <3>4
  <2>3. \A k \in 0 .. m : b[k] \in {0, 1}
    BY <1>5
  <2> QED BY <2>2, <2>3 DEF b
<1>7. PICK f \in [0 .. m -> Int], c \in Int : f = E[m] /\ c = C[m]
  <2>1. m \in 0 .. m
    OBVIOUS
  <2> QED BY <1>0, <2>1
<1>8. \A k \in 0 .. m - 1 : f[k] = x[k] + b[k] - 2^w * b[k + 1] /\ f[k] \in D
  <2>1. Good(m)
    <3> HIDE DEF Good
    <3> QED BY <1>5
  <2> QED BY <1>1, <1>7, <2>1
<1>9. f[m] + c = x[m] + b[m] /\ x[m] \in Int /\ b[m] \in {0, 1}
  <2>1. m \in 0 .. m
    OBVIOUS
  <2>2. b[m] = f[m] + c - x[m] /\ f[m] \in Int /\ x[m] \in Int /\ b[m] \in {0, 1}
    BY <1>2, <1>6, <1>7, <2>1
  <2> QED BY <2>2
<1>10. \A k \in 0 .. m : r[k] = IF k = m THEN x[m] + b[m] ELSE f[k]
  <2>1. r = [f EXCEPT ![m] = f[m] + c]
    BY <1>7, <1>r DEF TakenIn
  <2> QED BY <1>9, <2>1
<1>11. Denotes(r, m + 1, w, a)
  <2>1. \A k \in 0 .. m : x[k] \in Int
    OBVIOUS
  <2>2. \A k \in 0 .. m - 1 : f[k] = x[k] + b[k] - 2^w * b[k + 1]
    BY <1>8
  <2>3. \A k \in 0 .. m - 1 : k \in 0 .. m /\ k # m
    OBVIOUS
  <2>4. \A k \in 0 .. m - 1 : r[k] = x[k] + b[k] - 2^w * b[k + 1]
    BY <1>10, <2>2, <2>3
  <2>5. r[m] = x[m] + b[m]
    <3>1. m \in 0 .. m
      OBVIOUS
    <3> QED BY <1>10, <3>1
  <2>6. LastTakes(x, b, r, m, w)
    BY <1>6, <2>1, <2>4, <2>5 DEF LastTakes
  <2> HIDE DEF Good, S
  <2> QED BY <2>6, LastCarry
<1>12. \A k \in 0 .. m - 1 : r[k] \in D
  <2> TAKE k \in 0 .. m - 1
  <2>1. k \in 0 .. m /\ k # m
    OBVIOUS
  <2> QED BY <1>8, <1>10, <2>1
<1>13. r[m] = x[m] \/ r[m] = x[m] + 1
  <2>1. m \in 0 .. m
    OBVIOUS
  <2> QED BY <1>9, <1>10, <2>1
<1> QED BY <1>r, <1>11, <1>12, <1>13 DEF Carried

LEMMA SmallPowers == 2^2 = 4 /\ 2^3 = 8 /\ 2^4 = 16 /\ 2^5 = 32
<1>1. \A m, n \in Nat : 2^(m + n) = 2^m * 2^n
  BY Num!PowerOfTwo
<1>2. 2^1 = 2
  BY Num!PowerOfTwo
<1>3. 2^(1 + 1) = 2^1 * 2^1 /\ 2^(2 + 1) = 2^2 * 2^1 /\ 2^(2 + 2) = 2^2 * 2^2 /\ 2^(3 + 2) = 2^3 * 2^2
  BY <1>1
<1>4. 1 + 1 = 2 /\ 2 + 1 = 3 /\ 2 + 2 = 4 /\ 3 + 2 = 5
  OBVIOUS
<1>5. 2^2 = 4
  BY <1>2, <1>3, <1>4
<1>6. 2^3 = 8
  BY <1>2, <1>3, <1>4, <1>5
<1> QED BY <1>3, <1>4, <1>5, <1>6

\* A number of n digits that leaves bits of the last digit free, cut into them.
LEMMA CutDigits ==
  ASSUME NEW m \in Nat, NEW w \in Nat, NEW l \in 0 .. w, NEW a \in Nat,
         a < 2^(w * (m + 1) - l), NEW x, x = Cut(a, m + 1, w)
  PROVE  /\ x \in [0 .. m -> Int] /\ \A k \in 0 .. m : x[k] \in 0 .. 2^w - 1
         /\ x[m] < 2^(w - l) /\ \E q : Horner(q, x, m + 1, w, a)
<1>1. PICK n \in Nat \ {0} : n = m + 1 /\ n - 1 = m
  OBVIOUS
<1> DEFINE q == [k \in 0 .. n |-> a \div 2^(w * k)]
<1>2. a < 2^(w * n) /\ a \div 2^(w * m) < 2^(w - l)
  <2>1. a < 2^(w * n - l)
    BY <1>1
  <2>2. a < 2^(w * n) /\ a \div 2^(w * (n - 1)) < 2^(w - l)
    BY <2>1, LastDigit
  <2> QED BY <1>1, <2>2
<1>3. /\ Horner(q, x, n, w, a) /\ \A k \in 0 .. n : q[k] \in Nat
      /\ \A k \in 0 .. n - 1 : x[k] \in 0 .. 2^w - 1
  <2>1. x = Cut(a, n, w)
    BY <1>1
  <2>2. n \in Nat
    OBVIOUS
  <2> QED BY <1>2, <2>1, <2>2, CutShows
<1>4. PICK W \in Nat \ {0} : W = 2^w
  BY DigitWeights
<1>5. x \in [0 .. m -> Int]
  <2>1. x = [i \in 0 .. m |-> (a \div 2^(w * i)) % 2^w]
    BY <1>1 DEF Cut
  <2>2. \A k \in 0 .. m : x[k] \in Int
    BY <1>1, <1>3, <1>4
  <2> HIDE DEF q
  <2>3. x = [i \in 0 .. m |-> x[i]]
    BY <2>1
  <2> QED BY <2>2, <2>3
<1>6. x[m] < 2^(w - l)
  <2>1. m \in 0 .. n /\ m \in 0 .. n - 1 /\ n \in 0 .. n
    BY <1>1
  <2>2. q[m] = a \div 2^(w * m)
    BY <2>1
  <2> HIDE DEF q
  <2>3. q[m] = x[m] + 2^w * q[m + 1] /\ q[n] = 0
    BY <1>3, <2>1 DEF Horner
  <2>4. x[m] \in Int
    BY <1>5
  <2>5. q[m] = x[m]
    BY <1>1, <1>4, <2>3, <2>4
  <2> QED BY <1>2, <2>2, <2>5
<1> HIDE DEF q
<1>7. \A k \in 0 .. m : x[k] \in 0 .. 2^w - 1
  BY <1>1, <1>3
<1>8. \E p : Horner(p, x, m + 1, w, a)
  BY <1>1, <1>3
<1> QED BY <1>5, <1>6, <1>7, <1>8

\* A turn of the loop of ge_scalarmult_base.
LEMMA NibbleTurn ==
  ASSUME NEW m \in Nat, NEW x \in [0 .. m -> Int], NEW k \in 0 .. m - 1, x[k] \in 0 .. 15,
         NEW t \in [e : [0 .. m -> Int], carry : Int], NEW u, u = Nibble(t, k)
  PROVE  CarryTurn(t.e, t.carry, u.e, u.carry, x, k, m, 16, -8 .. 7)
<1>0. PICK e \in [0 .. m -> Int], c \in Int : e = t.e /\ c = t.carry
  OBVIOUS
<1>1. PICK d \in Int : d = e[k] + c
  <2>1. k \in 0 .. m
    OBVIOUS
  <2> QED BY <2>1
<1>2. PICK p \in Int : p = (d + 8) \div 16
  OBVIOUS
<1>3. u = [e |-> [e EXCEPT ![k] = d - 16 * p], carry |-> p]
  BY <1>0, <1>1, <1>2, Zenon DEF Nibble
<1>4. PICK f : f = [e EXCEPT ![k] = d - 16 * p]
  OBVIOUS
<1>5. u.e = f /\ u.carry = p
  BY <1>3, <1>4
<1>6. k \in 0 .. m /\ k + 1 \in 0 .. m /\ k + 1 # k
  OBVIOUS
<1>7. f[k] = d - 16 * p /\ \A j \in 0 .. m : j # k => f[j] = e[j]
  BY <1>4, <1>6
<1>8. ASSUME NEW z \in {0, 1}, e[k] + c = x[k] + z
      PROVE  \E b \in {0, 1} : /\ f[k] = x[k] + z - 16 * b /\ f[k] \in -8 .. 7
                               /\ f[k + 1] + p = e[k + 1] + b
                               /\ \A j \in 0 .. m : j \notin {k, k + 1} => f[j] = e[j]
  <2>1. d = x[k] + z /\ d \in 0 .. 16
    <3>1. PICK y \in 0 .. 15 : y = x[k]
      OBVIOUS
    <3>2. d = y + z
      BY <1>1, <1>8, <3>1, Zenon
    <3>3. d \in 0 .. 16
      BY <3>2
    <3> QED BY <3>1, <3>2, <3>3, Zenon
  <2>2. p \in {0, 1} /\ d - 16 * p \in -8 .. 7
    <3>1. d \in 0 .. 16
      BY <2>1
    <3> QED BY <1>2, <3>1
  <2>3. f[k + 1] = e[k + 1]
    BY <1>6, <1>7
  <2>4. f[k] = x[k] + z - 16 * p /\ f[k] \in -8 .. 7
    <3>1. f[k] = d - 16 * p
      BY <1>7
    <3>2. f[k] = x[k] + z - 16 * p
      <4>1. PICK y \in Int : y = x[k]
        BY <1>6
      <4>g. PICK g : g = f[k]
        OBVIOUS
      <4>2. d = y + z /\ g = d - 16 * p
        BY <2>1, <3>1, <4>1, <4>g
      <4>3. g = y + z - 16 * p
        BY <4>2
      <4> QED BY <4>1, <4>3, <4>g
    <3>3. f[k] \in -8 .. 7
      BY <2>2, <3>1
    <3> QED BY <3>2, <3>3
  <2>5. \A j \in 0 .. m : j \notin {k, k + 1} => f[j] = e[j]
    BY <1>7
  <2> QED BY <2>2, <2>3, <2>4, <2>5, Zenon
<1>9. CarryTurn(e, c, f, p, x, k, m, 16, -8 .. 7)
  BY <1>8 DEF CarryTurn
<1> QED BY <1>0, <1>5, <1>9

\* The digits of ge_scalarmult_base.
LEMMA NibblesRight ==
  ASSUME NEW a \in Nat, Below(a, 4 * Nibbles - 1)
  PROVE  Denotes(signed_nibbles(a), Nibbles, 4, a)
         /\ \A i \in 0 .. Nibbles - 1 : signed_nibbles(a)[i] \in -8 .. 8
<1>1. PICK m \in Nat \ {0} : Nibbles = m + 1 /\ Nibbles - 1 = m
  <2>1. N \in Nat /\ N >= 8
    BY WidthAssumption
  <2>2. N \div 4 - 1 \in Nat \ {0} /\ N \div 4 = (N \div 4 - 1) + 1
    BY <2>1
  <2> QED BY <2>2 DEF Nibbles
<1>2. PICK x : x = Cut(a, Nibbles, 4)
  OBVIOUS
<1>3. /\ x \in [0 .. m -> Int] /\ \A k \in 0 .. m : x[k] \in 0 .. 15
      /\ x[m] < 8 /\ \E q : Horner(q, x, m + 1, 4, a)
  <2>1. a < 2^(4 * (m + 1) - 1) /\ x = Cut(a, m + 1, 4)
    BY <1>1, <1>2 DEF Below
  <2>2. PICK w \in Nat, l \in Nat : l \in 0 .. w /\ w = 4 /\ l = 1 /\ 2^w = 16 /\ 2^(w - l) = 8
    <3>1. 4 - 1 = 3 /\ 1 \in 0 .. 4
      OBVIOUS
    <3> QED BY <3>1, SmallPowers
  <2>3. /\ x \in [0 .. m -> Int] /\ \A k \in 0 .. m : x[k] \in 0 .. 2^w - 1
        /\ x[m] < 2^(w - l) /\ \E q : Horner(q, x, m + 1, w, a)
    BY <2>1, <2>2, CutDigits
  <2>4. ASSUME NEW k \in 0 .. m PROVE x[k] \in 0 .. 15
    <3>1. PICK W \in Int : W = 2^w /\ W - 1 = 15
      BY <2>2
    <3> QED BY <2>3, <3>1
  <2> QED BY <2>2, <2>3, <2>4, Zenon
<1> DEFINE T == [e : [0 .. m -> Int], carry : Int]
           first == [e |-> x, carry |-> 0]
<1>4. first \in T
  BY <1>3
<1>5. NibbleStay(T, m)
  <2>1. ASSUME NEW t \in T, NEW j \in 1 .. m PROVE Nibble(t, j - 1) \in T
    <3>1. PICK k \in 0 .. m : k = j - 1
      OBVIOUS
    <3>2. PICK e \in [0 .. m -> Int], c \in Int : e = t.e /\ c = t.carry
      OBVIOUS
    <3>3. PICK d \in Int : d = t.e[k] + t.carry
      BY <3>2
    <3>4. PICK p \in Int : p = (d + 8) \div 16
      OBVIOUS
    <3>5. Nibble(t, k) = [e |-> [e EXCEPT ![k] = d - 16 * p], carry |-> p]
      BY <3>2, <3>3, <3>4, Zenon DEF Nibble
    <3>6. [e EXCEPT ![k] = d - 16 * p] \in [0 .. m -> Int]
      OBVIOUS
    <3>7. [e |-> [e EXCEPT ![k] = d - 16 * p], carry |-> p] \in T
      BY <3>6
    <3> HIDE DEF T
    <3> QED BY <3>1, <3>5, <3>7, Zenon
  <2> HIDE DEF T
  <2> QED BY <2>1 DEF NibbleStay
<1>6. PICK s : NibbleSteps(s, T, first, m) /\ FoldLeft(Nibble, first, Rising(m)) = s[m]
  <2> HIDE DEF T, first
  <2> QED BY <1>4, <1>5, NibbleFold
<1>7. s \in [0 .. m -> T] /\ s[0] = first /\ \A k \in 1 .. m : s[k] = Nibble(s[k - 1], k - 1)
  <2> HIDE DEF T, first
  <2> QED BY <1>6 DEF NibbleSteps
<1> DEFINE E == [k \in 0 .. m |-> s[k].e]
           C == [k \in 0 .. m |-> s[k].carry]
<1>8. CarryRun(E, C, x, m, 16, -8 .. 7)
  <2>1. ASSUME NEW k \in 0 .. m PROVE s[k] \in T /\ s[k].e \in [0 .. m -> Int] /\ s[k].carry \in Int
    BY <1>7
  <2>2. E \in [0 .. m -> [0 .. m -> Int]] /\ C \in [0 .. m -> Int]
    <3> HIDE DEF T
    <3> QED BY <2>1
  <2>3. E[0] = x /\ C[0] = 0
    <3>1. 0 \in 0 .. m
      OBVIOUS
    <3>2. E[0] = s[0].e /\ C[0] = s[0].carry
      BY <3>1
    <3>3. s[0].e = x /\ s[0].carry = 0
      BY <1>7
    <3> QED BY <3>2, <3>3, Zenon
  <2>4. ASSUME NEW k \in 0 .. m - 1
        PROVE  CarryTurn(E[k], C[k], E[k + 1], C[k + 1], x, k, m, 16, -8 .. 7)
    <3>1. k \in 0 .. m /\ k + 1 \in 0 .. m /\ k + 1 \in 1 .. m /\ (k + 1) - 1 = k
      OBVIOUS
    <3>2. E[k] = s[k].e /\ C[k] = s[k].carry /\ E[k + 1] = s[k + 1].e /\ C[k + 1] = s[k + 1].carry
      BY <3>1
    <3>3. s[k + 1] = Nibble(s[k], k)
      BY <1>7, <3>1
    <3>4. x[k] \in 0 .. 15
      BY <1>3, <3>1
    <3>5. s[k] \in T
      BY <2>1, <3>1
    <3>6. PICK t \in T : t = s[k]
      BY <3>5
    <3>u. PICK u : u = s[k + 1]
      OBVIOUS
    <3>7. CarryTurn(t.e, t.carry, u.e, u.carry, x, k, m, 16, -8 .. 7)
      BY <1>3, <3>3, <3>4, <3>6, <3>u, NibbleTurn
    <3> HIDE DEF E, C, T
    <3> QED BY <3>2, <3>6, <3>7, <3>u
  <2> HIDE DEF E, C, T
  <2> QED BY <2>2, <2>3, <2>4 DEF CarryRun
<1> DEFINE r == TakenIn(s[m].e, s[m].carry, m)
<1>9. signed_nibbles(a) = r
  <2>1. [i \in 1 .. Nibbles - 1 |-> i - 1] = Rising(m)
    BY <1>1 DEF Rising
  <2>2. FoldLeft(Nibble, [e |-> Cut(a, Nibbles, 4), carry |-> 0], [i \in 1 .. Nibbles - 1 |-> i - 1]) = s[m]
    BY <1>2, <1>6, <2>1
  <2> HIDE DEF T, E, C
  <2> QED BY <1>1, <2>2, Zenon DEF signed_nibbles, TakenIn
<1>10. r = TakenIn(E[m], C[m], m)
  <2>1. m \in 0 .. m
    OBVIOUS
  <2>2. E[m] = s[m].e /\ C[m] = s[m].carry
    BY <2>1
  <2> HIDE DEF E, C
  <2> QED BY <2>2
<1> HIDE DEF r, E, C, T, first
<1>11. Carried(r, x, m, 4, a, -8 .. 7)
  <2>1. PICK q : Horner(q, x, m + 1, 4, a)
    BY <1>3
  <2>2. CarryRun(E, C, x, m, 2^4, -8 .. 7)
    BY <1>8, SmallPowers
  <2>3. 4 \in Nat /\ m \in Nat /\ x \in [0 .. m -> Int]
    BY <1>3
  <2>4. Carried(TakenIn(E[m], C[m], m), x, m, 4, a, -8 .. 7)
    BY <2>1, <2>2, <2>3, CarryLoop
  <2> QED BY <1>10, <2>4
<1>13. /\ Denotes(r, m + 1, 4, a) /\ \A k \in 0 .. m - 1 : r[k] \in -8 .. 7
       /\ r[m] = x[m] \/ r[m] = x[m] + 1
  BY <1>11 DEF Carried
<1>12. ASSUME NEW i \in 0 .. m PROVE r[i] \in -8 .. 8
  <2>1. m \in 0 .. m
    OBVIOUS
  <2>2. x[m] \in 0 .. 15 /\ x[m] < 8
    BY <1>3, <2>1
  <2>3. CASE i = m
    BY <1>13, <2>2, <2>3
  <2>4. CASE i # m
    <3>1. i \in 0 .. m - 1
      BY <2>4
    <3> QED BY <1>13, <3>1
  <2> QED BY <2>3, <2>4
<1> QED BY <1>1, <1>9, <1>13, <1>12

\* A turn of the loops of the windows, for a radix W and its half.
LEMMA WindowTurn ==
  ASSUME NEW m \in Nat, NEW x \in [0 .. m -> Int], NEW k \in 0 .. m - 1, NEW w \in Nat,
         NEW H \in Nat \ {0}, NEW W \in Nat \ {0}, W = 2 * H, 2^w = W, 2^(w - 1) = H,
         H \in {4, 16}, x[k] \in 0 .. W - 1,
         NEW t \in [r : [0 .. m -> Int], carry : Int], NEW u, u = Windowed(t, k, w)
  PROVE  /\ CarryTurn(t.r, t.carry, u.r, u.carry, x, k, m, W, -H .. H - 1)
         /\ u \in [r : [0 .. m -> Int], carry : Int]
<1>1. PICK e \in [0 .. m -> Int], c \in Int : e = t.r /\ c = t.carry
  OBVIOUS
<1>2. k \in 0 .. m /\ k + 1 \in 0 .. m /\ k + 1 # k
  OBVIOUS
<1>3. PICK d \in Int : d = e[k] + c
  BY <1>2
<1>4. PICK h \in Int, g \in 0 .. W - 1 : h = d \div W /\ g = d % W /\ d = g + h * W
  <2>1. d \div W \in Int /\ d % W \in 0 .. W - 1 /\ d = (d % W) + (d \div W) * W
    BY Num!Quotients
  <2> QED BY <2>1
<1>e. d = g + h * W
  BY <1>4, Zenon
<1>5. PICK p \in {0, 1} : p = g \div H /\ g - p * W \in -H .. H - 1
  <2>1. CASE H = 4
    <3>1. g \in 0 .. 7 /\ W = 8
      BY <2>1
    <3>2. g \div 4 \in {0, 1} /\ g - (g \div 4) * 8 \in -4 .. 3
      BY <3>1
    <3> QED BY <2>1, <3>1, <3>2
  <2>2. CASE H = 16
    <3>1. g \in 0 .. 31 /\ W = 32
      BY <2>2
    <3>2. g \div 16 \in {0, 1} /\ g - (g \div 16) * 32 \in -16 .. 15
      BY <3>1
    <3> QED BY <2>2, <3>1, <3>2
  <2> QED BY <2>1, <2>2
<1>6. u = [r |-> [e EXCEPT ![k] = g - p * W, ![k + 1] = @ + h], carry |-> p]
  <2>1. t.r[k] + t.carry = d /\ d % 2^w = g /\ d \div 2^w = h /\ g \div 2^(w - 1) = p
    BY <1>1, <1>3, <1>4, <1>5
  <2> QED BY <1>1, <2>1, Zenon DEF Windowed
<1>7. PICK f : f = [e EXCEPT ![k] = g - p * W, ![k + 1] = @ + h]
  OBVIOUS
<1>8. f \in [0 .. m -> Int] /\ f[k] = g - p * W /\ f[k + 1] = e[k + 1] + h
      /\ \A j \in 0 .. m : j \notin {k, k + 1} => f[j] = e[j]
  <2>1. g - p * W \in Int
    BY <1>5
  <2>2. e[k + 1] + h \in Int
    <3>1. PICK i \in Int : i = e[k + 1]
      BY <1>2
    <3> QED BY <3>1
  <2> QED BY <1>2, <1>7, <2>1, <2>2
<1>9. u = [r |-> f, carry |-> p]
  BY <1>6, <1>7, Zenon
<1>10. ASSUME NEW z \in {0, 1}, e[k] + c = x[k] + z
       PROVE  \E b \in {0, 1} : /\ f[k] = x[k] + z - W * b /\ f[k] \in -H .. H - 1
                                /\ f[k + 1] + p = e[k + 1] + b
                                /\ \A j \in 0 .. m : j \notin {k, k + 1} => f[j] = e[j]
  <2>1. PICK y \in 0 .. W - 1 : y = x[k]
    OBVIOUS
  <2>2. d = y + z
    BY <1>3, <1>10, <2>1, Zenon
  <2>3. h \in {0, 1} /\ (h = 1 => p = 0)
    <3>1. CASE H = 4
      <4>1. W = 8 /\ d \in 0 .. 8
        BY <2>2, <3>1
      <4>2. d = g + h * 8 /\ g \in 0 .. 7
        BY <1>e, <4>1
      <4>3. h \in {0, 1} /\ (h = 1 => g = 0)
        BY <4>1, <4>2
      <4> QED BY <1>5, <3>1, <4>3
    <3>2. CASE H = 16
      <4>1. W = 32 /\ d \in 0 .. 32
        BY <2>2, <3>2
      <4>2. d = g + h * 32 /\ g \in 0 .. 31
        BY <1>e, <4>1
      <4>3. h \in {0, 1} /\ (h = 1 => g = 0)
        BY <4>1, <4>2
      <4> QED BY <1>5, <3>2, <4>3
    <3> QED BY <3>1, <3>2
  <2>4. PICK b \in {0, 1} : b = h + p
    BY <2>3
  <2>5. g - p * W = d - W * b
    <3>1. CASE h = 0
      <4>1. d = g + 0 * W /\ b = p
        BY <1>e, <2>4, <3>1
      <4> QED BY <4>1
    <3>2. CASE h = 1
      <4>1. d = g + 1 * W /\ p = 0 /\ b = 1
        BY <1>e, <2>3, <2>4, <3>2
      <4> QED BY <4>1
    <3> QED BY <2>3, <3>1, <3>2
  <2>6. f[k] = x[k] + z - W * b
    <3>1. f[k] = y + z - W * b
      BY <1>8, <2>2, <2>5
    <3> QED BY <2>1, <3>1
  <2>7. f[k + 1] + p = e[k + 1] + b
    <3>1. PICK i \in Int, j \in Int : i = e[k + 1] /\ j = f[k + 1]
      BY <1>2, <1>8
    <3>2. j = i + h
      BY <1>8, <3>1
    <3>3. j + p = i + b
      BY <2>4, <3>2
    <3> QED BY <3>1, <3>3
  <2>8. f[k] \in -H .. H - 1
    BY <1>5, <1>8
  <2> QED BY <1>8, <2>6, <2>7, <2>8, Zenon
<1>11. CarryTurn(e, c, f, p, x, k, m, W, -H .. H - 1)
  BY <1>10 DEF CarryTurn
<1> QED BY <1>1, <1>8, <1>9, <1>11

\* A number in n signed digits of a window.
LEMMA WindowsRight ==
  ASSUME NEW n \in Nat \ {0}, NEW w \in {3, 5}, NEW a \in Nat, Below(a, w * n - 2)
  PROVE  Denotes(Window(Cut(a, n, w), n, w), n, w, a) /\ InTable(Window(Cut(a, n, w), n, w), n, w)
<1>1. PICK m \in Nat : n = m + 1 /\ n - 1 = m
  <2>1. n - 1 \in Nat /\ n = (n - 1) + 1
    OBVIOUS
  <2> QED BY <2>1
<1>2. PICK x : x = Cut(a, n, w)
  OBVIOUS
<1>3. PICK H \in Nat \ {0}, W \in Nat \ {0} :
        /\ W = 2 * H /\ 2^w = W /\ 2^(w - 1) = H /\ H \in {4, 16} /\ 2^(w - 2) < H
        /\ w \in Nat /\ 2 \in 0 .. w
  <2>1. CASE w = 3
    <3>1. w - 1 = 2 /\ w - 2 = 1 /\ w \in Nat /\ 2 \in 0 .. w
      BY <2>1
    <3>2. 2^w = 8 /\ 2^(w - 1) = 4 /\ 2^(w - 2) = 2
      BY <2>1, <3>1, SmallPowers, Num!PowerOfTwo
    <3> QED BY <3>1, <3>2
  <2>2. CASE w = 5
    <3>1. w - 1 = 4 /\ w - 2 = 3 /\ w \in Nat /\ 2 \in 0 .. w
      BY <2>2
    <3>2. 2^w = 32 /\ 2^(w - 1) = 16 /\ 2^(w - 2) = 8
      BY <2>2, <3>1, SmallPowers
    <3> QED BY <3>1, <3>2
  <2> QED BY <2>1, <2>2
<1>4. /\ x \in [0 .. m -> Int] /\ \A k \in 0 .. m : x[k] \in 0 .. 2^w - 1
      /\ x[m] < 2^(w - 2) /\ \E q : Horner(q, x, m + 1, w, a)
  <2>1. a < 2^(w * (m + 1) - 2) /\ x = Cut(a, m + 1, w)
    BY <1>1, <1>2 DEF Below
  <2> QED BY <1>3, <2>1, CutDigits
<1>5. \A k \in 0 .. m : x[k] \in 0 .. W - 1
  BY <1>3, <1>4
<1> DEFINE T == [r : [0 .. m -> Int], carry : Int]
           first == [r |-> x, carry |-> 0]
<1>6. first \in T
  BY <1>4
<1>7. ASSUME NEW k \in 0 .. m - 1, NEW t \in T
      PROVE  LET u == Windowed(t, k, w)
             IN  CarryTurn(t.r, t.carry, u.r, u.carry, x, k, m, W, -H .. H - 1) /\ u \in T
  <2>1. k \in 0 .. m
    OBVIOUS
  <2>2. x[k] \in 0 .. W - 1 /\ x \in [0 .. m -> Int]
    BY <1>4, <1>5, <2>1
  <2>3. PICK u : u = Windowed(t, k, w)
    OBVIOUS
  <2>4. CarryTurn(t.r, t.carry, u.r, u.carry, x, k, m, W, -H .. H - 1) /\ u \in T
    BY <1>3, <2>2, <2>3, WindowTurn
  <2> HIDE DEF T
  <2> QED BY <2>3, <2>4
<1>8. WindowStay(T, m, w)
  <2>1. ASSUME NEW t \in T, NEW j \in 1 .. m PROVE Windowed(t, j - 1, w) \in T
    <3>1. j - 1 \in 0 .. m - 1
      OBVIOUS
    <3> HIDE DEF T
    <3> QED BY <1>7, <3>1
  <2> HIDE DEF T
  <2> QED BY <2>1 DEF WindowStay
<1>9. PICK s : WindowSteps(s, T, first, m, w)
               /\ Windows(first, m, w) = s[m]
  <2> HIDE DEF T, first
  <2>1. m \in Nat
    OBVIOUS
  <2> QED BY <1>6, <1>8, <2>1, WindowFold, Zenon
<1>10. s \in [0 .. m -> T] /\ s[0] = first /\ \A k \in 1 .. m : s[k] = Windowed(s[k - 1], k - 1, w)
  <2> HIDE DEF T, first
  <2> QED BY <1>9 DEF WindowSteps
<1> DEFINE E == [k \in 0 .. m |-> s[k].r]
           C == [k \in 0 .. m |-> s[k].carry]
<1>11. CarryRun(E, C, x, m, W, -H .. H - 1)
  <2>1. ASSUME NEW k \in 0 .. m PROVE s[k] \in T /\ s[k].r \in [0 .. m -> Int] /\ s[k].carry \in Int
    BY <1>10
  <2>2. E \in [0 .. m -> [0 .. m -> Int]] /\ C \in [0 .. m -> Int]
    <3> HIDE DEF T
    <3> QED BY <2>1
  <2>3. E[0] = x /\ C[0] = 0
    <3>1. 0 \in 0 .. m
      OBVIOUS
    <3>2. E[0] = s[0].r /\ C[0] = s[0].carry
      BY <3>1
    <3>3. s[0].r = x /\ s[0].carry = 0
      BY <1>10
    <3> QED BY <3>2, <3>3, Zenon
  <2>4. ASSUME NEW k \in 0 .. m - 1
        PROVE  CarryTurn(E[k], C[k], E[k + 1], C[k + 1], x, k, m, W, -H .. H - 1)
    <3>1. k \in 0 .. m /\ k + 1 \in 0 .. m /\ k + 1 \in 1 .. m /\ (k + 1) - 1 = k
      OBVIOUS
    <3>2. E[k] = s[k].r /\ C[k] = s[k].carry /\ E[k + 1] = s[k + 1].r /\ C[k + 1] = s[k + 1].carry
      BY <3>1
    <3>3. s[k + 1] = Windowed(s[k], k, w)
      BY <1>10, <3>1
    <3>4. s[k] \in T
      BY <2>1, <3>1
    <3> HIDE DEF E, C, T
    <3> QED BY <1>7, <3>2, <3>3, <3>4
  <2> HIDE DEF E, C, T
  <2> QED BY <2>2, <2>3, <2>4 DEF CarryRun
<1> DEFINE r == TakenIn(s[m].r, s[m].carry, m)
<1>12. Window(x, n, w) = r
  <2>1. [i \in 1 .. n - 1 |-> i - 1] = Rising(m)
    BY <1>1 DEF Rising
  <2>2. FoldLeft(LAMBDA t, i : Windowed(t, i, w), [r |-> x, carry |-> 0], [i \in 1 .. n - 1 |-> i - 1]) = s[m]
    BY <1>9, <2>1, Zenon DEF Windows
  <2> HIDE DEF T, E, C
  <2> QED BY <1>1, <2>2, Zenon DEF Window, TakenIn
<1>13. r = TakenIn(E[m], C[m], m)
  <2>1. m \in 0 .. m
    OBVIOUS
  <2>2. E[m] = s[m].r /\ C[m] = s[m].carry
    BY <2>1
  <2> HIDE DEF E, C
  <2> QED BY <2>2
<1> HIDE DEF r, E, C, T, first
<1>14. Carried(r, x, m, w, a, -H .. H - 1)
  <2>1. PICK q : Horner(q, x, m + 1, w, a)
    BY <1>4
  <2>2. CarryRun(E, C, x, m, 2^w, -H .. H - 1)
    BY <1>3, <1>11
  <2>3. w \in Nat /\ m \in Nat /\ x \in [0 .. m -> Int]
    BY <1>3, <1>4
  <2>4. Carried(TakenIn(E[m], C[m], m), x, m, w, a, -H .. H - 1)
    BY <2>1, <2>2, <2>3, CarryLoop
  <2> QED BY <1>13, <2>4
<1>15. /\ Denotes(r, m + 1, w, a) /\ \A k \in 0 .. m - 1 : r[k] \in -H .. H - 1
       /\ r[m] = x[m] \/ r[m] = x[m] + 1
  BY <1>14 DEF Carried
<1>16. ASSUME NEW i \in 0 .. m PROVE r[i] \in -H .. H - 1
  <2>1. CASE i = m
    <3>1. PICK y \in 0 .. W - 1, h \in Int : y = x[m] /\ h = 2^(w - 2)
      <4>1. m \in 0 .. m /\ w - 2 \in Nat
        BY <1>3
      <4>2. 2^(w - 2) \in Int
        BY <4>1, Num!PowerOfTwo
      <4> QED BY <1>5, <4>1, <4>2
    <3>2. y + 1 < H + 1 /\ y < h /\ h < H
      BY <1>3, <1>4, <3>1
    <3>3. r[i] = y \/ r[i] = y + 1
      BY <1>15, <2>1, <3>1
    <3> QED BY <3>2, <3>3
  <2>2. CASE i # m
    <3>1. i \in 0 .. m - 1
      BY <2>2
    <3> QED BY <1>15, <3>1
  <2> QED BY <2>1, <2>2
<1>17. InTable(r, n, w)
  BY <1>1, <1>3, <1>16 DEF InTable
<1>18. Denotes(r, n, w, a)
  BY <1>1, <1>15
<1> QED BY <1>2, <1>12, <1>17, <1>18

\* what a digit of slide may be in the end
Settled(d) == d = 0 \/ (d % 2 = 1 /\ d \in -15 .. 15)

\* the places of a scalar, and the digits in them
Bits == 0 .. N - 1
Rows == [Bits -> Int]

\* Their weights.
LEMMA BitFacts ==
  /\ N \in Nat \ {0} /\ N - 1 \in Bits /\ \A k \in Bits : k \in Nat /\ 2^k \in Nat \ {0} /\ 2^(1 * k) = 2^k
  /\ \A k \in Nat : 2^(k + 1) = 2 * 2^k
<1>1. N \in Nat \ {0} /\ N - 1 \in Bits
  BY WidthAssumption DEF Bits
<1>2. \A k \in Bits : k \in Nat /\ 1 * k = k
  BY DEF Bits
<1>3. \A k \in Nat : 2^k \in Nat \ {0}
  BY Num!PowerOfTwo
<1>4. ASSUME NEW k \in Nat PROVE 2^(k + 1) = 2 * 2^k
  <2>1. 2^(k + 1) = 2^k * 2^1 /\ 2^1 = 2
    BY Num!PowerOfTwo
  <2>2. PICK p \in Nat : p = 2^k
    BY <1>3
  <2>3. 2^(k + 1) = p * 2
    BY <2>1, <2>2
  <2> QED BY <2>2, <2>3
<1> QED BY <1>1, <1>2, <1>3, <1>4

\* one was added at place k, the first zero from there on being at z
OneMore(q, r, k, z) ==
  q \in Rows /\ \A j \in Bits : q[j] = IF j = z THEN 1 ELSE IF j \in k .. z - 1 THEN 0 ELSE r[j]

\* Adding one at a place: up to the first zero.
LEMMA IncrementTo ==
  ASSUME NEW r \in Rows, NEW k \in Bits, NEW z \in k .. N - 1, r[z] = 0,
         \A j \in k .. z - 1 : r[j] # 0
  PROVE  OneMore(Increment(r, k), r, k, z)
<1> DEFINE ones(y) == \A j \in k .. y - 1 : r[j] # 0
           zeroes == {y \in k .. N - 1 : r[y] = 0 /\ ones(y)}
<1>0. N \in Nat \ {0} /\ k \in Nat /\ k <= N - 1
  BY BitFacts DEF Bits
<1>1. zeroes = {z}
  <2>1. z \in zeroes
    OBVIOUS
  <2>2. ASSUME NEW y \in zeroes PROVE y = z
    <3>1. y \in k .. N - 1 /\ r[y] = 0 /\ \A j \in k .. y - 1 : r[j] # 0
      OBVIOUS
    <3>2. y < z => FALSE
      <4>1. y < z => y \in k .. z - 1
        BY <1>0, <3>1
      <4> QED BY <3>1, <4>1
    <3>3. z < y => FALSE
      <4>1. z < y => z \in k .. y - 1
        BY <1>0, <3>1
      <4> QED BY <3>1, <4>1
    <3> QED BY <1>0, <3>1, <3>2, <3>3
  <2> HIDE DEF zeroes
  <2> QED BY <2>1, <2>2
<1>2. Increment(r, k) = [j \in DOMAIN r |-> IF j \in zeroes THEN 1
                                            ELSE IF j >= k /\ ones(j) THEN 0 ELSE r[j]]
  BY Zenon DEF Increment
<1>3. DOMAIN r = Bits
  BY DEF Rows
<1> HIDE DEF zeroes
<1>4. ASSUME NEW j \in Bits
      PROVE  Increment(r, k)[j] = IF j = z THEN 1 ELSE IF j \in k .. z - 1 THEN 0 ELSE r[j]
  <2>1. j \in Int
    BY BitFacts
  <2>2. CASE j = z
    BY <1>1, <1>2, <1>3, <2>2
  <2>3. CASE j # z
    <3>1. (j >= k /\ ones(j)) <=> j \in k .. z - 1
      <4>1. ASSUME j \in k .. z - 1 PROVE j >= k /\ ones(j)
        <5>1. \A i \in k .. j - 1 : i \in k .. z - 1
          BY <1>0, <4>1
        <5> QED BY <2>1, <4>1, <5>1
      <4>2. ASSUME j >= k, ones(j) PROVE j \in k .. z - 1
        <5>1. j > z => z \in k .. j - 1
          BY <1>0, <2>1
        <5>2. ~ (j > z)
          BY <4>2, <5>1
        <5> QED BY <1>0, <2>1, <2>3, <4>2, <5>2
      <4> QED BY <4>1, <4>2
    <3> HIDE DEF ones
    <3> QED BY <1>1, <1>2, <1>3, <2>3, <3>1
  <2> QED BY <2>2, <2>3
<1>5. Increment(r, k) \in Rows
  <2>1. \A j \in Bits : Increment(r, k)[j] \in Int
    BY <1>4 DEF Rows
  <2>2. Increment(r, k) = [j \in Bits |-> Increment(r, k)[j]]
    BY <1>2, <1>3
  <2> QED BY <2>1, <2>2 DEF Rows
<1> QED BY <1>4, <1>5 DEF OneMore

\* Digits that add up to a, and what is known of those from place k on.
Sum(u, r, a) ==
  /\ u \in [0 .. N -> Int] /\ u[0] = a /\ u[N] = 0
  /\ \A j \in Bits : u[j] = r[j] * 2^j + u[j + 1]

Unread(u, r, k, a) ==
  \A j \in k .. N - 1 : r[j] \in {0, 1} /\ (r[j] # 0 => u[j] <= a + 2^j)

\* What is left above a place only falls.
LEMMA SumFalls ==
  ASSUME NEW a \in Nat, NEW u, NEW r \in Rows, Sum(u, r, a), NEW k \in 0 .. N,
         \A j \in k .. N - 1 : r[j] \in {0, 1}
  PROVE  \A j \in k .. N : u[j] <= u[k]
<1>0. N \in Nat \ {0}
  BY BitFacts
<1>1. u \in [0 .. N -> Int] /\ \A j \in Bits : u[j] = r[j] * 2^j + u[j + 1]
  BY DEF Sum
<1> DEFINE S == {j \in 0 .. N - k : u[k + j] <= u[k]}
<1>2. 0 \in S
  <2>1. k + 0 = k /\ u[k] \in Int
    BY <1>0, <1>1
  <2> QED BY <1>0, <2>1
<1>3. ASSUME NEW j \in 0 .. (N - k) - 1, j \in S PROVE j + 1 \in S
  <2>1. PICK i \in Bits : i = k + j /\ i + 1 = k + (j + 1) /\ i \in k .. N - 1 /\ i \in 0 .. N
                            /\ i + 1 \in 0 .. N
    BY <1>0 DEF Bits
  <2>2. PICK x \in Int, y \in Int, d \in {0, 1}, p \in Nat : x = u[i] /\ y = u[i + 1] /\ d = r[i] /\ p = 2^i
    <3>1. u[i] \in Int /\ u[i + 1] \in Int /\ r[i] \in {0, 1} /\ 2^i \in Nat
      BY <1>1, <2>1, BitFacts
    <3> QED BY <3>1
  <2>3. x = d * p + y
    BY <1>1, <2>1, <2>2
  <2>4. d * p >= 0 /\ d * p \in Int
    OBVIOUS
  <2>5. y <= x
    BY <2>3, <2>4
  <2>6. x <= u[k] /\ u[k] \in Int
    BY <1>1, <1>3, <2>1, <2>2
  <2>7. y <= u[k]
    BY <2>5, <2>6
  <2>8. j + 1 \in 0 .. N - k
    BY <1>0
  <2> QED BY <2>1, <2>2, <2>7, <2>8
<1>4. 0 .. N - k \subseteq S
  <2>1. N - k \in Nat
    BY <1>0
  <2> HIDE DEF S
  <2> QED BY <1>2, <1>3, <2>1, Num!UpTo
<1>5. ASSUME NEW j \in k .. N PROVE u[j] <= u[k]
  <2>1. PICK i \in 0 .. N - k : i = j - k /\ k + i = j
    BY <1>0
  <2> QED BY <1>4, <2>1
<1> QED BY <1>5

\* what holds while the digit at i gathers
Gathering(u, r, i, a) ==
  /\ Sum(u, r, a) /\ Unread(u, r, i + 1, a) /\ u[i] <= a + 2^i
  /\ \A j \in 0 .. i - 1 : Settled(r[j])
  /\ r[i] % 2 = 1 /\ r[i] \in -15 .. 15

InGathering(r, i, a) == \E u : Gathering(u, r, i, a)

\* the bit at k was taken in, and what is between is zero
Taken(q, i, k, a) ==
  q \in Rows /\ InGathering(q, i, a) /\ \A j \in i + 1 .. k : q[j] = 0

\* the digit at i with the bit at k, worth w, added or subtracted
More(r, i, k, w) == [r EXCEPT ![i] = r[i] + w, ![k] = 0]
Less(r, i, k, w) == Increment([r EXCEPT ![i] = r[i] - w], k)

\* A bit that is taken in by adding.
LEMMA GatherAdds ==
  ASSUME NEW a \in Nat, NEW u, NEW r \in Rows, NEW i \in Bits, NEW k \in i + 1 .. N - 1,
         Gathering(u, r, i, a), r[k] = 1, \A j \in i + 1 .. k - 1 : r[j] = 0,
         NEW w \in {2, 4, 8, 16, 32, 64}, 2^k = 2^i * w, r[i] + w <= 15
  PROVE  Taken(More(r, i, k, w), i, k, a)
<1>q. PICK q : q = More(r, i, k, w)
  OBVIOUS
<1>0. /\ N \in Nat \ {0} /\ i \in Nat /\ k \in Nat /\ i \in 0 .. N - 1 /\ k \in Bits /\ k # i
      /\ i < k /\ k <= N - 1
  BY BitFacts DEF Bits
<1>1. /\ u \in [0 .. N -> Int] /\ u[0] = a /\ u[N] = 0
      /\ \A j \in Bits : u[j] = r[j] * 2^j + u[j + 1]
      /\ \A j \in i + 1 .. N - 1 : r[j] \in {0, 1} /\ (r[j] # 0 => u[j] <= a + 2^j)
      /\ u[i] <= a + 2^i /\ \A j \in 0 .. i - 1 : Settled(r[j])
      /\ r[i] % 2 = 1 /\ r[i] \in -15 .. 15
  BY DEF Gathering, Sum, Unread
<1>2. PICK x \in -15 .. 15 : x = r[i]
  BY <1>1
<1>3. q \in Rows /\ q[i] = x + w /\ q[k] = 0 /\ \A j \in Bits : j \notin {i, k} => q[j] = r[j]
  <2>1. x + w \in Int /\ q = [r EXCEPT ![i] = x + w, ![k] = 0]
    BY <1>2, <1>q DEF More
  <2> QED BY <1>0, <2>1 DEF Rows
<1>4. (x + w) % 2 = 1 /\ x + w \in -15 .. 15
  <2>1. x % 2 = 1 /\ x + w <= 15
    BY <1>1, <1>2
  <2> QED BY <2>1
<1>5. PICK p \in Nat : p = 2^k
  BY <1>0, BitFacts
<1> DEFINE v == [j \in 0 .. N |-> IF j \in i + 1 .. k THEN u[j] - p ELSE u[j]]
<1>6. v \in [0 .. N -> Int]
  <2>1. \A j \in 0 .. N : u[j] \in Int /\ u[j] - p \in Int
    BY <1>1
  <2> QED BY <2>1
<1>7. \A j \in 0 .. N : v[j] = IF j \in i + 1 .. k THEN u[j] - p ELSE u[j]
  OBVIOUS
<1> HIDE DEF v
<1>8. v[0] = a /\ v[N] = 0 /\ v[i] = u[i]
  <2>1. /\ 0 \in 0 .. N /\ N \in 0 .. N /\ i \in 0 .. N
        /\ 0 \notin i + 1 .. k /\ N \notin i + 1 .. k /\ i \notin i + 1 .. k
    BY <1>0
  <2> QED BY <1>1, <1>7, <2>1, Zenon
<1>9. ASSUME NEW j \in Bits PROVE v[j] = q[j] * 2^j + v[j + 1]
  <2>1. j \in 0 .. N /\ j + 1 \in 0 .. N /\ j \in Int
    BY <1>0 DEF Bits
  <2>2. PICK y \in Int, z \in Int, d \in Int, e \in Int :
          y = u[j] /\ z = u[j + 1] /\ d = r[j] /\ e = 2^j
    <3>1. r[j] \in Int /\ 2^j \in Int /\ u[j] \in Int /\ u[j + 1] \in Int
      BY <1>1, <2>1, BitFacts DEF Rows
    <3> QED BY <3>1
  <2>3. y = d * e + z
    BY <1>1, <2>2
  <2>4. CASE j \notin i .. k
    <3>1. v[j] = y /\ v[j + 1] = z /\ q[j] = d
      <4>1. j \notin {i, k} /\ j \notin i + 1 .. k /\ j + 1 \notin i + 1 .. k
        BY <1>0, <2>1, <2>4
      <4> QED BY <1>3, <1>7, <2>1, <2>2, <4>1
    <3> QED BY <2>2, <2>3, <3>1
  <2>5. CASE j = i
    <3>1. v[j] = y /\ v[j + 1] = z - p /\ q[j] = d + w
      BY <1>0, <1>2, <1>3, <1>7, <2>1, <2>2, <2>5
    <3>2. p = e * w
      BY <1>5, <2>2, <2>5
    <3>3. (d + w) * e = d * e + e * w
      OBVIOUS
    <3>4. PICK f \in Int, g \in Int : f = d * e /\ g = e * w
      OBVIOUS
    <3>5. y = (d + w) * e + (z - p)
      BY <2>3, <3>2, <3>3, <3>4
    <3> QED BY <2>2, <3>1, <3>5
  <2>6. CASE j \in i + 1 .. k - 1
    <3>1. v[j] = y - p /\ v[j + 1] = z - p /\ q[j] = d
      <4>1. j \notin {i, k} /\ j \in i + 1 .. k /\ j + 1 \in i + 1 .. k
        BY <1>0, <2>1, <2>6
      <4> QED BY <1>3, <1>7, <2>1, <2>2, <4>1
    <3>2. PICK f \in Int : f = d * e
      OBVIOUS
    <3>3. y - p = d * e + (z - p)
      BY <2>3, <3>2
    <3> QED BY <2>2, <3>1, <3>3
  <2>7. CASE j = k
    <3>1. v[j] = y - p /\ v[j + 1] = z /\ q[j] = 0 /\ d = 1 /\ e = p
      BY <1>0, <1>3, <1>5, <1>7, <2>1, <2>2, <2>7
    <3>2. y - p = 0 * e + z
      BY <2>3, <3>1
    <3> QED BY <2>2, <3>1, <3>2
  <2> QED BY <1>0, <2>1, <2>4, <2>5, <2>6, <2>7
<1>10. Sum(v, q, a)
  BY <1>6, <1>8, <1>9 DEF Sum
<1>11. ASSUME NEW j \in i + 1 .. N - 1 PROVE q[j] \in {0, 1} /\ (q[j] # 0 => v[j] <= a + 2^j)
  <2>1. j \in Bits /\ j \in 0 .. N /\ j # i
    BY <1>0 DEF Bits
  <2>2. PICK y \in Int, e \in Int : y = u[j] /\ e = 2^j
    <3>1. 2^j \in Int /\ u[j] \in Int
      BY <1>1, <2>1, BitFacts
    <3> QED BY <3>1
  <2>3. v[j] = y \/ v[j] = y - p
    BY <1>7, <2>1, <2>2
  <2>4. CASE j = k
    BY <1>3, <2>4
  <2>5. CASE j # k
    <3>1. q[j] = r[j]
      BY <1>3, <2>1, <2>5
    <3>2. r[j] \in {0, 1} /\ (r[j] # 0 => y <= a + e)
      BY <1>1, <2>2
    <3> QED BY <2>2, <2>3, <3>1, <3>2
  <2> QED BY <2>4, <2>5
<1>12. Unread(v, q, i + 1, a)
  BY <1>11 DEF Unread
<1>13. \A j \in 0 .. i - 1 : Settled(q[j])
  <2> TAKE j \in 0 .. i - 1
  <2>1. j \in Bits /\ j \notin {i, k}
    BY <1>0 DEF Bits
  <2>2. q[j] = r[j]
    BY <1>3, <2>1
  <2> QED BY <1>1, <2>2
<1>14. v[i] <= a + 2^i
  BY <1>1, <1>8
<1>15. Gathering(v, q, i, a)
  BY <1>3, <1>4, <1>10, <1>12, <1>13, <1>14 DEF Gathering
<1>16. ASSUME NEW j \in i + 1 .. k PROVE q[j] = 0
  <2>1. CASE j = k
    BY <1>3, <2>1
  <2>2. CASE j # k
    <3>1. j \in i + 1 .. k - 1 /\ j \in Bits /\ j \notin {i, k}
      BY <1>0, <2>2 DEF Bits
    <3> QED BY <1>3, <3>1
  <2> QED BY <2>1, <2>2
<1> QED BY <1>q, <1>3, <1>15, <1>16 DEF InGathering, Taken

\* the bits from place k on are worth a at most, and there is room for one more at k
Room(u, r, k, a) ==
  /\ u[k] <= a /\ \A j \in k .. N : u[j] <= u[k]
  /\ r[k] = 1 => \E z \in k + 1 .. N - 1 : r[z] = 0 /\ \A j \in k .. z - 1 : r[j] = 1

\* A scalar that leaves the last bit free leaves room.
LEMMA RoomAbove ==
  ASSUME NEW a \in Nat, a < 2^(N - 1), NEW u, NEW r \in Rows, NEW i \in Bits,
         NEW k \in i + 1 .. N - 1, Gathering(u, r, i, a), r[i] >= 1
  PROVE  Room(u, r, k, a)
<1>0. /\ N \in Nat \ {0} /\ i \in Nat /\ k \in Nat /\ i \in 0 .. N - 1 /\ k \in Bits /\ k # i
      /\ i < k /\ k <= N - 1 /\ N - 1 \in Bits
  BY BitFacts DEF Bits
<1>1. /\ u \in [0 .. N -> Int] /\ u[N] = 0 /\ \A j \in Bits : u[j] = r[j] * 2^j + u[j + 1]
      /\ \A j \in i + 1 .. N - 1 : r[j] \in {0, 1}
      /\ u[i] <= a + 2^i /\ r[i] \in -15 .. 15 /\ Sum(u, r, a)
  BY DEF Gathering, Sum, Unread
<1>2. ASSUME NEW l \in i + 1 .. N PROVE \A j \in l .. N : u[j] <= u[l]
  <2>1. l \in 0 .. N /\ \A j \in l .. N - 1 : j \in i + 1 .. N - 1
    BY <1>0
  <2>2. \A j \in l .. N - 1 : r[j] \in {0, 1}
    BY <1>1, <2>1
  <2> QED BY <1>1, <2>1, <2>2, SumFalls
<1>3. u[k] <= a
  <2>1. PICK y \in Int, z \in Int, t \in Int, d \in 1 .. 15, p \in Nat :
          y = u[i] /\ z = u[i + 1] /\ t = u[k] /\ d = r[i] /\ p = 2^i
    <3>1. i \in 0 .. N /\ i + 1 \in 0 .. N /\ k \in 0 .. N
      BY <1>0
    <3>2. u[i] \in Int /\ u[i + 1] \in Int /\ u[k] \in Int /\ 2^i \in Nat
      BY <1>1, <3>1, BitFacts
    <3>3. r[i] \in 1 .. 15
      <4>1. PICK x \in -15 .. 15 : x = r[i]
        BY <1>1
      <4> QED BY <4>1
    <3> QED BY <3>2, <3>3
  <2>2. y = d * p + z /\ y <= a + p
    BY <1>1, <2>1
  <2>3. t <= z
    <3>1. i + 1 \in i + 1 .. N /\ k \in i + 1 .. N
      BY <1>0
    <3>2. u[k] <= u[i + 1]
      BY <1>2, <3>1
    <3> QED BY <2>1, <3>2
  <2>4. d * p >= p
    <3>1. d - 1 \in Nat
      OBVIOUS
    <3>2. (d - 1) * p >= 0
      BY <3>1
    <3> QED BY <3>2
  <2>5. PICK f \in Int : f = d * p
    OBVIOUS
  <2> QED BY <2>1, <2>2, <2>3, <2>4, <2>5
<1>4. \A j \in k .. N : u[j] <= u[k]
  <2>1. k \in i + 1 .. N
    BY <1>0
  <2> QED BY <1>2, <2>1
<1>5. r[N - 1] = 0
  <2>1. SUFFICES ASSUME r[N - 1] # 0 PROVE FALSE
    OBVIOUS
  <2>2. N - 1 \in i + 1 .. N - 1 /\ N - 1 \in k .. N /\ (N - 1) + 1 = N /\ N - 1 \in 0 .. N
    BY <1>0
  <2>3. r[N - 1] = 1
    BY <1>1, <2>1, <2>2
  <2>4. PICK p \in Nat, y \in Int, t \in Int : p = 2^(N - 1) /\ y = u[N - 1] /\ t = u[k]
    <3>1. 2^(N - 1) \in Nat
      BY <1>0, BitFacts
    <3>2. k \in 0 .. N
      BY <1>0
    <3>3. u[N - 1] \in Int /\ u[k] \in Int
      BY <1>1, <2>2, <3>2
    <3> QED BY <3>1, <3>3
  <2>5. y = 1 * p + 0
    <3>1. u[N - 1] = r[N - 1] * 2^(N - 1) + u[(N - 1) + 1]
      BY <1>0, <1>1
    <3> QED BY <1>1, <2>2, <2>3, <2>4, <3>1, Zenon
  <2>6. y <= t /\ t <= a /\ a < p
    BY <1>3, <1>4, <2>2, <2>4
  <2> QED BY <2>5, <2>6
<1>6. ASSUME r[k] = 1
      PROVE  \E z \in k + 1 .. N - 1 : r[z] = 0 /\ \A j \in k .. z - 1 : r[j] = 1
  <2> DEFINE Z == {z \in k .. N - 1 : r[z] = 0}
  <2>1. Z \in SUBSET Nat /\ Z # {}
    <3>1. N - 1 \in Z
      BY <1>0, <1>5
    <3>2. \A z \in k .. N - 1 : z \in Nat
      BY <1>0
    <3> QED BY <3>1, <3>2
  <2>2. PICK z \in Z : \A y \in Z : z <= y
    <3> HIDE DEF Z
    <3> QED BY <2>1, Num!LeastNatural
  <2>3. z \in k .. N - 1 /\ r[z] = 0 /\ z # k
    BY <1>6, <2>2
  <2>4. z \in k + 1 .. N - 1
    BY <1>0, <2>3
  <2>5. ASSUME NEW j \in k .. z - 1 PROVE r[j] = 1
    <3>1. j \in k .. N - 1 /\ j \in i + 1 .. N - 1 /\ ~ (z <= j)
      BY <1>0, <2>3
    <3>2. r[j] # 0
      BY <2>2, <3>1
    <3> QED BY <1>1, <3>1, <3>2
  <2> QED BY <2>3, <2>4, <2>5
<1> QED BY <1>3, <1>4, <1>6 DEF Room

\* A bit that is taken in by subtracting, with one more at its place.
LEMMA GatherSubtracts ==
  ASSUME NEW a \in Nat, a < 2^(N - 1), NEW u, NEW r \in Rows, NEW i \in Bits,
         NEW k \in i + 1 .. N - 1, Gathering(u, r, i, a), r[k] = 1,
         \A j \in i + 1 .. k - 1 : r[j] = 0,
         NEW w \in {2, 4, 8, 16, 32, 64}, 2^k = 2^i * w, r[i] + w > 15, r[i] - w >= -15
  PROVE  Taken(Less(r, i, k, w), i, k, a)
<1>q. PICK q, s : q = Less(r, i, k, w) /\ q = Increment(s, k) /\ s = [r EXCEPT ![i] = r[i] - w]
  BY DEF Less
<1>0. /\ N \in Nat \ {0} /\ i \in Nat /\ k \in Nat /\ i \in 0 .. N - 1 /\ k \in Bits /\ k # i
      /\ i < k /\ k <= N - 1
  BY BitFacts DEF Bits
<1>1. /\ u \in [0 .. N -> Int] /\ u[0] = a /\ u[N] = 0
      /\ \A j \in Bits : u[j] = r[j] * 2^j + u[j + 1]
      /\ \A j \in i + 1 .. N - 1 : r[j] \in {0, 1} /\ (r[j] # 0 => u[j] <= a + 2^j)
      /\ u[i] <= a + 2^i /\ \A j \in 0 .. i - 1 : Settled(r[j])
      /\ r[i] % 2 = 1 /\ r[i] \in -15 .. 15
  BY DEF Gathering, Sum, Unread
<1>2. PICK x \in -15 .. 15 : x = r[i]
  BY <1>1
<1>3. x >= 1 /\ (x - w) % 2 = 1 /\ x - w \in -15 .. 15
  <2>1. x % 2 = 1 /\ x + w > 15 /\ x - w >= -15
    BY <1>1, <1>2
  <2> QED BY <2>1
<1>4. /\ u[k] <= a /\ \A j \in k .. N : u[j] <= u[k]
      /\ \E z \in k + 1 .. N - 1 : r[z] = 0 /\ \A j \in k .. z - 1 : r[j] = 1
  <2>1. r[i] >= 1
    BY <1>2, <1>3
  <2>2. Room(u, r, k, a)
    BY <2>1, RoomAbove
  <2> QED BY <2>2, Zenon DEF Room
<1>5. PICK z \in k + 1 .. N - 1 : r[z] = 0 /\ \A j \in k .. z - 1 : r[j] = 1
  BY <1>4
<1>6. s \in Rows /\ s[i] = x - w /\ \A j \in Bits : j # i => s[j] = r[j]
  <2>1. x - w \in Int /\ s = [r EXCEPT ![i] = x - w]
    BY <1>2, <1>q
  <2> QED BY <1>0, <2>1 DEF Rows
<1>6q. OneMore(q, s, k, z)
  <2>1. z \in k .. N - 1 /\ z \in Bits /\ z # i
    BY <1>0, <1>5 DEF Bits
  <2>2. s[z] = 0
    BY <1>5, <1>6, <2>1
  <2>3. \A j \in k .. z - 1 : s[j] # 0
    <3> TAKE j \in k .. z - 1
    <3>1. j \in Bits /\ j # i
      BY <1>0, <1>5 DEF Bits
    <3> QED BY <1>5, <1>6, <3>1
  <2>4. OneMore(Increment(s, k), s, k, z)
    <3>1. k \in Bits /\ s \in Rows
      BY <1>0, <1>6
    <3> QED BY <2>1, <2>2, <2>3, <3>1, IncrementTo
  <2> QED BY <1>q, <2>4
<1>7. /\ q \in Rows
      /\ \A j \in Bits : q[j] = IF j = z THEN 1 ELSE IF j \in k .. z - 1 THEN 0 ELSE s[j]
  BY <1>6q DEF OneMore
<1>8. /\ q[i] = x - w /\ q[z] = 1 /\ \A j \in k .. z - 1 : q[j] = 0
      /\ \A j \in Bits : j # i /\ j \notin k .. z => q[j] = r[j]
  <2>1. i \in Bits /\ z \in Bits /\ i # z /\ i \notin k .. z - 1
    BY <1>0, <1>5 DEF Bits
  <2>2. \A j \in k .. z - 1 : j \in Bits /\ j # z
    BY <1>0, <1>5 DEF Bits
  <2>3. \A j \in Bits : j \notin k .. z => j # z /\ j \notin k .. z - 1
    BY <1>0, <1>5
  <2> QED BY <1>6, <1>7, <2>1, <2>2, <2>3
<1>9. PICK p \in Nat : p = 2^k
  BY <1>0, BitFacts
<1> DEFINE v == [j \in 0 .. N |-> IF j \in i + 1 .. k THEN u[j] + p
                                  ELSE IF j \in k + 1 .. z THEN u[j] + 2^j ELSE u[j]]
<1>10. v \in [0 .. N -> Int]
  <2>1. ASSUME NEW j \in 0 .. N PROVE u[j] \in Int /\ u[j] + p \in Int
    <3>1. PICK y \in Int : y = u[j]
      BY <1>1
    <3> QED BY <3>1
  <2>2. \A j \in k + 1 .. z : j \in Bits
    BY <1>0, <1>5 DEF Bits
  <2>3. \A j \in 0 .. N : j \in k + 1 .. z => u[j] + 2^j \in Int
    <3> TAKE j \in 0 .. N
    <3> HAVE j \in k + 1 .. z
    <3>1. PICK y \in Int, e \in Int : y = u[j] /\ e = 2^j
      BY <2>1, <2>2, BitFacts
    <3> QED BY <3>1
  <2> QED BY <2>1, <2>3
<1>11. \A j \in 0 .. N : v[j] = IF j \in i + 1 .. k THEN u[j] + p
                                ELSE IF j \in k + 1 .. z THEN u[j] + 2^j ELSE u[j]
  OBVIOUS
<1> HIDE DEF v
<1>12. v[0] = a /\ v[N] = 0 /\ v[i] = u[i]
  <2>1. /\ 0 \in 0 .. N /\ N \in 0 .. N /\ i \in 0 .. N
        /\ 0 \notin i + 1 .. k /\ N \notin i + 1 .. k /\ i \notin i + 1 .. k
        /\ 0 \notin k + 1 .. z /\ N \notin k + 1 .. z /\ i \notin k + 1 .. z
    BY <1>0, <1>5
  <2> QED BY <1>1, <1>11, <2>1, Zenon
<1>13. ASSUME NEW j \in Bits PROVE v[j] = q[j] * 2^j + v[j + 1]
  <2>1. j \in 0 .. N /\ j + 1 \in 0 .. N /\ j \in Nat
    BY <1>0 DEF Bits
  <2>2. PICK y \in Int, t \in Int, d \in Int, e \in Int :
          y = u[j] /\ t = u[j + 1] /\ d = r[j] /\ e = 2^j /\ 2^(j + 1) = 2 * e
    <3>1. r[j] \in Int /\ 2^j \in Int /\ u[j] \in Int /\ u[j + 1] \in Int
      BY <1>1, <2>1, BitFacts DEF Rows
    <3>2. 2^(j + 1) = 2 * 2^j
      BY <2>1, BitFacts
    <3> QED BY <3>1, <3>2
  <2>3. y = d * e + t
    BY <1>1, <2>2
  <2>4. CASE j \notin i .. z
    <3>1. j # i /\ j \notin k .. z /\ j \notin i + 1 .. k /\ j \notin k + 1 .. z
          /\ j + 1 \notin i + 1 .. k /\ j + 1 \notin k + 1 .. z
      BY <1>0, <1>5, <2>1, <2>4
    <3>2. v[j] = y /\ v[j + 1] = t /\ q[j] = d
      BY <1>8, <1>11, <2>1, <2>2, <3>1
    <3> QED BY <2>2, <2>3, <3>2
  <2>5. CASE j = i
    <3>1. j \notin i + 1 .. k /\ j \notin k + 1 .. z /\ j + 1 \in i + 1 .. k
      BY <1>0, <1>5, <2>1, <2>5
    <3>2. v[j] = y /\ v[j + 1] = t + p /\ q[j] = d - w
      BY <1>2, <1>8, <1>11, <2>1, <2>2, <2>5, <3>1
    <3>3. p = e * w
      BY <1>9, <2>2, <2>5
    <3>4. (d - w) * e = d * e - e * w
      OBVIOUS
    <3>5. PICK f \in Int, g \in Int : f = d * e /\ g = e * w
      OBVIOUS
    <3>6. y = (d - w) * e + (t + p)
      BY <2>3, <3>3, <3>4, <3>5
    <3> QED BY <2>2, <3>2, <3>6
  <2>6. CASE j \in i + 1 .. k - 1
    <3>1. j # i /\ j \notin k .. z /\ j \in i + 1 .. k /\ j + 1 \in i + 1 .. k
      BY <1>0, <1>5, <2>1, <2>6
    <3>2. v[j] = y + p /\ v[j + 1] = t + p /\ q[j] = d
      BY <1>8, <1>11, <2>1, <2>2, <3>1
    <3>3. PICK f \in Int : f = d * e
      OBVIOUS
    <3>4. y + p = d * e + (t + p)
      BY <2>3, <3>3
    <3> QED BY <2>2, <3>2, <3>4
  <2>7. CASE j \in k .. z - 1
    <3>1. v[j] = y + e
      <4>1. CASE j = k
        <5>1. j \in i + 1 .. k /\ e = p
          BY <1>0, <1>9, <2>2, <4>1
        <5> QED BY <1>11, <2>1, <2>2, <5>1
      <4>2. CASE j # k
        <5>1. j \notin i + 1 .. k /\ j \in k + 1 .. z
          BY <1>0, <1>5, <2>1, <2>7, <4>2
        <5> QED BY <1>11, <2>1, <2>2, <5>1
      <4> QED BY <4>1, <4>2
    <3>2. v[j + 1] = t + 2 * e
      <4>1. j + 1 \notin i + 1 .. k /\ j + 1 \in k + 1 .. z
        BY <1>0, <1>5, <2>1, <2>7
      <4> QED BY <1>11, <2>1, <2>2, <4>1
    <3>3. q[j] = 0 /\ d = 1
      BY <1>5, <1>8, <2>2, <2>7
    <3>4. y + e = 0 * e + (t + 2 * e)
      BY <2>3, <3>3
    <3> QED BY <2>2, <3>1, <3>2, <3>3, <3>4
  <2>8. CASE j = z
    <3>1. /\ j \notin i + 1 .. k /\ j \in k + 1 .. z
          /\ j + 1 \notin i + 1 .. k /\ j + 1 \notin k + 1 .. z
      BY <1>0, <1>5, <2>1, <2>8
    <3>2. v[j] = y + e /\ v[j + 1] = t /\ q[j] = 1 /\ d = 0
      BY <1>5, <1>8, <1>11, <2>1, <2>2, <2>8, <3>1
    <3>3. y + e = 1 * e + t
      BY <2>3, <3>2
    <3> QED BY <2>2, <3>2, <3>3
  <2> QED BY <1>0, <1>5, <2>1, <2>4, <2>5, <2>6, <2>7, <2>8
<1>14. Sum(v, q, a)
  BY <1>10, <1>12, <1>13 DEF Sum
<1>15. ASSUME NEW j \in i + 1 .. N - 1 PROVE q[j] \in {0, 1} /\ (q[j] # 0 => v[j] <= a + 2^j)
  <2>1. j \in Bits /\ j \in 0 .. N /\ j # i
    BY <1>0 DEF Bits
  <2>2. PICK y \in Int, e \in Int, t \in Int : y = u[j] /\ e = 2^j /\ t = u[k]
    <3>1. k \in 0 .. N
      BY <1>0
    <3>2. 2^j \in Int /\ u[j] \in Int /\ u[k] \in Int
      BY <1>1, <2>1, <3>1, BitFacts
    <3> QED BY <3>2
  <2>3. CASE j \in i + 1 .. k - 1
    <3>1. j \notin k .. z
      BY <1>0, <2>3
    <3> QED BY <1>8, <2>1, <2>3, <3>1
  <2>4. CASE j \in k .. z - 1
    BY <1>8, <2>4
  <2>5. CASE j = z
    <3>1. j \notin i + 1 .. k /\ j \in k + 1 .. z /\ j \in k .. N
      BY <1>0, <1>5, <2>5
    <3>2. v[j] = y + e
      BY <1>11, <2>1, <2>2, <3>1
    <3>3. y <= t /\ t <= a
      BY <1>4, <2>2, <3>1
    <3> QED BY <1>8, <2>2, <2>5, <3>2, <3>3
  <2>6. CASE j > z
    <3>1. j \notin i + 1 .. k /\ j \notin k + 1 .. z /\ j \notin k .. z
      BY <1>0, <1>5, <2>6
    <3>2. v[j] = u[j] /\ q[j] = r[j]
      BY <1>8, <1>11, <2>1, <3>1
    <3> QED BY <1>1, <3>2
  <2> QED BY <1>0, <1>5, <2>3, <2>4, <2>5, <2>6
<1>16. Unread(v, q, i + 1, a)
  BY <1>15 DEF Unread
<1>17. \A j \in 0 .. i - 1 : Settled(q[j])
  <2> TAKE j \in 0 .. i - 1
  <2>1. j \in Bits /\ j # i /\ j \notin k .. z
    BY <1>0 DEF Bits
  <2>2. q[j] = r[j]
    BY <1>8, <2>1
  <2> QED BY <1>1, <2>2
<1>18. v[i] <= a + 2^i
  BY <1>1, <1>12
<1>19. Gathering(v, q, i, a)
  BY <1>3, <1>8, <1>14, <1>16, <1>17, <1>18 DEF Gathering
<1>20. ASSUME NEW j \in i + 1 .. k PROVE q[j] = 0
  <2>1. CASE j = k
    <3>1. j \in k .. z - 1
      BY <1>0, <1>5, <2>1
    <3> QED BY <1>8, <3>1
  <2>2. CASE j # k
    <3>1. j \in i + 1 .. k - 1 /\ j \in Bits /\ j # i /\ j \notin k .. z
      BY <1>0, <2>2 DEF Bits
    <3> QED BY <1>8, <3>1
  <2> QED BY <2>1, <2>2
<1>21. InGathering(q, i, a)
  BY <1>19 DEF InGathering
<1>22. Taken(q, i, k, a)
  BY <1>7, <1>20, <1>21 DEF Taken
<1> QED BY <1>q, <1>22

LEMMA WindowBits == \A b \in 1 .. 6 : 2^b \in {2, 4, 8, 16, 32, 64}
<1>1. 2^1 = 2 /\ 2^2 = 4 /\ 2^3 = 8 /\ 2^4 = 16 /\ 2^5 = 32
  BY SmallPowers, Num!PowerOfTwo
<1>2. 2^6 = 64
  <2>1. 2^(3 + 3) = 2^3 * 2^3
    BY Num!PowerOfTwo
  <2>2. 3 + 3 = 6
    OBVIOUS
  <2> QED BY <1>1, <2>1, <2>2
<1>3. \A b \in 1 .. 6 : b = 1 \/ b = 2 \/ b = 3 \/ b = 4 \/ b = 5 \/ b = 6
  OBVIOUS
<1> QED BY <1>1, <1>2, <1>3

\* the rows of digits with the mark that gathering is over
Marked == [r : Rows, stop : BOOLEAN]

\* what a turn of the inner loop makes of a row, the bit at k being worth w
Turned(g, t, i, k, w) ==
  /\ t.stop \/ k >= N => g = t
  /\ ~ t.stop /\ k < N =>
       /\ t.r[i] + w <= 15 => g = [r |-> More(t.r, i, k, w), stop |-> FALSE]
       /\ t.r[i] + w > 15 /\ t.r[i] - w >= -15 =>
            g = [r |-> Less(t.r, i, k, w), stop |-> FALSE]
       /\ t.r[i] + w > 15 /\ ~ (t.r[i] - w >= -15) => g = [r |-> t.r, stop |-> TRUE]

\* The cases of Gather.
LEMMA GatherCases ==
  ASSUME NEW t \in Marked, NEW i \in Bits, NEW b \in 1 .. 6, NEW k \in Nat, k = i + b,
         NEW g, g = Gather(i, t, b)
  PROVE  Turned(g, t, i, k, t.r[k] * 2^b)
<1>0. PICK r \in Rows, stop \in BOOLEAN : r = t.r /\ stop = t.stop /\ t = [r |-> r, stop |-> stop]
  BY DEF Marked
<1>1. ASSUME t.stop \/ k >= N PROVE g = t
  BY <1>1, Zenon DEF Gather
<1>2. ASSUME ~ t.stop, k < N
      PROVE  LET w == r[k] * 2^b
             IN  /\ r[i] + w <= 15 =>
                      g = [r |-> More(r, i, k, w), stop |-> FALSE]
                 /\ r[i] + w > 15 /\ r[i] - w >= -15 =>
                      g = [r |-> Less(r, i, k, w), stop |-> FALSE]
                 /\ r[i] + w > 15 /\ ~ (r[i] - w >= -15) => g = [r |-> r, stop |-> TRUE]
  <2>1. k \in Bits /\ i \in Bits /\ ~ (k >= N) /\ i # k
    BY <1>2, BitFacts DEF Bits
  <2>2. PICK w \in Int : w = r[k] * 2^b
    <3>1. PICK x \in Int, p \in Int : x = r[k] /\ p = 2^b
      BY <2>1, WindowBits DEF Rows
    <3> QED BY <3>1
  <2>3. PICK y \in Int : y = r[i]
    BY DEF Rows
  <2>4. PICK m, d : m = [r EXCEPT ![i] = y + w, ![k] = 0] /\ d = [r EXCEPT ![i] = y - w]
    OBVIOUS
  <2>5. g = CASE y + w <= 15                 -> [r |-> m, stop |-> FALSE]
              [] y + w > 15 /\ y - w >= -15  -> [r |-> Increment(d, k), stop |-> FALSE]
              [] OTHER                       -> [r |-> r, stop |-> TRUE]
    <3>1. ~ (t.stop \/ i + b >= N)
      BY <1>2, <2>1
    <3>2. m = [r EXCEPT ![i] = @ + w, ![k] = 0] /\ d = [r EXCEPT ![i] = @ - w]
      BY <2>3, <2>4
    <3> QED BY <1>0, <2>2, <2>3, <3>1, <3>2, Zenon DEF Gather
  <2>6. y + w > 15 <=> ~ (y + w <= 15)
    OBVIOUS
  <2>7. y + w <= 15 => g = [r |-> m, stop |-> FALSE]
    BY <2>5, <2>6, Zenon
  <2>8. y + w > 15 /\ y - w >= -15 => g = [r |-> Increment(d, k), stop |-> FALSE]
    BY <2>5, <2>6, Zenon
  <2>9. y + w > 15 /\ ~ (y - w >= -15) => g = [r |-> r, stop |-> TRUE]
    BY <2>5, <2>6, Zenon
  <2>10. More(r, i, k, w) = m /\ Less(r, i, k, w) = Increment(d, k)
    BY <2>3, <2>4, Zenon DEF More, Less
  <2> QED BY <2>2, <2>3, <2>7, <2>8, <2>9, <2>10, Zenon
<1> QED BY <1>0, <1>1, <1>2, Zenon DEF Turned

\* Gathering keeps rows rows.
LEMMA GatherType ==
  ASSUME NEW i \in Bits
  PROVE  GatherStay(Marked, 6, i)
<1>1. ASSUME NEW t \in Marked, NEW b \in 1 .. 6 PROVE Gather(i, t, b) \in Marked
  <2>1. PICK k \in Nat : k = i + b
    BY BitFacts
  <2>2. PICK g : g = Gather(i, t, b)
    OBVIOUS
  <2>3. PICK r \in Rows, stop \in BOOLEAN : r = t.r /\ stop = t.stop /\ t = [r |-> r, stop |-> stop]
    BY DEF Marked
  <2>4. CASE t.stop \/ k >= N
    BY <2>1, <2>4, Zenon DEF Gather
  <2>5. CASE ~ (t.stop \/ k >= N)
    <3>1. k \in Bits /\ ~ t.stop /\ k < N
      BY <2>5, BitFacts DEF Bits
    <3>2. PICK w \in Int, y \in Int : w = r[k] * 2^b /\ y = r[i]
      <4>1. PICK x \in Int, p \in Int, y \in Int : x = r[k] /\ p = 2^b /\ y = r[i]
        BY <3>1, WindowBits DEF Rows
      <4> QED BY <4>1
    <3>3. /\ y + w <= 15 =>
                g = [r |-> More(r, i, k, w), stop |-> FALSE]
          /\ y + w > 15 /\ y - w >= -15 =>
                g = [r |-> Less(r, i, k, w), stop |-> FALSE]
          /\ y + w > 15 /\ ~ (y - w >= -15) => g = [r |-> r, stop |-> TRUE]
      <4>1. Turned(g, t, i, k, t.r[k] * 2^b)
        BY <2>1, <2>2, GatherCases
      <4>2. Turned(g, t, i, k, w)
        BY <2>3, <3>2, <4>1, Zenon
      <4> QED BY <2>3, <3>1, <3>2, <4>2, Zenon DEF Turned
    <3>4. More(r, i, k, w) \in Rows
      <4>1. More(r, i, k, w) = [r EXCEPT ![i] = y + w, ![k] = 0]
        BY <3>2 DEF More
      <4> QED BY <3>1, <4>1 DEF Rows
    <3>5. PICK s : Less(r, i, k, w) = Increment(s, k) /\ s \in Rows
      <4>1. y - w \in Int
        OBVIOUS
      <4>2. [r EXCEPT ![i] = y - w] \in Rows
        BY <4>1 DEF Rows
      <4>3. Less(r, i, k, w) = Increment([r EXCEPT ![i] = y - w], k)
        BY <3>2 DEF Less
      <4> QED BY <4>2, <4>3
    <3>6. Increment(s, k) \in Rows
      <4> DEFINE ones(z) == \A j \in k .. z - 1 : s[j] # 0
                 zeroes == {z \in k .. N - 1 : s[z] = 0 /\ ones(z)}
      <4>1. Increment(s, k) = [j \in DOMAIN s |-> IF j \in zeroes THEN 1
                                                  ELSE IF j >= k /\ ones(j) THEN 0 ELSE s[j]]
        BY Zenon DEF Increment
      <4>2. DOMAIN s = Bits /\ \A j \in Bits : s[j] \in Int
        BY <3>5 DEF Rows
      <4> HIDE DEF zeroes, ones
      <4> QED BY <4>1, <4>2 DEF Rows
    <3>7. y + w <= 15 \/ y + w > 15
      OBVIOUS
    <3>8. g \in Marked
      <4>1. \E m \in Rows, st \in BOOLEAN : g = [r |-> m, stop |-> st]
        BY <3>3, <3>4, <3>5, <3>6, <3>7, Zenon
      <4> QED BY <4>1 DEF Marked
    <3> QED BY <2>2, <3>8
  <2> QED BY <2>4, <2>5
<1> QED BY <1>1 DEF GatherStay

\* what holds after b turns of the inner loop at place i
Inner(s, i, b, a) ==
  /\ InGathering(s.r, i, a)
  /\ s.stop \/ \A j \in i + 1 .. N - 1 : j <= i + b => s.r[j] = 0

\* A turn of the inner loop.
LEMMA GatherTurn ==
  ASSUME NEW a \in Nat, a < 2^(N - 1), NEW i \in Bits, NEW b \in 1 .. 6, NEW t \in Marked,
         Inner(t, i, b - 1, a)
  PROVE  Inner(Gather(i, t, b), i, b, a)
<1>0. PICK r \in Rows, stop \in BOOLEAN : r = t.r /\ stop = t.stop
  BY DEF Marked
<1>1. PICK u : Gathering(u, r, i, a)
  BY <1>0 DEF Inner, InGathering
<1>r. InGathering(r, i, a)
  BY <1>0 DEF Inner
<1>2. stop \/ \A j \in i + 1 .. N - 1 : j <= i + (b - 1) => r[j] = 0
  BY <1>0 DEF Inner
<1>3. PICK k \in Nat : k = i + b
  BY BitFacts
<1>4. PICK g : g = Gather(i, t, b)
  OBVIOUS
<1>5. N \in Nat /\ i \in 0 .. N - 1
  BY BitFacts DEF Bits
<1>6. CASE stop \/ k >= N
  <2>1. g = t
    BY <1>0, <1>3, <1>4, <1>6, Zenon DEF Gather
  <2>2. stop \/ \A j \in i + 1 .. N - 1 : j <= i + b => r[j] = 0
    <3>1. SUFFICES ASSUME ~ stop, NEW j \in i + 1 .. N - 1, j <= i + b PROVE r[j] = 0
      OBVIOUS
    <3>2. j <= i + (b - 1)
      BY <1>3, <1>5, <1>6, <3>1
    <3> QED BY <1>2, <3>1, <3>2
  <2>3. g.r = r /\ g.stop = stop
    BY <1>0, <2>1
  <2>4. Inner(g, i, b, a)
    BY <1>r, <2>2, <2>3, Zenon DEF Inner
  <2> QED BY <1>4, <2>4
<1>7. CASE ~ (stop \/ k >= N)
  <2>1. k \in Bits /\ ~ stop /\ k < N /\ k \in i + 1 .. N - 1 /\ k # i
    BY <1>3, <1>5, <1>7 DEF Bits
  <2>2. PICK p \in {2, 4, 8, 16, 32, 64} : p = 2^b /\ 2^k = 2^i * p
    <3>1. 2^(i + b) = 2^i * 2^b
      BY <1>5, Num!PowerOfTwo
    <3> QED BY <1>3, <3>1, WindowBits
  <2>3. PICK y \in -15 .. 15 : y = r[i]
    BY <1>1 DEF Gathering
  <2>4. PICK d \in {0, 1} : d = r[k]
    BY <1>1, <2>1 DEF Gathering, Unread
  <2>5. PICK w \in {0, p} : w = d * p /\ (d = 0 <=> w = 0) /\ (d = 1 <=> w = p)
    <3>1. CASE d = 0
      <4>1. d * p = 0 /\ p # 0
        BY <3>1
      <4> QED BY <3>1, <4>1
    <3>2. CASE d = 1
      <4>1. d * p = p /\ p # 0
        BY <3>2
      <4> QED BY <3>2, <4>1
    <3> QED BY <3>1, <3>2
  <2>6. /\ y + w <= 15 => g = [r |-> More(r, i, k, w), stop |-> FALSE]
        /\ y + w > 15 /\ y - w >= -15 => g = [r |-> Less(r, i, k, w), stop |-> FALSE]
        /\ y + w > 15 /\ ~ (y - w >= -15) => g = [r |-> r, stop |-> TRUE]
    <3>1. Turned(g, t, i, k, t.r[k] * 2^b)
      BY <1>3, <1>4, GatherCases
    <3>2. Turned(g, t, i, k, w)
      BY <1>0, <2>2, <2>4, <2>5, <3>1, Zenon
    <3> QED BY <1>0, <2>1, <2>3, <3>2, Zenon DEF Turned
  <2>7. \A j \in i + 1 .. k - 1 : r[j] = 0
    <3> TAKE j \in i + 1 .. k - 1
    <3>1. j \in i + 1 .. N - 1 /\ j <= i + (b - 1)
      BY <1>3, <1>5, <2>1
    <3> QED BY <1>2, <2>1, <3>1
  <2>8. \A j \in i + 1 .. N - 1 : j <= i + b <=> j \in i + 1 .. k - 1 \/ j = k
    BY <1>3, <1>5
  <2>9. CASE d = 0
    <3>1. y + w <= 15 /\ y + w = y
      BY <2>5, <2>9
    <3>2. g = [r |-> More(r, i, k, w), stop |-> FALSE]
      BY <2>6, <3>1
    <3>3. More(r, i, k, w) = r
      <4>1. More(r, i, k, w) = [r EXCEPT ![i] = y, ![k] = 0]
        BY <2>3, <3>1 DEF More
      <4> QED BY <2>1, <2>3, <2>4, <2>9, <4>1 DEF Rows
    <3>4. g.r = r /\ g.stop = FALSE
      BY <3>2, <3>3
    <3>5. \A j \in i + 1 .. N - 1 : j <= i + b => r[j] = 0
      BY <2>4, <2>7, <2>8, <2>9
    <3>6. Inner(g, i, b, a)
      BY <1>r, <3>4, <3>5, Zenon DEF Inner
    <3> QED BY <1>4, <3>6
  <2>10. ASSUME NEW q, Taken(q, i, k, a), g = [r |-> q, stop |-> FALSE]
         PROVE  Inner(g, i, b, a)
    <3>1. InGathering(q, i, a) /\ \A j \in i + 1 .. k : q[j] = 0
      BY <2>10 DEF Taken
    <3>2. \A j \in i + 1 .. N - 1 : j <= i + b => q[j] = 0
      BY <1>3, <1>5, <3>1
    <3>3. g.r = q /\ g.stop = FALSE
      BY <2>10
    <3> QED BY <3>1, <3>2, <3>3, Zenon DEF Inner
  <2>11. CASE d = 1 /\ y + p <= 15
    <3>1. r[k] = 1 /\ r[i] + p <= 15
      BY <2>3, <2>4, <2>11
    <3>2. Taken(More(r, i, k, p), i, k, a)
      BY <1>1, <2>1, <2>2, <2>7, <3>1, GatherAdds
    <3>3. g = [r |-> More(r, i, k, p), stop |-> FALSE]
      BY <2>5, <2>6, <2>11, Zenon
    <3> QED BY <1>4, <2>10, <3>2, <3>3
  <2>13. CASE d = 1 /\ y + p > 15 /\ y - p >= -15
    <3>1. r[k] = 1 /\ r[i] + p > 15 /\ r[i] - p >= -15
      BY <2>3, <2>4, <2>13
    <3>2. Taken(Less(r, i, k, p), i, k, a)
      BY <1>1, <2>1, <2>2, <2>7, <3>1, GatherSubtracts
    <3>3. g = [r |-> Less(r, i, k, p), stop |-> FALSE]
      BY <2>5, <2>6, <2>13, Zenon
    <3> QED BY <1>4, <2>10, <3>2, <3>3
  <2>12. CASE d = 1 /\ y + p > 15 /\ ~ (y - p >= -15)
    <3>1. g = [r |-> r, stop |-> TRUE]
      BY <2>5, <2>6, <2>12, Zenon
    <3>2. g.r = r /\ g.stop = TRUE
      BY <3>1
    <3>3. Inner(g, i, b, a)
      BY <1>r, <3>2, Zenon DEF Inner
    <3> QED BY <1>4, <3>3
  <2> QED BY <2>9, <2>11, <2>12, <2>13
<1> QED BY <1>6, <1>7

\* the digits before the turn at place i
Outer(r, i, a) ==
  \E u : Sum(u, r, a) /\ Unread(u, r, i, a) /\ \A j \in 0 .. i - 1 : Settled(r[j])

\* A turn of the outer loop is its inner loop, unless the digit is zero.
LEMMA GatheredFolds ==
  ASSUME NEW i \in Bits, NEW r \in Rows, r[i] # 0
  PROVE  \E s : /\ GatherSteps(s, Marked, [r |-> r, stop |-> FALSE], 6, i)
                /\ Gathered(r, i) = s[6].r
<1>1. PICK t \in Marked : t = [r |-> r, stop |-> FALSE]
  <2>1. [r |-> r, stop |-> FALSE] \in Marked
    BY DEF Marked
  <2> QED BY <2>1
<1>2. GatherStay(Marked, 6, i)
  BY GatherType
<1>3. PICK s : GatherSteps(s, Marked, t, 6, i) /\ Gathers(t, 6, i) = s[6]
  <2>1. 6 \in Nat
    OBVIOUS
  <2> QED BY <1>1, <1>2, <2>1, GatherFold, Zenon
<1>4. Gathered(r, i) = Gathers(t, 6, i).r
  BY <1>1, Zenon DEF Gathered, Gathers
<1> QED BY <1>1, <1>3, <1>4, Zenon

\* Turns of the outer loop keep rows rows.
LEMMA GatheredType ==
  ASSUME NEW i \in Bits, NEW r \in Rows
  PROVE  Gathered(r, i) \in Rows
<1>1. CASE r[i] = 0
  BY <1>1, Zenon DEF Gathered
<1>2. CASE r[i] # 0
  <2>1. PICK s : /\ GatherSteps(s, Marked, [r |-> r, stop |-> FALSE], 6, i)
                 /\ Gathered(r, i) = s[6].r
    BY <1>2, GatheredFolds
  <2>2. s \in [0 .. 6 -> Marked]
    BY <2>1, Zenon DEF GatherSteps
  <2>3. s[6] \in Marked
    BY <2>2
  <2> QED BY <2>1, <2>3 DEF Marked
<1> QED BY <1>1, <1>2

\* A turn of the outer loop leaves one more digit settled.
LEMMA GatheredKeeps ==
  ASSUME NEW a \in Nat, a < 2^(N - 1), NEW i \in Bits, NEW r \in Rows, Outer(r, i, a)
  PROVE  Outer(Gathered(r, i), i + 1, a)
<1>0. N \in Nat \ {0} /\ i \in Nat /\ i \in i .. N - 1 /\ \A j \in i + 1 .. N - 1 : j \in i .. N - 1
  BY BitFacts DEF Bits
<1>1. PICK u : Sum(u, r, a) /\ Unread(u, r, i, a) /\ \A j \in 0 .. i - 1 : Settled(r[j])
  BY DEF Outer
<1>2. /\ Unread(u, r, i + 1, a) /\ r[i] \in {0, 1} /\ (r[i] # 0 => u[i] <= a + 2^i)
  BY <1>0, <1>1 DEF Unread
<1>3. \A j \in 0 .. (i + 1) - 1 : j = i \/ j \in 0 .. i - 1
  BY <1>0
<1>4. CASE r[i] = 0
  <2>1. Gathered(r, i) = r
    BY <1>4, Zenon DEF Gathered
  <2>2. Settled(r[i])
    BY <1>4 DEF Settled
  <2>3. \A j \in 0 .. (i + 1) - 1 : Settled(r[j])
    BY <1>1, <1>3, <2>2
  <2>4. Outer(r, i + 1, a)
    BY <1>1, <1>2, <2>3 DEF Outer
  <2> QED BY <2>1, <2>4
<1>5. CASE r[i] # 0
  <2>1. PICK s : /\ GatherSteps(s, Marked, [r |-> r, stop |-> FALSE], 6, i)
                 /\ Gathered(r, i) = s[6].r
    BY <1>5, GatheredFolds
  <2>2. /\ s \in [0 .. 6 -> Marked] /\ s[0] = [r |-> r, stop |-> FALSE]
        /\ \A b \in 1 .. 6 : s[b] = Gather(i, s[b - 1], b)
    BY <2>1, Zenon DEF GatherSteps
  <2>3. Inner(s[0], i, 0, a)
    <3>1. r[i] = 1 /\ r[i] % 2 = 1 /\ r[i] \in -15 .. 15 /\ u[i] <= a + 2^i
      BY <1>2, <1>5
    <3>2. InGathering(r, i, a)
      BY <1>1, <1>2, <3>1 DEF InGathering, Gathering
    <3>3. \A j \in i + 1 .. N - 1 : ~ (j <= i + 0)
      BY <1>0
    <3>4. s[0].r = r
      BY <2>2
    <3> QED BY <3>2, <3>3, <3>4, Zenon DEF Inner
  <2> DEFINE S == {b \in 0 .. 6 : Inner(s[b], i, b, a)}
  <2>4. 0 \in S
    BY <2>3
  <2>5. ASSUME NEW b \in 0 .. 6 - 1, b \in S PROVE b + 1 \in S
    <3>1. PICK c \in 1 .. 6 : c = b + 1 /\ c - 1 = b /\ c \in 0 .. 6
      OBVIOUS
    <3>2. s[b] \in Marked /\ Inner(s[b], i, c - 1, a)
      BY <2>2, <2>5, <3>1
    <3>3. Inner(Gather(i, s[b], c), i, c, a)
      BY <3>2, GatherTurn
    <3>4. s[c] = Gather(i, s[b], c)
      BY <2>2, <3>1
    <3> QED BY <3>1, <3>3, <3>4
  <2>6. 0 .. 6 \subseteq S
    <3>1. 6 \in Nat
      OBVIOUS
    <3> HIDE DEF S
    <3> QED BY <2>4, <2>5, <3>1, Num!UpTo
  <2>7. Inner(s[6], i, 6, a)
    <3>1. 6 \in 0 .. 6
      OBVIOUS
    <3> QED BY <2>6, <3>1
  <2>8. PICK q : q = s[6].r
    OBVIOUS
  <2>9. PICK v : Gathering(v, q, i, a)
    BY <2>7, <2>8 DEF Inner, InGathering
  <2>10. /\ Sum(v, q, a) /\ Unread(v, q, i + 1, a) /\ \A j \in 0 .. i - 1 : Settled(q[j])
         /\ q[i] % 2 = 1 /\ q[i] \in -15 .. 15
    BY <2>9, Zenon DEF Gathering
  <2>11. Settled(q[i])
    BY <2>10, Zenon DEF Settled
  <2>12. \A j \in 0 .. (i + 1) - 1 : Settled(q[j])
    BY <1>3, <2>10, <2>11
  <2>13. Outer(q, i + 1, a)
    BY <2>10, <2>12 DEF Outer
  <2> QED BY <2>1, <2>8, <2>13
<1> QED BY <1>4, <1>5

\* The bits of a scalar, before the first turn.
LEMMA BitsFirst ==
  ASSUME NEW a \in Nat, a < 2^(N - 1)
  PROVE  Outer([i \in 0 .. N - 1 |-> Bit(a, i)], 0, a) /\ [i \in 0 .. N - 1 |-> Bit(a, i)] \in Rows
<1> DEFINE e == Cut(a, N, 1)
           q == [k \in 0 .. N |-> a \div 2^(1 * k)]
           u == [k \in 0 .. N |-> q[k] * 2^(1 * k)]
<1>0. N \in Nat \ {0} /\ 2^1 = 2 /\ 1 \in Nat /\ 1 * N = N
  BY BitFacts, Num!PowerOfTwo
<1>1. a < 2^(1 * N)
  <2>1. N - 1 \in Nat /\ (N - 1) + 1 = N
    BY <1>0
  <2>2. PICK p \in Nat : p = 2^(N - 1) /\ 2^N = 2 * p
    <3>1. 2^((N - 1) + 1) = 2 * 2^(N - 1) /\ 2^(N - 1) \in Nat
      BY <2>1, BitFacts, Num!PowerOfTwo
    <3> QED BY <2>1, <3>1
  <2> QED BY <1>0, <2>2
<1>2. Horner(q, e, N, 1, a) /\ \A k \in 0 .. N - 1 : e[k] \in {0, 1}
  <2>1. Horner(q, e, N, 1, a) /\ \A k \in 0 .. N - 1 : e[k] \in 0 .. 2^1 - 1
    BY <1>0, <1>1, CutShows
  <2>2. 0 .. 2^1 - 1 = {0, 1}
    BY <1>0
  <2> HIDE DEF e, q
  <2> QED BY <2>1, <2>2
<1>3. [i \in 0 .. N - 1 |-> Bit(a, i)] = e
  <2>1. ASSUME NEW i \in 0 .. N - 1 PROVE Bit(a, i) = (a \div 2^(1 * i)) % 2^1
    <3>1. 1 * i = i
      BY <1>0
    <3> QED BY <1>0, <3>1, Zenon DEF Bit
  <2> QED BY <2>1, Zenon DEF Cut
<1>4. e \in Rows
  <2>1. e = [i \in 0 .. N - 1 |-> e[i]]
    BY Zenon DEF Cut
  <2> HIDE DEF e
  <2> QED BY <1>2, <2>1 DEF Rows, Bits
<1>5. Remains(u, e, N, 1, a)
  <2>1. \A k \in 0 .. N - 1 : e[k] \in Int
    BY <1>2
  <2>2. a \in Int
    OBVIOUS
  <2> HIDE DEF e, q
  <2> QED BY <1>0, <1>2, <2>1, <2>2, HornerRemains
<1> HIDE DEF e, q, u
<1>6. Sum(u, e, a)
  <2>1. /\ u \in [0 .. N -> Int] /\ u[0] = a /\ u[N] = 0
        /\ \A k \in 0 .. N - 1 : u[k] = e[k] * 2^(1 * k) + u[k + 1]
    BY <1>5 DEF Remains
  <2>2. \A j \in Bits : u[j] = e[j] * 2^j + u[j + 1]
    <3> TAKE j \in Bits
    <3>1. j \in 0 .. N - 1 /\ 2^(1 * j) = 2^j
      BY BitFacts DEF Bits
    <3> QED BY <2>1, <3>1, Zenon
  <2> QED BY <2>1, <2>2 DEF Sum
<1>7. \A j \in 0 .. N : u[j] <= u[0]
  <2>1. 0 \in 0 .. N
    BY <1>0
  <2> QED BY <1>2, <1>4, <1>6, <2>1, SumFalls
<1>8. Unread(u, e, 0, a)
  <2>1. ASSUME NEW j \in 0 .. N - 1 PROVE u[j] <= a + 2^j
    <3>1. PICK y \in Int, p \in Nat : y = u[j] /\ p = 2^j
      <4>1. j \in 0 .. N /\ j \in Bits
        BY <1>0 DEF Bits
      <4> QED BY <1>6, <4>1, BitFacts DEF Sum
    <3>2. y <= a
      <4>1. j \in 0 .. N
        BY <1>0
      <4> QED BY <1>6, <1>7, <3>1, <4>1 DEF Sum
    <3> QED BY <3>1, <3>2
  <2> QED BY <1>2, <2>1 DEF Unread
<1>9. \A j \in 0 .. 0 - 1 : Settled(e[j])
  OBVIOUS
<1>10. Outer(e, 0, a)
  BY <1>6, <1>8, <1>9 DEF Outer
<1> QED BY <1>3, <1>4, <1>10

\* The digits of slide add up to the scalar; they are odd and within 15, or zero.
LEMMA SlideRight ==
  ASSUME NEW a \in Nat, Below(a, N - 1)
  PROVE  Denotes(slide(a), N, 1, a) /\ \A i \in 0 .. N - 1 : Settled(slide(a)[i])
<1>0. N \in Nat \ {0} /\ a < 2^(N - 1)
  BY BitFacts DEF Below
<1>1. PICK x \in Rows : x = [i \in 0 .. N - 1 |-> Bit(a, i)] /\ Outer(x, 0, a)
  BY <1>0, BitsFirst
<1>2. SlideStay(Rows, N)
  <2>1. \A k \in 1 .. N : k - 1 \in Bits
    BY <1>0 DEF Bits
  <2> QED BY <2>1, GatheredType DEF SlideStay
<1>3. PICK s : SlideSteps(s, Rows, x, N) /\ FoldLeft(Gathered, x, Rising(N)) = s[N]
  BY <1>0, <1>2, SlideFold, Zenon
<1>4. slide(a) = s[N]
  <2>1. [i \in 1 .. N |-> i - 1] = Rising(N)
    BY DEF Rising
  <2> QED BY <1>1, <1>3, <2>1, Zenon DEF slide
<1>5. /\ s \in [0 .. N -> Rows] /\ s[0] = x
      /\ \A k \in 1 .. N : s[k] = Gathered(s[k - 1], k - 1)
  BY <1>3 DEF SlideSteps
<1> DEFINE S == {k \in 0 .. N : Outer(s[k], k, a)}
<1>6. 0 \in S
  BY <1>0, <1>1, <1>5
<1>7. ASSUME NEW k \in 0 .. N - 1, k \in S PROVE k + 1 \in S
  <2>1. k + 1 \in 1 .. N /\ k + 1 \in 0 .. N /\ (k + 1) - 1 = k /\ k \in Bits /\ k \in 0 .. N
    BY <1>0 DEF Bits
  <2>2. s[k] \in Rows /\ s[k + 1] = Gathered(s[k], k)
    BY <1>5, <2>1
  <2>3. Outer(Gathered(s[k], k), k + 1, a)
    BY <1>0, <1>7, <2>1, <2>2, GatheredKeeps
  <2> QED BY <2>1, <2>2, <2>3
<1>8. 0 .. N \subseteq S
  <2> HIDE DEF S
  <2> QED BY <1>0, <1>6, <1>7, Num!UpTo
<1>9. PICK r \in Rows : r = s[N] /\ Outer(r, N, a)
  <2>1. N \in 0 .. N
    BY <1>0
  <2> QED BY <1>5, <1>8, <2>1
<1>10. PICK u : Sum(u, r, a) /\ \A j \in 0 .. N - 1 : Settled(r[j])
  BY <1>9 DEF Outer
<1>11. Remains(u, r, N, 1, a)
  <2>1. \A k \in 0 .. N - 1 : k \in Bits /\ 2^(1 * k) = 2^k
    BY BitFacts DEF Bits
  <2>2. \A k \in 0 .. N - 1 : u[k] = r[k] * 2^(1 * k) + u[k + 1]
    BY <1>10, <2>1, Zenon DEF Sum
  <2> QED BY <1>10, <2>2 DEF Sum, Remains
<1>12. Denotes(r, N, 1, a)
  <2>1. \A k \in 0 .. N - 1 : r[k] \in Int
    BY DEF Rows, Bits
  <2>2. N \in Nat /\ 1 \in Nat /\ a \in Int
    BY <1>0
  <2> QED BY <1>11, <2>1, <2>2, RemainsDenote
<1> QED BY <1>4, <1>9, <1>10, <1>12

\* Half of the bits two at a time: n digits of a number of 2 * n bits.
LEMMA PairsShow ==
  ASSUME NEW n \in Nat, n = N \div 2 - 1, NEW a \in Nat, Below(a, 2 * (N \div 2) - 2)
  PROVE  /\ Denotes(Cut(a, n, 2), n, 2, a)
         /\ \A i \in 0 .. n - 1 : /\ Cut(a, n, 2)[i] = Cut(a, N \div 2, 2)[i]
                                  /\ Cut(a, n, 2)[i] \in 0 .. 3
<1>0. n + 1 = N \div 2 /\ 2 * (N \div 2) - 2 = 2 * n /\ N \in Nat
  <2>1. N \in Nat /\ N \div 2 \in Int
    BY WidthAssumption
  <2> QED BY <2>1
<1> DEFINE q == [k \in 0 .. n |-> a \div 2^(2 * k)]
           e == Cut(a, n, 2)
<1>1. Horner(q, e, n, 2, a) /\ \A k \in 0 .. n - 1 : e[k] \in 0 .. 2^2 - 1
  <2>1. a < 2^(2 * n) /\ 2 \in Nat
    BY <1>0 DEF Below
  <2> QED BY <2>1, CutShows
<1>2. \A k \in 0 .. n - 1 : e[k] \in 0 .. 3 /\ e[k] \in Int
  <2>1. 2^2 - 1 = 3
    BY SmallPowers
  <2> HIDE DEF e, q
  <2> QED BY <1>1, <2>1
<1>3. Denotes(e, n, 2, a)
  <2>1. 2 \in Nat /\ a \in Int
    OBVIOUS
  <2> HIDE DEF e, q
  <2> QED BY <1>1, <1>2, <2>1, HornerDenotes
<1>4. ASSUME NEW i \in 0 .. n - 1 PROVE e[i] = Cut(a, N \div 2, 2)[i]
  <2>1. i \in 0 .. N \div 2 - 1
    BY <1>0
  <2> QED BY <2>1, Zenon DEF Cut
<1> QED BY <1>2, <1>3, <1>4

\* Two scalars in one digit of two bits of each.
LEMMA InterleaveRight ==
  ASSUME NEW n \in Nat, n = N \div 2 - 1, NEW a \in Nat, NEW b \in Nat,
         Below(a, 2 * (N \div 2) - 2), Below(b, 2 * (N \div 2) - 2)
  PROVE  LET e == sc25519_2interleave2(a, b)
         IN  /\ Denotes([i \in 0 .. n - 1 |-> e[i] % 4], n, 2, a)
             /\ Denotes([i \in 0 .. n - 1 |-> e[i] \div 4], n, 2, b)
<1> DEFINE e == sc25519_2interleave2(a, b)
           x == Cut(a, n, 2)
           y == Cut(b, n, 2)
<1>1. /\ Denotes(x, n, 2, a) /\ Denotes(y, n, 2, b)
      /\ \A i \in 0 .. n - 1 : /\ x[i] \in 0 .. 3 /\ x[i] = Cut(a, N \div 2, 2)[i]
                               /\ y[i] \in 0 .. 3 /\ y[i] = Cut(b, N \div 2, 2)[i]
  BY PairsShow, Zenon
<1>2. N \div 2 - 2 = n - 1
  <2>1. N \in Nat /\ N \div 2 \in Int
    BY WidthAssumption
  <2> QED BY <2>1
<1>3. x = [i \in 0 .. n - 1 |-> x[i]] /\ y = [i \in 0 .. n - 1 |-> y[i]]
  BY Zenon DEF Cut
<1>4. ASSUME NEW i \in 0 .. n - 1 PROVE e[i] % 4 = x[i] /\ e[i] \div 4 = y[i]
  <2>1. PICK c \in 0 .. 3, d \in 0 .. 3 : c = x[i] /\ d = y[i]
    BY <1>1
  <2>2. e[i] = Cut(a, N \div 2, 2)[i] + 4 * Cut(b, N \div 2, 2)[i]
    BY <1>2, Zenon DEF sc25519_2interleave2
  <2>3. e[i] = c + 4 * d
    BY <1>1, <2>1, <2>2
  <2>4. (c + 4 * d) % 4 = c /\ (c + 4 * d) \div 4 = d
    OBVIOUS
  <2> HIDE DEF e, x, y
  <2> QED BY <2>1, <2>3, <2>4
<1> HIDE DEF e, x, y
<1>5. [i \in 0 .. n - 1 |-> e[i] % 4] = x /\ [i \in 0 .. n - 1 |-> e[i] \div 4] = y
  BY <1>3, <1>4
<1> QED BY <1>1, <1>5 DEF e

-----------------------------------------------------------------------------
\* Every recoding, for every number of bits of a scalar and all the scalars that
\* its callers can give it, adds up to the scalar and has an entry of the table
\* for each digit: slide of ge.c, the signed nibbles of ge_scalarmult_base, and
\* the windows and the interleaving of sc25519.c.
THEOREM DigitsAreRight == DigitsSpec => []SignedDigits
<1>1. DigitsInit => SignedDigits
  <2> SUFFICES ASSUME written = Nothing PROVE SignedDigits
    BY DEF DigitsInit
  <2>1. written.by = "none"
    BY DEF Nothing
  <2> QED BY <2>1 DEF SignedDigits
<1>2. SignedDigits /\ [DigitsNext]_written => SignedDigits'
  <2> SUFFICES ASSUME SignedDigits, [DigitsNext]_written PROVE SignedDigits'
    OBVIOUS
  <2>0. /\ \A a \in Multipliers : a \in Nat
        /\ \A p \in Couples : p[1] \in Nat /\ p[2] \in Nat
    BY ScalarAssumption
  <2>1. ASSUME NEW a \in Multipliers, Slide(a) PROVE SignedDigits'
    <3>1. Below(a, N - 1) /\ written' = [by |-> "slide", of |-> <<a, 0>>, digits |-> slide(a)]
      BY <2>1 DEF Slide, Recoded
    <3>2. Denotes(slide(a), N, 1, a) /\ \A i \in 0 .. N - 1 : Settled(slide(a)[i])
      BY <2>0, <3>1, SlideRight
    <3>3. PICK e : e = slide(a)
      OBVIOUS
    <3>4. written'.by = "slide" /\ written'.digits = e /\ written'.of[1] = a
      BY <3>1, <3>3
    <3> QED BY <3>2, <3>3, <3>4 DEF SignedDigits, Settled
  <2>2. ASSUME NEW a \in Multipliers, SignedNibbles(a) PROVE SignedDigits'
    <3>1. /\ Below(a, 4 * Nibbles - 1)
          /\ written' = [by |-> "nibbles", of |-> <<a, 0>>, digits |-> signed_nibbles(a)]
      BY <2>2 DEF SignedNibbles, Recoded
    <3>2. /\ Denotes(signed_nibbles(a), Nibbles, 4, a)
          /\ \A i \in 0 .. Nibbles - 1 : signed_nibbles(a)[i] \in -8 .. 8
      BY <2>0, <3>1, NibblesRight
    <3>3. PICK e : e = signed_nibbles(a)
      OBVIOUS
    <3>4. written'.by = "nibbles" /\ written'.digits = e /\ written'.of[1] = a
      BY <3>1, <3>3
    <3> QED BY <3>2, <3>3, <3>4 DEF SignedDigits
  <2>3. ASSUME NEW a \in Multipliers, Window3(a) PROVE SignedDigits'
    <3>1. PICK n \in Nat \ {0} : n = N \div 3
      BY WidthAssumption
    <3>2. /\ Below(a, 3 * n - 2)
          /\ written' = [by |-> "window3", of |-> <<a, 0>>, digits |-> Window(Cut(a, n, 3), n, 3)]
      BY <2>3, <3>1 DEF Window3, Recoded, sc25519_window3
    <3>3. PICK e : e = Window(Cut(a, n, 3), n, 3)
      OBVIOUS
    <3>4. Denotes(e, n, 3, a) /\ InTable(e, n, 3)
      BY <2>0, <3>2, <3>3, WindowsRight
    <3>5. written'.by = "window3" /\ written'.digits = e /\ written'.of[1] = a
      BY <3>2, <3>3
    <3> QED BY <3>1, <3>4, <3>5 DEF SignedDigits
  <2>4. ASSUME NEW a \in Multipliers, Window5(a) PROVE SignedDigits'
    <3>1. PICK n \in Nat \ {0} : n = N \div 5
      BY WidthAssumption
    <3>2. /\ Below(a, 5 * n - 2)
          /\ written' = [by |-> "window5", of |-> <<a, 0>>, digits |-> Window(Cut(a, n, 5), n, 5)]
      BY <2>4, <3>1 DEF Window5, Recoded, sc25519_window5
    <3>3. PICK e : e = Window(Cut(a, n, 5), n, 5)
      OBVIOUS
    <3>4. Denotes(e, n, 5, a) /\ InTable(e, n, 5)
      BY <2>0, <3>2, <3>3, WindowsRight
    <3>5. written'.by = "window5" /\ written'.digits = e /\ written'.of[1] = a
      BY <3>2, <3>3
    <3> QED BY <3>1, <3>4, <3>5 DEF SignedDigits
  <2>5. ASSUME NEW p \in Couples, Interleave2(p[1], p[2]) PROVE SignedDigits'
    <3>1. PICK a \in Nat, b \in Nat : a = p[1] /\ b = p[2]
      BY <2>0
    <3>2. PICK n \in Nat : n = N \div 2 - 1
      BY WidthAssumption
    <3>3. PICK e : e = sc25519_2interleave2(a, b)
      OBVIOUS
    <3>4. /\ Below(a, 2 * (N \div 2) - 2) /\ Below(b, 2 * (N \div 2) - 2)
          /\ written' = [by |-> "interleave", of |-> <<a, b>>, digits |-> e]
      BY <2>5, <3>1, <3>3 DEF Interleave2, Recoded
    <3>5. /\ Denotes([i \in 0 .. n - 1 |-> e[i] % 4], n, 2, a)
          /\ Denotes([i \in 0 .. n - 1 |-> e[i] \div 4], n, 2, b)
      BY <3>2, <3>3, <3>4, InterleaveRight
    <3>6. written'.by = "interleave" /\ written'.digits = e /\ written'.of[1] = a /\ written'.of[2] = b
      BY <3>4
    <3> QED BY <3>2, <3>5, <3>6 DEF SignedDigits
  <2>6. CASE Drop
    <3>1. written'.by = "none"
      BY <2>6 DEF Drop, Nothing
    <3> QED BY <3>1 DEF SignedDigits
  <2>7. CASE UNCHANGED written
    BY <2>7 DEF SignedDigits
  <2> QED BY <2>1, <2>2, <2>3, <2>4, <2>5, <2>6, <2>7 DEF DigitsNext
<1>3. QED
  BY <1>1, <1>2, PTL DEF DigitsSpec
=============================================================================
