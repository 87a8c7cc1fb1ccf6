---------------------------- MODULE MemMgrProofs ----------------------------
(***************************************************************************)
(* Proofs about MemMgr.  The list lemmas speak of one successor function,  *)
(* the block lemmas of one tiling of the pool; HeapOK puts them together,  *)
(* and IInv says it of the variables.                                      *)
(***************************************************************************)
EXTENDS MemMgr, NumberTheorems

-----------------------------------------------------------------------------
(* Circular sorted lists. *)

\* In a sorted circular list a node is the successor of one node only.
LEMMA OnePredecessor ==
  ASSUME NEW next, DOMAIN next \subseteq Int, Cyclic(next),
         NEW p \in DOMAIN next, NEW r \in DOMAIN next, next[p] = next[r]
  PROVE  p = r
BY DEF Cyclic, Follows

\* The search loop of memmgr_free has one place to stop.
LEMMA OneInsertPoint ==
  ASSUME NEW h, Nodes(h) \subseteq Int, Cyclic(h.next),
         NEW b \in Int \ Nodes(h),
         NEW p \in Nodes(h), Between(h, b, p),
         NEW r \in Nodes(h), Between(h, b, r)
  PROVE  p = r
BY DEF Cyclic, Follows, Between, Nodes

\* Taking a successor off the list leaves a sorted circular list.
LEMMA UnlinkCyclic ==
  ASSUME NEW next, DOMAIN next \subseteq Int, Cyclic(next),
         NEW p \in DOMAIN next, next[p] # p
  PROVE  Cyclic(Unlink(next, p))
<1> DEFINE q == next[p]
           u == Unlink(next, p)
<1>1. /\ DOMAIN u = DOMAIN next \ {q}
      /\ q \in DOMAIN next /\ p \in DOMAIN u /\ next[q] \in DOMAIN next
      /\ \A x \in DOMAIN u : u[x] = IF x = p THEN next[q] ELSE next[x]
  BY DEF Unlink, Cyclic
<1>2. ASSUME NEW x \in DOMAIN u
      PROVE  u[x] \in DOMAIN u /\ Follows(DOMAIN u, x, u[x])
  <2>1. CASE x = p
    <3>1. next[q] # q
      BY <1>1 DEF Cyclic, Follows
    <3>2. Follows(DOMAIN next, p, q) /\ Follows(DOMAIN next, q, next[q])
      BY <1>1 DEF Cyclic
    <3>3. Follows(DOMAIN u, p, next[q])
      BY <1>1, <3>1, <3>2 DEF Follows
    <3> QED BY <1>1, <2>1, <3>1, <3>3
  <2>2. CASE x # p
    <3>1. next[x] # q
      BY <1>1, <2>2, OnePredecessor
    <3>2. next[x] \in DOMAIN next /\ Follows(DOMAIN next, x, next[x])
      BY <1>1 DEF Cyclic
    <3> QED BY <1>1, <2>2, <3>1, <3>2 DEF Follows
  <2> QED BY <2>1, <2>2
<1> QED BY <1>2 DEF Cyclic

\* Putting a block where the search loop stopped leaves a sorted circular list.
LEMMA LinkCyclic ==
  ASSUME NEW h, Nodes(h) \subseteq Int, Cyclic(h.next),
         NEW b \in Int \ Nodes(h), NEW p \in Nodes(h), Between(h, b, p)
  PROVE  Cyclic(Link(h.next, b, p))
<1> DEFINE q == h.next[p]
           u == Link(h.next, b, p)
<1>1. /\ DOMAIN u = Nodes(h) \cup {b}
      /\ q \in Nodes(h) /\ Follows(Nodes(h), p, q)
      /\ u[p] = b /\ u[b] = q
      /\ \A x \in Nodes(h) \ {p} : u[x] = h.next[x]
  BY DEF Link, Cyclic, Nodes
<1>2. \/ p < b /\ b < q
      \/ q <= p /\ (b > p \/ b < q)
  BY <1>1 DEF Between
<1>3. Follows(DOMAIN u, p, b)
  BY <1>1, <1>2 DEF Follows
<1>4. Follows(DOMAIN u, b, q)
  BY <1>1, <1>2 DEF Follows
<1>5. ASSUME NEW x \in Nodes(h), x # p
      PROVE  u[x] \in DOMAIN u /\ Follows(DOMAIN u, x, u[x])
  <2>1. /\ u[x] = h.next[x] /\ h.next[x] \in Nodes(h)
        /\ Follows(Nodes(h), x, h.next[x])
    BY <1>1, <1>5 DEF Cyclic, Nodes
  <2> QED BY <1>1, <1>2, <1>5, <2>1 DEF Follows
<1> HIDE DEF u, q
<1> QED BY <1>1, <1>3, <1>4, <1>5 DEF Cyclic, u

-----------------------------------------------------------------------------
(* Tilings of the pool. *)

\* A block that swallows the block it ends at leaves the tiling a tiling.
LEMMA MergeTiling ==
  ASSUME NEW size, NEW B, NEW top \in Nat, B \subseteq Int, B \subseteq DOMAIN size,
         \A x \in B : size[x] \in Nat,
         NoOverlap(size, B, top), NoGap(size, B, top),
         NEW p \in B, NEW q \in B, p + size[p] = q
  PROVE  /\ NoOverlap(Absorb(size, p, q), B \ {q}, top)
         /\ NoGap(Absorb(size, p, q), B \ {q}, top)
<1> DEFINE size2 == Absorb(size, p, q)
<1>0. \A x \in B \ {q} : size2[x] = IF x = p THEN size[p] + size[q] ELSE size[x]
  BY DEF Absorb
<1> HIDE DEF size2
<1>1. size[p] > 0 /\ size[q] > 0 /\ p # q /\ q + size[q] <= top
  BY <1>0 DEF NoOverlap
<1>2. NoOverlap(size2, B \ {q}, top)
  <2>1. ASSUME NEW b \in B \ {q}
        PROVE  0 <= b /\ size2[b] > 0 /\ b + size2[b] <= top
    BY <1>0, <1>1 DEF NoOverlap
  <2>2. ASSUME NEW a \in B \ {q}, NEW b \in B \ {q}, a < b
        PROVE  a + size2[a] <= b
    <3>1. CASE a = p
      <4>1. q <= b
        BY <1>0, <2>2, <3>1 DEF NoOverlap
      <4> QED BY <1>0, <4>1, <2>2, <3>1, <1>1 DEF NoOverlap
    <3>2. CASE a # p
      BY <1>0, <2>2, <3>2 DEF NoOverlap
    <3> QED BY <1>0, <3>1, <3>2
  <2> QED BY <1>0, <2>1, <2>2 DEF NoOverlap
<1>3. ASSUME NEW x \in 0 .. top - 1
      PROVE  \E b \in B \ {q} : b <= x /\ x < b + size2[b]
  <2>1. PICK b \in B : b <= x /\ x < b + size[b]
    BY DEF NoGap
  <2>2. CASE b = q
    <3>1. p <= x /\ x < p + size2[p]
      BY <1>0, <1>1, <2>1, <2>2
    <3> QED BY <1>0, <1>1, <3>1
  <2>3. CASE b # q
    <3>1. b <= x /\ x < b + size2[b]
      BY <1>0, <1>1, <2>1, <2>3
    <3> QED BY <1>0, <2>3, <3>1
  <2> QED BY <1>0, <2>2, <2>3
<1> QED BY <1>0, <1>2, <1>3 DEF NoGap, size2

\* Cutting the tail off a block leaves the tiling a tiling.
LEMMA SplitTiling ==
  ASSUME NEW size, NEW B, NEW top \in Nat, B \subseteq Int, B \subseteq DOMAIN size,
         \A x \in B : size[x] \in Nat,
         NoOverlap(size, B, top), NoGap(size, B, top),
         NEW p \in B, NEW n \in Nat, 0 < n, n < size[p]
  PROVE  LET t == Tail(size, p, n)
         IN  /\ t \in Int \ B
             /\ NoOverlap(Split(size, p, n), B \cup {t}, top)
             /\ NoGap(Split(size, p, n), B \cup {t}, top)
<1> DEFINE t == Tail(size, p, n)
           size2 == Split(size, p, n)
<1>0. /\ t = p + (size[p] - n) /\ t \in Int /\ t # p
      /\ \A x \in B \cup {t} : size2[x] = IF x = t THEN n
                                         ELSE IF x = p THEN size[p] - n ELSE size[x]
  BY DEF Split, Tail, Header
<1> HIDE DEF size2, t
<1>1. t \notin B
  BY <1>0 DEF NoOverlap
<1>2. ASSUME NEW b \in B \cup {t}
      PROVE  0 <= b /\ size2[b] > 0 /\ b + size2[b] <= top
  <2>1. 0 <= p /\ p + size[p] <= top
    BY DEF NoOverlap
  <2>2. CASE b = t
    BY <1>0, <2>1, <2>2
  <2>3. CASE b # t
    BY <1>0, <1>2, <2>1, <2>3 DEF NoOverlap
  <2> QED BY <2>2, <2>3
<1>3. ASSUME NEW a \in B \cup {t}, NEW b \in B \cup {t}, a < b
      PROVE  a + size2[a] <= b
  <2>1. CASE a = t
    <3>1. b \in B /\ p < b
      BY <1>0, <1>3, <2>1
    <3>2. p + size[p] <= b
      BY <3>1 DEF NoOverlap
    <3> QED BY <1>0, <2>1, <3>2
  <2>2. CASE a # t /\ b = t
    <3>1. a \in B /\ (a # p => a < p)
      <4>1. a \in B
        BY <2>2
      <4>2. p < a => p + size[p] <= a
        BY <4>1 DEF NoOverlap
      <4> QED BY <1>0, <4>1, <4>2, <1>3, <2>2
    <3>2. a # p => a + size[a] <= p
      BY <3>1 DEF NoOverlap
    <3> QED BY <1>0, <1>1, <2>2, <3>1, <3>2
  <2>3. CASE a # t /\ b # t
    <3>1. a \in B /\ b \in B /\ a + size[a] <= b
      BY <1>3, <2>3 DEF NoOverlap
    <3> QED BY <1>0, <2>3, <3>1
  <2> QED BY <2>1, <2>2, <2>3
<1>4. ASSUME NEW x \in 0 .. top - 1
      PROVE  \E b \in B \cup {t} : b <= x /\ x < b + size2[b]
  <2>1. PICK b \in B : b <= x /\ x < b + size[b]
    BY DEF NoGap
  <2>2. CASE b = p /\ x >= t
    <3>1. t <= x /\ x < t + size2[t]
      BY <1>0, <2>1, <2>2
    <3> QED BY <3>1
  <2>3. CASE b # p \/ x < t
    <3>1. b <= x /\ x < b + size2[b]
      BY <1>0, <1>1, <2>1, <2>3
    <3> QED BY <3>1
  <2> QED BY <1>0, <1>4, <2>1, <2>2, <2>3
<1> QED BY <1>0, <1>1, <1>2, <1>3, <1>4 DEF NoOverlap, NoGap, size2, t

\* A block at the end of the tiled part makes it longer.
LEMMA GrowTiling ==
  ASSUME NEW size, NEW B, NEW top \in Nat, B \subseteq Int, B \subseteq DOMAIN size,
         \A x \in B : size[x] \in Nat,
         NoOverlap(size, B, top), NoGap(size, B, top),
         NEW m \in Nat, 0 < m
  PROVE  /\ top \notin B
         /\ NoOverlap(Header(size, top, m), B \cup {top}, top + m)
         /\ NoGap(Header(size, top, m), B \cup {top}, top + m)
<1> DEFINE size2 == Header(size, top, m)
<1>0. \A x \in B \cup {top} : size2[x] = IF x = top THEN m ELSE size[x]
  BY DEF Header
<1> HIDE DEF size2
<1>1. \A b \in B : 0 <= b /\ b < top /\ b + size[b] <= top /\ size[b] > 0
                   /\ size2[b] = size[b]
  BY <1>0 DEF NoOverlap
<1>2. size2[top] = m
  BY <1>0
<1>3. NoOverlap(size2, B \cup {top}, top + m)
  <2>1. ASSUME NEW a \in B \cup {top}, NEW b \in B \cup {top}, a < b
        PROVE  a + size2[a] <= b
    BY <1>0, <1>1, <1>2, <2>1 DEF NoOverlap
  <2> QED BY <1>0, <1>1, <1>2, <2>1 DEF NoOverlap
<1>4. ASSUME NEW x \in 0 .. top + m - 1
      PROVE  \E b \in B \cup {top} : b <= x /\ x < b + size2[b]
  <2>1. CASE x < top
    <3>1. PICK b \in B : b <= x /\ x < b + size[b]
      BY <1>0, <2>1 DEF NoGap
    <3> QED BY <1>0, <1>1, <3>1
  <2>2. CASE x >= top
    BY <1>0, <1>2, <2>2
  <2> QED BY <1>0, <2>1, <2>2
<1> QED BY <1>0, <1>1, <1>3, <1>4 DEF NoGap, size2

-----------------------------------------------------------------------------
(* A list h and the set L of live blocks over the quantas 0 .. top - 1. *)

Free(h) == Nodes(h) \ {Base}

HeapOK(h, L, top) ==
  /\ h = [next |-> h.next, size |-> h.size, freep |-> h.freep]
  /\ Base \in Nodes(h) /\ h.size[Base] = 0
  /\ Nodes(h) \subseteq Addresses \cup {Base}
  /\ L \subseteq Addresses
  /\ h.next \in [Nodes(h) -> Nodes(h)]
  /\ h.size \in [Nodes(h) \cup L -> Nat]
  /\ top \in 0 .. PoolQuantas
  /\ Cyclic(h.next)
  /\ Free(h) \cap L = {}
  /\ NoOverlap(h.size, Free(h) \cup L, top)
  /\ NoGap(h.size, Free(h) \cup L, top)

LEMMA NodesAreInt ==
  ASSUME NEW h, NEW L, NEW top, HeapOK(h, L, top)
  PROVE  /\ Nodes(h) \subseteq Int /\ L \subseteq Int
         /\ Free(h) \cup L \subseteq Int /\ top \in Nat
         /\ Free(h) \cup L \subseteq DOMAIN h.size
         /\ \A x \in Nodes(h) \cup L : h.size[x] \in Nat
BY PoolAssumption, BaseAssumption DEF HeapOK, Addresses, Free

\* A free block that touches another one is its predecessor on the list.
LEMMA TouchingIsNext ==
  ASSUME NEW h, NEW L, NEW top, HeapOK(h, L, top),
         NEW a \in Nodes(h), NEW c \in Free(h), a + h.size[a] = c
  PROVE  a # Base /\ h.next[a] = c
<1>1. Nodes(h) \subseteq Int /\ top \in Nat
  BY NodesAreInt
<1>2. c \in Addresses /\ c # Base
  BY BaseAssumption DEF HeapOK, Addresses, Free
<1>3. a # Base
  BY <1>1, <1>2 DEF HeapOK
<1>4. a \in Free(h) /\ h.size[a] > 0
  BY <1>1, <1>3 DEF HeapOK, Free, NoOverlap
<1>5. h.next[a] \in Nodes(h) /\ Follows(Nodes(h), a, h.next[a])
  BY DEF HeapOK, Cyclic, Nodes
<1>6. ASSUME h.next[a] # c PROVE FALSE
  <2>1. a < h.next[a] /\ h.next[a] < c
    BY <1>1, <1>4, <1>5, <1>6, NodesAreInt DEF Follows, Free
  <2>2. a \in Addresses
    BY <1>4 DEF HeapOK, Free
  <2>3. h.next[a] # Base
    BY <1>2, <2>1, <2>2, PoolAssumption, BaseAssumption DEF Addresses
  <2>4. h.next[a] \in Free(h)
    BY <1>5, <2>3 DEF Free
  <2>5. a + h.size[a] <= h.next[a]
    BY <1>4, <2>1, <2>4 DEF HeapOK, NoOverlap
  <2>6. h.next[a] \in Int /\ c \in Int
    BY <1>1, <1>5 DEF Free
  <2> QED BY <2>1, <2>5, <2>6
<1> QED BY <1>3, <1>6

\* What Merge does when there is something to merge.
LEMMA MergeValue ==
  ASSUME NEW h, NEW L, NEW top, HeapOK(h, L, top),
         NEW p \in Nodes(h), p + h.size[p] = h.next[p], p # Base, h.next[p] # Base
  PROVE  LET q == h.next[p]
             g == Merge(h, p)
         IN  /\ p \in Free(h) /\ q \in Free(h) /\ p # q
             /\ g = [next |-> g.next, size |-> g.size, freep |-> g.freep]
             /\ g.next = Unlink(h.next, p) /\ g.freep = h.freep
             /\ g.size = Absorb(h.size, p, q)
             /\ Nodes(g) = Nodes(h) \ {q} /\ Free(g) = Free(h) \ {q}
<1> DEFINE q == h.next[p]
<1>1. q \in Nodes(h)
  BY DEF HeapOK, Cyclic, Nodes
<1>2. p \in Free(h) /\ q \in Free(h)
  BY <1>1 DEF Free
<1>3. p # q
  <2>1. h.size[p] > 0
    BY <1>2 DEF HeapOK, NoOverlap
  <2>2. p \in Int /\ h.size[p] \in Nat
    BY NodesAreInt
  <2> QED BY <2>1, <2>2
<1> QED BY <1>1, <1>2, <1>3 DEF Merge, HeapOK, Nodes, Free, Unlink

\* Merging two neighbours keeps the heap in order.
LEMMA MergeOK ==
  ASSUME NEW h, NEW L, NEW top, HeapOK(h, L, top),
         NEW p \in Nodes(h), p + h.size[p] = h.next[p], p # Base, h.next[p] # Base
  PROVE  HeapOK(Merge(h, p), L, top)
<1> DEFINE q == h.next[p]
           g == Merge(h, p)
           B == Free(h) \cup L
<1>1. /\ p \in Free(h) /\ q \in Free(h) /\ p # q
      /\ g = [next |-> g.next, size |-> g.size, freep |-> g.freep]
      /\ g.next = Unlink(h.next, p)
      /\ Nodes(g) = Nodes(h) \ {q} /\ Free(g) = Free(h) \ {q}
      /\ g.size = Absorb(h.size, p, q)
  BY MergeValue
<1>2. q \notin L /\ Free(g) \cup L = B \ {q} /\ DOMAIN h.size = Nodes(h) \cup L
  BY <1>1 DEF HeapOK
<1>3. Cyclic(g.next)
  <2>1. DOMAIN h.next \subseteq Int /\ Cyclic(h.next) /\ p \in DOMAIN h.next
        /\ h.next[p] # p
    BY <1>1, NodesAreInt DEF HeapOK, Nodes
  <2>2. Cyclic(Unlink(h.next, p))
    BY <2>1, UnlinkCyclic
  <2> QED BY <1>1, <2>2
<1>4. NoOverlap(g.size, B \ {q}, top) /\ NoGap(g.size, B \ {q}, top)
  <2>1. B \subseteq Int /\ top \in Nat /\ B \subseteq DOMAIN h.size
        /\ \A x \in B : h.size[x] \in Nat
    BY NodesAreInt DEF Free
  <2>2. NoOverlap(h.size, B, top) /\ NoGap(h.size, B, top)
    BY DEF HeapOK
  <2>3. p \in B /\ q \in B /\ p + h.size[p] = q
    BY <1>1
  <2> HIDE DEF B, q
  <2> QED BY <1>1, <2>1, <2>2, <2>3, MergeTiling
<1>5. g.size \in [Nodes(g) \cup L -> Nat]
  BY <1>1, <1>2 DEF HeapOK, Free, Absorb
<1>6. Base \in Nodes(g) /\ g.size[Base] = 0
  BY <1>1, <1>2 DEF HeapOK, Absorb
<1>7. NoOverlap(g.size, Free(g) \cup L, top) /\ NoGap(g.size, Free(g) \cup L, top)
  BY <1>2, <1>4
<1>8. /\ Nodes(g) \subseteq Addresses \cup {Base} /\ L \subseteq Addresses
      /\ top \in 0 .. PoolQuantas /\ Free(g) \cap L = {}
  BY <1>1 DEF HeapOK
<1>9. g.next \in [Nodes(g) -> Nodes(g)]
  BY <1>1, <1>3 DEF Unlink, Cyclic, Nodes
<1> HIDE DEF g
<1> QED BY <1>1, <1>3, <1>5, <1>6, <1>7, <1>8, <1>9 DEF HeapOK, g

\* The end of a block is an address or the end of the pool, so not Base.
LEMMA EndIsNotBase ==
  ASSUME NEW h, NEW L, NEW top, HeapOK(h, L, top), NEW a \in Free(h) \cup L
  PROVE  a + h.size[a] # Base
<1>1. 0 <= a /\ a + h.size[a] <= top
  BY DEF HeapOK, NoOverlap
<1>2. a \in Int /\ h.size[a] \in Nat /\ top \in 0 .. PoolQuantas
  BY NodesAreInt DEF HeapOK, Free
<1> QED BY <1>1, <1>2, PoolAssumption, BaseAssumption

\* Linking a block without merging.
LEMMA LinkedOK ==
  ASSUME NEW h, NEW L, NEW top, HeapOK(h, L, top),
         NEW b \in L, NEW p \in Nodes(h), Between(h, b, p)
  PROVE  HeapOK(Linked(h, b, p), L \ {b}, top)
<1> DEFINE g == Linked(h, b, p)
<1>1. b \in Int /\ b # Base /\ b \notin Nodes(h) /\ b \in Addresses
  BY PoolAssumption, BaseAssumption DEF HeapOK, Addresses, Free
<1>2. /\ g = [next |-> g.next, size |-> g.size, freep |-> g.freep]
      /\ g.next = Link(h.next, b, p) /\ g.size = h.size /\ g.freep = p
      /\ Nodes(g) = Nodes(h) \cup {b} /\ Free(g) = Free(h) \cup {b}
      /\ g.next[p] = b /\ p # b
  BY <1>1 DEF Linked, Link, Nodes, Free
<1>3. Cyclic(g.next)
  <2>1. Nodes(h) \subseteq Int /\ Cyclic(h.next) /\ b \in Int \ Nodes(h)
    BY <1>1, NodesAreInt DEF HeapOK
  <2>2. Cyclic(Link(h.next, b, p))
    BY <2>1, LinkCyclic
  <2> QED BY <1>2, <2>2
<1>4. Free(g) \cup (L \ {b}) = Free(h) \cup L /\ Nodes(g) \cup (L \ {b}) = Nodes(h) \cup L
  BY <1>2
<1>5. /\ Base \in Nodes(g) /\ g.size[Base] = 0 /\ g.size \in [Nodes(g) \cup (L \ {b}) -> Nat]
      /\ Nodes(g) \subseteq Addresses \cup {Base} /\ L \ {b} \subseteq Addresses
      /\ top \in 0 .. PoolQuantas /\ Free(g) \cap (L \ {b}) = {}
      /\ NoOverlap(g.size, Free(g) \cup (L \ {b}), top)
      /\ NoGap(g.size, Free(g) \cup (L \ {b}), top)
  BY <1>1, <1>2, <1>4 DEF HeapOK
<1>6. g.next \in [Nodes(g) -> Nodes(g)]
  BY <1>2, <1>3 DEF Link, Cyclic, Nodes
<1> HIDE DEF g
<1>7. HeapOK(g, L \ {b}, top)
  BY <1>2, <1>3, <1>5, <1>6 DEF HeapOK
<1> QED BY <1>7 DEF g

\* The outcome of freeing block b behind p.
FreedOK(h, L, top, b, p) ==
  LET g == Insert(h, b, p)
  IN  /\ HeapOK(g, L \ {b}, top)
      /\ NoneTouch(g.size, Free(g))
      /\ g.freep = p /\ p \in Nodes(g)
      /\ \A x \in L \ {b} : g.size[x] = h.size[x]

\* Freeing a block where the search loop stopped keeps the heap in order, with
\* no two free blocks touching, and leaves the blocks of others alone.
LEMMA InsertOK ==
  ASSUME NEW h, NEW L, NEW top, HeapOK(h, L, top), NoneTouch(h.size, Free(h)),
         NEW b \in L, NEW p \in Nodes(h), Between(h, b, p)
  PROVE  FreedOK(h, L, top, b, p)
<1> DEFINE M  == L \ {b}
           h1 == Linked(h, b, p)
           h2 == Merge(h1, b)
           g  == Merge(h2, p)
           q  == h1.next[b]
<1>0. HeapOK(h, L, top) /\ Between(h, b, p)
  OBVIOUS
<1>1. /\ HeapOK(h1, M, top)
      /\ Nodes(h1) = Nodes(h) \cup {b} /\ Free(h1) = Free(h) \cup {b}
      /\ h1.size = h.size /\ h1.freep = p
      /\ h1.next[p] = b /\ p # b
  <2>1. HeapOK(h1, M, top)
    BY <1>0, LinkedOK
  <2>2. b # Base /\ b \notin Nodes(h)
    BY PoolAssumption, BaseAssumption DEF HeapOK, Addresses, Free
  <2> QED BY <2>1, <2>2 DEF Linked, Link, Nodes, Free
<1>2. /\ p \in Nodes(h1) /\ b \in Free(h1) /\ b \in Nodes(h1)
      /\ Nodes(h1) \subseteq Int /\ M \subseteq Addresses
      /\ \A x \in Nodes(h1) \cup M : h1.size[x] \in Nat
      /\ \A x \in Free(h1) : h1.size[x] > 0
  <2>1. \A x \in Free(h1) : h1.size[x] > 0
    BY <1>1 DEF HeapOK, NoOverlap
  <2> HIDE DEF h1, M
  <2> QED BY <1>1, <2>1, NodesAreInt DEF HeapOK, Free
<1>3. \A a, c \in Free(h1) : a + h1.size[a] = c => a = b \/ c = b
  BY <1>1 DEF NoneTouch
<1> HIDE DEF h1
<1>4. /\ HeapOK(h2, M, top)
      /\ b \in Free(h2) /\ p \in Nodes(h2)
      /\ h2.next[p] = b /\ h2.freep = p
      /\ \A a, c \in Free(h2) : a + h2.size[a] = c => c = b
      /\ \A x \in M : h2.size[x] = h1.size[x]
  <2>1. CASE b + h1.size[b] = q
    <3>1. q # Base /\ b # Base
      <4>1. b + h1.size[b] # Base
        BY <1>1, <1>2, EndIsNotBase
      <4> QED BY <4>1, <1>2, <2>1 DEF Free
    <3>2. /\ HeapOK(h2, M, top)
          /\ q \in Free(h1) /\ b # q
          /\ h2.next = Unlink(h1.next, b) /\ h2.freep = h1.freep
          /\ h2.size = Absorb(h1.size, b, q)
          /\ Nodes(h2) = Nodes(h1) \ {q} /\ Free(h2) = Free(h1) \ {q}
      BY <1>1, <1>2, <2>1, <3>1, MergeOK, MergeValue
    <3>3. p # q
      <4>1. SUFFICES ASSUME p = q PROVE FALSE
        OBVIOUS
      <4>2. Follows(Nodes(h1), p, b) /\ Follows(Nodes(h1), b, p)
        BY <1>1, <1>2, <4>1 DEF HeapOK, Cyclic, Nodes
      <4>3. Nodes(h1) \subseteq {b, p}
        BY <1>2, <4>2, <1>1 DEF Follows
      <4> QED BY <1>1, <3>1, <4>1, <4>3 DEF HeapOK
    <3>4. q \notin M /\ DOMAIN h1.size = Nodes(h1) \cup M
      BY <1>1, <3>2 DEF HeapOK
    <3>5. \A x \in (Nodes(h1) \cup M) \ {q} :
            h2.size[x] = IF x = b THEN h1.size[b] + h1.size[q] ELSE h1.size[x]
      BY <3>2, <3>4 DEF Absorb
    <3>6. ASSUME NEW a \in Free(h2), NEW c \in Free(h2), a + h2.size[a] = c
          PROVE  c = b
      <4>1. a \in Free(h1) /\ c \in Free(h1) /\ a # q /\ c # q /\ a \in Nodes(h1)
        BY <3>2 DEF Free
      <4>2. CASE a = b
        <5>1. b + (h1.size[b] + h1.size[q]) = c
          BY <3>5, <3>6, <4>1, <4>2
        <5>2. q + h1.size[q] = c
          BY <1>2, <2>1, <3>2, <5>1 DEF Free
        <5> QED BY <1>3, <3>2, <4>1, <5>2
      <4>3. CASE a # b
        BY <1>3, <3>5, <3>6, <4>1, <4>3
      <4> QED BY <4>2, <4>3
    <3>7. h2.next[p] = b
      BY <1>1, <1>2, <3>2, <3>3 DEF Unlink, Nodes
    <3>8. \A x \in M : h2.size[x] = h1.size[x]
      BY <3>4, <3>5
    <3> HIDE DEF h2, q, M
    <3> QED BY <1>1, <1>2, <3>2, <3>3, <3>6, <3>7, <3>8
  <2>2. CASE b + h1.size[b] # q
    <3>1. h2 = h1
      BY <2>2 DEF Merge
    <3>2. ASSUME NEW a \in Free(h1), NEW c \in Free(h1), a + h1.size[a] = c
          PROVE  c = b
      <4>1. a = b => h1.next[a] = c
        BY <1>1, <1>2, <3>2, TouchingIsNext
      <4> QED BY <1>3, <2>2, <3>2, <4>1
    <3> QED BY <1>1, <1>2, <3>1, <3>2
  <2> QED BY <2>1, <2>2
<1> HIDE DEF h2, M
<1>5. /\ HeapOK(g, M, top)
      /\ NoneTouch(g.size, Free(g))
      /\ g.freep = p /\ p \in Nodes(g)
      /\ \A x \in M : g.size[x] = h2.size[x]
  <2>1. CASE p + h2.size[p] = b
    <3>1. p # Base /\ b # Base /\ h2.next[p] = b
      BY <1>4, <2>1, TouchingIsNext DEF Free
    <3>2. /\ HeapOK(g, M, top)
          /\ p \in Free(h2) /\ p # b
          /\ g.next = Unlink(h2.next, p) /\ g.freep = h2.freep
          /\ g.size = Absorb(h2.size, p, b)
          /\ Nodes(g) = Nodes(h2) \ {b} /\ Free(g) = Free(h2) \ {b}
      BY <1>4, <2>1, <3>1, MergeOK, MergeValue
    <3>3. /\ b \notin M /\ DOMAIN h2.size = Nodes(h2) \cup M
          /\ Nodes(h2) \subseteq Int /\ \A x \in Nodes(h2) : h2.size[x] \in Nat
          /\ h2.size[b] > 0
      BY <1>4, NodesAreInt DEF HeapOK, NoOverlap
    <3>4. \A x \in (Nodes(h2) \cup M) \ {b} :
            g.size[x] = IF x = p THEN h2.size[p] + h2.size[b] ELSE h2.size[x]
      BY <3>2, <3>3 DEF Absorb
    <3>5. ASSUME NEW a \in Free(g), NEW c \in Free(g), a + g.size[a] = c
          PROVE  FALSE
      <4>1. a \in Free(h2) /\ c \in Free(h2) /\ c # b /\ a \in Nodes(h2) /\ a # b
        BY <3>2 DEF Free
      <4>2. CASE a = p
        <5>1. p + (h2.size[p] + h2.size[b]) = c
          BY <3>4, <3>5, <4>1, <4>2
        <5>2. b + h2.size[b] = c
          BY <1>4, <2>1, <3>3, <5>1 DEF Free
        <5> QED BY <1>4, <4>1, <5>2
      <4>3. CASE a # p
        BY <1>4, <3>4, <3>5, <4>1, <4>3
      <4> QED BY <4>2, <4>3
    <3> HIDE DEF g
    <3>6. NoneTouch(g.size, Free(g))
      BY <3>5 DEF NoneTouch
    <3>7. p \in Nodes(g) /\ \A x \in M : g.size[x] = h2.size[x]
      BY <1>4, <3>2, <3>3, <3>4 DEF HeapOK
    <3> QED BY <1>4, <3>2, <3>6, <3>7
  <2>2. CASE p + h2.size[p] # b
    <3>1. g = h2
      BY <1>4, <2>2 DEF Merge
    <3>2. ASSUME NEW a \in Free(h2), NEW c \in Free(h2), a + h2.size[a] = c
          PROVE  FALSE
      <4>1. c = b
        BY <1>4, <3>2
      <4>2. h2.next[a] = b /\ a \in Nodes(h2)
        BY <1>4, <3>2, <4>1, TouchingIsNext DEF Free
      <4>3. /\ DOMAIN h2.next \subseteq Int /\ Cyclic(h2.next)
            /\ a \in DOMAIN h2.next /\ p \in DOMAIN h2.next
        BY <1>4, <4>2, NodesAreInt DEF HeapOK, Nodes
      <4>4. a = p
        BY <1>4, <4>2, <4>3, OnePredecessor
      <4> QED BY <2>2, <3>2, <4>1, <4>4
    <3> QED BY <1>4, <3>1, <3>2 DEF NoneTouch
  <2> QED BY <2>1, <2>2
<1>6. Insert(h, b, p) = g
  BY DEF Insert, h1, h2
<1>7. \A x \in M : g.size[x] = h.size[x]
  BY <1>1, <1>4, <1>5
<1> HIDE DEF g
<1> QED BY <1>5, <1>6, <1>7 DEF M, FreedOK

\* A block fresh from the pool joins the live blocks until it is freed.
LEMMA PoolBlockOK ==
  ASSUME NEW h, NEW L, NEW top, HeapOK(h, L, top), NoneTouch(h.size, Free(h)),
         NEW m \in Nat, 0 < m, top + m <= PoolQuantas,
         NEW g, g = [next |-> h.next, size |-> Header(h.size, top, m), freep |-> h.freep]
  PROVE  /\ HeapOK(g, L \cup {top}, top + m)
         /\ NoneTouch(g.size, Free(g))
         /\ top \in Addresses /\ top \notin L
         /\ \A x \in L : g.size[x] = h.size[x]
<1> DEFINE B == Free(h) \cup L
<1>1. /\ B \subseteq Int /\ top \in Nat /\ B \subseteq DOMAIN h.size
      /\ \A x \in B : h.size[x] \in Nat
  BY NodesAreInt DEF Free
<1>2. NoOverlap(h.size, B, top) /\ NoGap(h.size, B, top)
  BY DEF HeapOK
<1>3. /\ top \notin B
      /\ NoOverlap(Header(h.size, top, m), B \cup {top}, top + m)
      /\ NoGap(Header(h.size, top, m), B \cup {top}, top + m)
  <2> HIDE DEF B
  <2> QED BY <1>1, <1>2, GrowTiling
<1>4. top \in Addresses /\ top \notin L /\ top + m \in 0 .. PoolQuantas
      /\ top # Base /\ top \notin Nodes(h)
  BY <1>1, <1>3, PoolAssumption, BaseAssumption DEF Addresses, Free
<1>5. /\ g.next = h.next /\ g.size = Header(h.size, top, m)
      /\ Nodes(g) = Nodes(h) /\ Free(g) = Free(h)
      /\ Free(g) \cup (L \cup {top}) = B \cup {top}
      /\ g = [next |-> g.next, size |-> g.size, freep |-> g.freep]
  BY DEF Nodes, Free
<1>6. /\ g.size \in [Nodes(g) \cup (L \cup {top}) -> Nat]
      /\ \A x \in Nodes(h) \cup L : g.size[x] = h.size[x]
  BY <1>4, <1>5 DEF HeapOK, Header
<1>7. NoneTouch(g.size, Free(g))
  BY <1>5, <1>6 DEF NoneTouch, Free
<1>8. HeapOK(g, L \cup {top}, top + m)
  <2>1. /\ Base \in Nodes(g) /\ g.size[Base] = 0
        /\ Nodes(g) \subseteq Addresses \cup {Base} /\ L \cup {top} \subseteq Addresses
        /\ g.next \in [Nodes(g) -> Nodes(g)] /\ Cyclic(g.next)
    BY <1>4, <1>5, <1>6 DEF HeapOK
  <2>2. Free(g) \cap (L \cup {top}) = {}
    BY <1>3, <1>5 DEF HeapOK
  <2> QED BY <1>3, <1>4, <1>5, <1>6, <2>1, <2>2 DEF HeapOK
<1> QED BY <1>4, <1>6, <1>7, <1>8

\* Handing out a block that is big enough: the client gets n quantas nobody
\* else has, and the heap stays in order.
LEMMA TakeOK ==
  ASSUME NEW h, NEW L, NEW top, HeapOK(h, L, top), NoneTouch(h.size, Free(h)),
         NEW prev \in Nodes(h), NEW n \in Nat, 0 < n, h.size[h.next[prev]] >= n
  PROVE  LET t == Taken(h, n, prev)
             g == Take(h, n, prev)
         IN  /\ HeapOK(g, L \cup {t}, top)
             /\ NoneTouch(g.size, Free(g))
             /\ g.freep = prev /\ prev \in Nodes(g)
             /\ t \in Addresses /\ t \notin L /\ g.size[t] = n
             /\ \A x \in L : g.size[x] = h.size[x]
<1> DEFINE p == h.next[prev]
           t == Taken(h, n, prev)
           g == Take(h, n, prev)
           B == Free(h) \cup L
<1>1. /\ B \subseteq Int /\ top \in Nat /\ B \subseteq DOMAIN h.size
      /\ \A x \in Nodes(h) \cup B : h.size[x] \in Nat
      /\ Nodes(h) \subseteq Int
      /\ NoOverlap(h.size, B, top) /\ NoGap(h.size, B, top)
  BY NodesAreInt DEF Free, HeapOK
<1>2. p \in Nodes(h) /\ p # Base /\ p \in Free(h)
  BY DEF HeapOK, Cyclic, Nodes, Free
<1>3. CASE h.size[p] = n
  <2>1. /\ t = p
        /\ g = [next |-> Unlink(h.next, prev), size |-> h.size, freep |-> prev]
    BY <1>1, <1>2, <1>3 DEF Taken, Take, Tail
  <2>2. p # prev
    <3>1. Follows(Nodes(h), prev, p)
      BY DEF HeapOK, Cyclic, Nodes
    <3> QED BY <1>1, <1>2, <3>1 DEF Follows, HeapOK
  <2>3. Cyclic(Unlink(h.next, prev))
    <3>1. DOMAIN h.next \subseteq Int /\ Cyclic(h.next) /\ prev \in DOMAIN h.next
      BY <1>1 DEF HeapOK, Nodes
    <3> QED BY <2>2, <3>1, UnlinkCyclic
  <2>4. /\ g.next = Unlink(h.next, prev) /\ g.size = h.size /\ g.freep = prev
        /\ Nodes(g) = Nodes(h) \ {p} /\ Free(g) = Free(h) \ {p}
        /\ Free(g) \cup (L \cup {t}) = B
        /\ Nodes(g) \cup (L \cup {t}) = Nodes(h) \cup L
        /\ g = [next |-> g.next, size |-> g.size, freep |-> g.freep]
    BY <1>2, <2>1 DEF Unlink, Nodes, Free
  <2>5. t \in Addresses /\ t \notin L /\ g.size[t] = n
    BY <1>2, <1>3, <2>1, <2>4 DEF HeapOK, Free
  <2>8. g.next \in [Nodes(g) -> Nodes(g)]
    BY <2>3, <2>4 DEF Unlink, Cyclic, Nodes
  <2> HIDE DEF t, g, p
  <2>6. HeapOK(g, L \cup {t}, top)
    BY <1>1, <1>2, <2>1, <2>3, <2>4, <2>5, <2>8 DEF HeapOK
  <2>7. NoneTouch(g.size, Free(g))
    BY <2>4 DEF NoneTouch
  <2> QED BY <2>2, <2>4, <2>5, <2>6, <2>7 DEF t, g
<1>4. CASE h.size[p] # n
  <2>1. /\ t = Tail(h.size, p, n)
        /\ g = [next |-> h.next, size |-> Split(h.size, p, n), freep |-> prev]
    BY <1>4 DEF Taken, Take
  <2>2. n < h.size[p] /\ p \in B
    BY <1>1, <1>2, <1>4
  <2>3. /\ t \in Int \ B
        /\ NoOverlap(g.size, B \cup {t}, top) /\ NoGap(g.size, B \cup {t}, top)
    <3>1. \A x \in B : h.size[x] \in Nat
      BY <1>1
    <3> HIDE DEF B, p, t, g
    <3> QED BY <1>1, <2>1, <2>2, <3>1, SplitTiling
  <2>4. /\ g.next = h.next /\ g.size = Split(h.size, p, n) /\ g.freep = prev
        /\ Nodes(g) = Nodes(h) /\ Free(g) = Free(h)
        /\ Free(g) \cup (L \cup {t}) = B \cup {t}
        /\ g = [next |-> g.next, size |-> g.size, freep |-> g.freep]
    BY <2>1 DEF Nodes, Free
  <2>5. p \in Int /\ h.size[p] \in Nat /\ 0 <= p /\ p + h.size[p] <= top
    BY <1>1, <1>2 DEF NoOverlap
  <2>6. t \in Addresses /\ t # Base
    BY <2>1, <2>2, <2>5, PoolAssumption, BaseAssumption DEF Tail, Addresses, HeapOK
  <2>7. /\ DOMAIN g.size = DOMAIN h.size \cup {t}
        /\ g.size[t] = n /\ g.size[p] = h.size[p] - n
        /\ \A x \in DOMAIN h.size \ {p, t} : g.size[x] = h.size[x]
    <3>1. p \in DOMAIN h.size /\ p # t
      BY <1>1, <2>2, <2>3
    <3> QED BY <2>1, <2>4, <3>1 DEF Split, Header
  <2>8. /\ \A x \in L : g.size[x] = h.size[x]
        /\ g.size[Base] = 0
        /\ g.size \in [Nodes(g) \cup (L \cup {t}) -> Nat]
    <3>1. DOMAIN h.size = Nodes(h) \cup L /\ p \notin L /\ t \notin L
      BY <1>2, <2>3 DEF HeapOK
    <3>2. g.size = [x \in DOMAIN g.size |-> g.size[x]]
      BY <2>4 DEF Split, Header
    <3>3. h.size[Base] = 0 /\ Base \in Nodes(h)
      BY DEF HeapOK
    <3>4. h.size[p] - n \in Nat
      BY <2>2, <2>5
    <3> HIDE DEF g, p, t, B
    <3>5. \A x \in Nodes(h) \cup L \cup {t} : g.size[x] \in Nat
      BY <1>1, <2>7, <3>1, <3>4 DEF B
    <3>6. DOMAIN g.size = Nodes(g) \cup (L \cup {t})
      BY <2>4, <2>7, <3>1
    <3> QED BY <1>2, <2>4, <2>6, <2>7, <3>1, <3>2, <3>3, <3>5, <3>6
  <2>9. ASSUME NEW a \in Free(g), NEW c \in Free(g), a + g.size[a] = c
        PROVE  FALSE
    <3>1. a \in Free(h) /\ c \in B /\ a # t /\ c # t /\ a \in DOMAIN h.size
      BY <1>1, <2>3, <2>4
    <3>2. a # p
      BY <2>1, <2>5, <2>7, <2>9, <3>1 DEF Tail
    <3> QED BY <2>4, <2>7, <2>9, <3>1, <3>2 DEF NoneTouch
  <2>10. Free(g) \cap (L \cup {t}) = {} /\ L \cup {t} \subseteq Addresses
    BY <2>3, <2>4, <2>6 DEF HeapOK
  <2>11. NoOverlap(g.size, Free(g) \cup (L \cup {t}), top)
         /\ NoGap(g.size, Free(g) \cup (L \cup {t}), top)
    BY <2>3, <2>4
  <2> HIDE DEF g, t, p, B
  <2>12. HeapOK(g, L \cup {t}, top)
    BY <2>4, <2>8, <2>10, <2>11 DEF HeapOK
  <2>13. NoneTouch(g.size, Free(g))
    BY <2>9 DEF NoneTouch
  <2> QED BY <2>3, <2>4, <2>6, <2>7, <2>8, <2>12, <2>13 DEF B, g, t
<1> QED BY <1>3, <1>4

-----------------------------------------------------------------------------
(* The inductive invariant. *)

IInv == /\ TypeOK /\ SessionConsistent
        /\ Sorted /\ Disjoint /\ Covered /\ Coalesced /\ Housed

\* A request comes to at least the header and no request to a fraction.
LEMMA NQuantasType ==
  ASSUME NEW nbytes \in Requests
  PROVE  NQuantas(nbytes) \in Nat \ {0}
<1>1. nbytes \in Nat /\ Quantum \in Nat \ {0}
  BY RequestsAssumption, QuantumAssumption
<1>2. (nbytes + Quantum - 1) \div Quantum \in Nat
  BY <1>1
<1> QED BY <1>2 DEF NQuantas

LEMMA BaseListOK ==
  /\ HeapOK(BaseList, {}, 0) /\ NoneTouch(BaseList.size, Free(BaseList))
  /\ BaseList.freep = Base /\ Base \in Nodes(BaseList)
<1>1. /\ BaseList.next = [b \in {Base} |-> Base] /\ BaseList.size = [b \in {Base} |-> 0]
      /\ BaseList.freep = Base /\ Nodes(BaseList) = {Base} /\ Free(BaseList) = {}
      /\ BaseList = [next |-> BaseList.next, size |-> BaseList.size,
                     freep |-> BaseList.freep]
  BY DEF BaseList, Nodes, Free
<1>2. Cyclic(BaseList.next)
  BY <1>1, BaseAssumption DEF Cyclic, Follows
<1>3. NoOverlap(BaseList.size, {}, 0) /\ NoGap(BaseList.size, {}, 0)
  BY DEF NoOverlap, NoGap
<1> QED BY <1>1, <1>2, <1>3, PoolAssumption DEF HeapOK, NoneTouch

\* With no list there is no block at all.
LEMMA NoListNoBlocks ==
  ASSUME IInv, heap.freep = NULL
  PROVE  Nodes(heap) = {} /\ DOMAIN live = {} /\ live = NoBlocks /\ pool_free_pos = 0
<1>1. Nodes(heap) = {} /\ pool_free_pos = 0
  BY DEF IInv, TypeOK
<1>2. ASSUME NEW b \in DOMAIN live PROVE FALSE
  <2>1. 0 <= b /\ heap.size[b] > 0 /\ b + heap.size[b] <= 0
    BY <1>1, <1>2 DEF IInv, Disjoint, NoOverlap, Blocks
  <2>2. b \in Int /\ heap.size[b] \in Nat
    BY <1>2, PoolAssumption DEF IInv, TypeOK, Addresses
  <2> QED BY <2>1, <2>2
<1>3. live = NoBlocks
  BY <1>2 DEF IInv, TypeOK, NoBlocks
<1> QED BY <1>1, <1>2, <1>3

\* The list memmgr_alloc searches is in order.
LEMMA CurrentOK ==
  ASSUME IInv
  PROVE  /\ HeapOK(Current, DOMAIN live, pool_free_pos)
         /\ NoneTouch(Current.size, Free(Current))
         /\ Current.freep \in Nodes(Current)
         /\ \A b \in DOMAIN live : Current.size[b] = heap.size[b]
<1>1. CASE heap.freep = NULL
  BY <1>1, NoListNoBlocks, BaseListOK DEF Current
<1>2. CASE heap.freep # NULL
  <2>1. /\ heap = [next |-> heap.next, size |-> heap.size, freep |-> heap.freep]
        /\ Base \in Nodes(heap) /\ heap.freep \in Nodes(heap)
        /\ Nodes(heap) \subseteq Addresses \cup {Base}
        /\ DOMAIN live \subseteq Addresses
        /\ heap.next \in [Nodes(heap) -> Nodes(heap)]
        /\ heap.size \in [Nodes(heap) \cup DOMAIN live -> Nat]
        /\ pool_free_pos \in 0 .. PoolQuantas
    BY <1>2 DEF IInv, TypeOK
  <2>2. Cyclic(heap.next) /\ heap.size[Base] = 0
    BY <2>1 DEF IInv, Sorted
  <2>3. /\ Free(heap) \cap DOMAIN live = {}
        /\ NoOverlap(heap.size, Free(heap) \cup DOMAIN live, pool_free_pos)
        /\ NoGap(heap.size, Free(heap) \cup DOMAIN live, pool_free_pos)
        /\ NoneTouch(heap.size, Free(heap))
    BY DEF IInv, Disjoint, Covered, Coalesced, Free, FreeBlocks, Blocks
  <2> QED BY <1>2, <2>1, <2>2, <2>3 DEF HeapOK, Current
<1> QED BY <1>1, <1>2

\* The heap in order after a step gives the list part of the invariant there.
ListPart == /\ Sorted /\ Disjoint /\ Covered /\ Coalesced
            /\ heap = [next |-> heap.next, size |-> heap.size, freep |-> heap.freep]
            /\ heap.next \in [Nodes(heap) -> Nodes(heap)]
            /\ heap.size \in [Nodes(heap) \cup DOMAIN live -> Nat]
            /\ Nodes(heap) \subseteq Addresses \cup {Base}
            /\ DOMAIN live \subseteq Addresses
            /\ heap.freep # NULL /\ Base \in Nodes(heap)
            /\ pool_free_pos \in 0 .. PoolQuantas

LEMMA HeapOKInvariant ==
  /\ HeapOK(heap, DOMAIN live, pool_free_pos) /\ NoneTouch(heap.size, Free(heap))
  /\ heap.freep \in Nodes(heap)
  => ListPart
<1> SUFFICES ASSUME HeapOK(heap, DOMAIN live, pool_free_pos),
                    NoneTouch(heap.size, Free(heap)), heap.freep \in Nodes(heap)
             PROVE  ListPart
  OBVIOUS
<1>1. heap.freep # NULL
  BY NullAssumption, BaseAssumption, PoolAssumption DEF HeapOK, Addresses
<1>2. Disjoint /\ Covered /\ Coalesced
  BY DEF Disjoint, Covered, Coalesced, Free, FreeBlocks, Blocks, HeapOK
<1>3. Sorted
  BY DEF Sorted, HeapOK
<1> QED BY <1>1, <1>2, <1>3 DEF HeapOK, ListPart

LEMMA HeapOKInvariantPrime ==
  /\ HeapOK(heap', DOMAIN live', pool_free_pos') /\ NoneTouch(heap'.size, Free(heap'))
  /\ heap'.freep \in Nodes(heap')
  => ListPart'
<1>1. (/\ HeapOK(heap, DOMAIN live, pool_free_pos) /\ NoneTouch(heap.size, Free(heap))
       /\ heap.freep \in Nodes(heap)
       => ListPart)'
  BY HeapOKInvariant, PTL
<1> QED BY <1>1

-----------------------------------------------------------------------------
(* Every step keeps the invariant. *)

\* Handing out: what AllocFit and AllocGrow share.  h is the list in order from
\* which the block is taken, top the pool position after the step.
LEMMA HandOutStep ==
  ASSUME TypeOK, Housed, session = 1, SessionConsistent,
         NEW nbytes \in Requests, NEW h, NEW top,
         HeapOK(h, DOMAIN live, top), NoneTouch(h.size, Free(h)),
         \A b \in DOMAIN live : h.size[b] = heap.size[b],
         NEW prev \in Nodes(h), h.size[h.next[prev]] >= NQuantas(nbytes),
         HandOut(h, NQuantas(nbytes), prev, nbytes),
         pool_free_pos' = top, nonces' \subseteq Addresses,
         UNCHANGED <<session, pool, shared_mem>>
  PROVE  /\ IInv'
         /\ Promise!Grant(Taken(h, NQuantas(nbytes), prev), NQuantas(nbytes))
         /\ Taken(h, NQuantas(nbytes), prev) \in Addresses
<1> DEFINE n == NQuantas(nbytes)
           t == Taken(h, n, prev)
           L == DOMAIN live
<1>1. n \in Nat /\ 0 < n
  BY NQuantasType
<1>2. /\ heap' = Take(h, n, prev)
      /\ live' = [b \in L \cup {t} |-> IF b = t THEN nbytes ELSE live[b]]
      /\ largest_allocation' \in {nbytes, largest_allocation}
  BY DEF HandOut
<1>3. /\ HeapOK(heap', L \cup {t}, top) /\ NoneTouch(heap'.size, Free(heap'))
      /\ heap'.freep \in Nodes(heap')
      /\ t \in Addresses /\ t \notin L /\ heap'.size[t] = n
      /\ \A x \in L : heap'.size[x] = heap.size[x]
  <2> HIDE DEF n, t, L
  <2>1. /\ HeapOK(Take(h, n, prev), L \cup {Taken(h, n, prev)}, top)
        /\ NoneTouch(Take(h, n, prev).size, Free(Take(h, n, prev)))
        /\ Take(h, n, prev).freep = prev /\ prev \in Nodes(Take(h, n, prev))
        /\ Taken(h, n, prev) \in Addresses /\ Taken(h, n, prev) \notin L
        /\ Take(h, n, prev).size[Taken(h, n, prev)] = n
        /\ \A x \in L : Take(h, n, prev).size[x] = h.size[x]
    BY <1>1, TakeOK DEF L, n
  <2> QED BY <1>2, <2>1 DEF t, L
<1> HIDE DEF t
<1>4. DOMAIN live' = L \cup {t} /\ pool_free_pos' = top
  BY <1>2
<1>5. ListPart'
  <2>1. HeapOK(heap', DOMAIN live', pool_free_pos')
    BY <1>3, <1>4
  <2> QED BY <1>3, <2>1, HeapOKInvariantPrime
<1>6. TypeOK'
  <2>1. live' \in [DOMAIN live' -> Requests]
    BY <1>2, <1>4 DEF TypeOK
  <2>2. largest_allocation' \in Nat
    BY <1>2, RequestsAssumption DEF TypeOK
  <2> QED BY <1>3, <1>5, <2>1, <2>2 DEF TypeOK, ListPart
<1>7. Housed'
  BY <1>2, <1>3, <1>4 DEF Housed
<1>8. SessionConsistent'
  BY DEF SessionConsistent
<1>9. Promise!Grant(t, n)
  <2>1. ASSUME NEW b \in L PROVE t + n <= b \/ b + heap.size[b] <= t
    <3>1. \A a, c \in L \cup {t} : a < c => a + heap'.size[a] <= c
      BY <1>3 DEF HeapOK, NoOverlap
    <3>2. b \in Int /\ t \in Int /\ b # t
      BY <1>3, PoolAssumption DEF HeapOK, Addresses
    <3> QED BY <1>3, <3>1, <3>2
  <2>2. t + n <= PoolQuantas
    <3>1. t + heap'.size[t] <= top
      BY <1>3 DEF HeapOK, NoOverlap
    <3> QED BY <1>1, <1>3, <3>1, PoolAssumption DEF HeapOK, Addresses
  <2>3. [b \in DOMAIN live' |-> heap'.size[b]] =
          [b \in L \cup {t} |-> IF b = t THEN n ELSE heap.size[b]]
    BY <1>3, <1>4
  <2> QED BY <2>1, <2>2, <2>3 DEF Promise!Grant, Promise!Clear
<1> QED BY <1>3, <1>5, <1>6, <1>7, <1>8, <1>9 DEF IInv, ListPart, t

\* What the search loop of memmgr_alloc finds is big enough.
LEMMA FirstFitSize ==
  ASSUME NEW h, NEW n, NEW prev \in Nodes(h), FirstFit(h, n, prev)
  PROVE  h.size[h.next[prev]] >= n
BY DEF FirstFit

PromiseStep == Promise!Next \/ UNCHANGED Promise!vars

LEMMA InitOK == Init => IInv /\ Promise!Init
<1> SUFFICES ASSUME Init PROVE IInv /\ Promise!Init
  OBVIOUS
<1>1. /\ Nodes(heap) = {} /\ DOMAIN live = {} /\ DOMAIN heap.size = {}
      /\ heap.freep = NULL /\ pool_free_pos = 0 /\ session = 0 /\ pool = "NULL"
      /\ FreeBlocks = {} /\ Blocks = {} /\ shared_mem = "NULL" /\ nonces = {}
      /\ largest_allocation = 0
  BY DEF Init, NoList, NoBlocks, Nodes, FreeBlocks, Blocks
<1>2. /\ live \in [{} -> Requests] /\ heap.next \in [{} -> {}]
      /\ heap.size \in [{} -> Nat]
      /\ heap = [next |-> heap.next, size |-> heap.size, freep |-> heap.freep]
  BY DEF Init, NoList, NoBlocks
<1>3. TypeOK
  BY <1>1, <1>2, PoolAssumption DEF TypeOK
<1>4. SessionConsistent /\ Sorted /\ Disjoint /\ Covered /\ Coalesced /\ Housed
  BY <1>1 DEF SessionConsistent, Sorted, Cyclic, Nodes, Disjoint, NoOverlap, Covered,
              NoGap, Coalesced, NoneTouch, Housed
<1>5. Promise!Init
  BY <1>1 DEF Promise!Init
<1> QED BY <1>3, <1>4, <1>5 DEF IInv

\* A fresh session, or none: no list and no blocks.
Emptied ==
  /\ heap' = NoList /\ live' = NoBlocks /\ pool_free_pos' = 0
  /\ \/ session' = 0 /\ pool' = "NULL"
     \/ session' = 1 /\ pool' = "mapped"
  /\ shared_mem' \in {"NULL", "mapped"} /\ (session' = 0 => shared_mem' = "NULL")
  /\ UNCHANGED <<largest_allocation, nonces>>

LEMMA EmptyHeap ==
  ASSUME Emptied, IInv
  PROVE  IInv'
<1> USE DEF Emptied
<1>1. /\ Nodes(heap') = {} /\ DOMAIN live' = {} /\ DOMAIN heap'.size = {}
      /\ heap'.freep = NULL /\ FreeBlocks' = {} /\ Blocks' = {}
  BY DEF NoList, NoBlocks, Nodes, FreeBlocks, Blocks
<1>2. /\ live' \in [{} -> Requests] /\ heap'.next \in [{} -> {}]
      /\ heap'.size \in [{} -> Nat]
      /\ heap' = [next |-> heap'.next, size |-> heap'.size, freep |-> heap'.freep]
  BY DEF NoList, NoBlocks
<1>3. TypeOK'
  BY <1>1, <1>2, PoolAssumption DEF IInv, TypeOK
<1>4. (SessionConsistent /\ Sorted /\ Disjoint /\ Covered /\ Coalesced /\ Housed)'
  BY <1>1 DEF SessionConsistent, Sorted, Cyclic, Nodes, Disjoint, NoOverlap, Covered,
              NoGap, Coalesced, NoneTouch, Housed
<1> QED BY <1>3, <1>4 DEF IInv

LEMMA NextOK == IInv /\ [Next]_vars => IInv' /\ PromiseStep
<1> SUFFICES ASSUME IInv, [Next]_vars PROVE IInv' /\ PromiseStep
  OBVIOUS
<1> USE DEF PromiseStep
<1>1. CASE memmgr_init \/ memmgr_init_check_shared_mem
  <2>1. live = NoBlocks /\ session = 0
    BY <1>1, NoListNoBlocks
       DEF memmgr_init, memmgr_init_check_shared_mem, IInv, SessionConsistent
  <2>2. IInv'
    <3>1. Emptied
      BY <1>1, <2>1
         DEF memmgr_init, memmgr_init_check_shared_mem, IInv, TypeOK, Emptied
    <3> QED BY <3>1, EmptyHeap
  <2>3. Promise!Open
    BY <1>1, <2>1 DEF memmgr_init, memmgr_init_check_shared_mem, Promise!Open, NoBlocks
  <2> QED BY <2>2, <2>3 DEF Promise!Next
<1>2. CASE memmgr_destroy
  <2>1. IInv'
    <3>1. Emptied
      BY <1>2 DEF memmgr_destroy, Emptied
    <3> QED BY <3>1, EmptyHeap
  <2>2. Promise!Close
    BY <1>2 DEF memmgr_destroy, Promise!Close, NoBlocks
  <2> QED BY <2>1, <2>2 DEF Promise!Next
<1>3. ASSUME NEW nbytes \in Requests, AllocFit(nbytes)
      PROVE  IInv' /\ PromiseStep
  <2> DEFINE n == NQuantas(nbytes)
  <2>1. /\ HeapOK(Current, DOMAIN live, pool_free_pos)
        /\ NoneTouch(Current.size, Free(Current))
        /\ \A b \in DOMAIN live : Current.size[b] = heap.size[b]
    BY CurrentOK
  <2>2. PICK prev \in Nodes(Current) :
          FirstFit(Current, n, prev) /\ HandOut(Current, n, prev, nbytes)
    BY <1>3 DEF AllocFit
  <2>3. Current.size[Current.next[prev]] >= n
    BY <2>2, FirstFitSize
  <2>4. /\ IInv'
        /\ Promise!Grant(Taken(Current, n, prev), n) /\ Taken(Current, n, prev) \in Addresses
    BY <1>3, <2>1, <2>2, <2>3, HandOutStep DEF AllocFit, Usable, IInv, TypeOK
  <2> QED BY <2>4 DEF Promise!Next, Addresses
<1>4. ASSUME NEW nbytes \in Requests, AllocGrow(nbytes)
      PROVE  IInv' /\ PromiseStep
  <2> DEFINE n == NQuantas(nbytes)
             m == PoolRequest(n)
             h == WithPoolBlock(Current, n)
             L == DOMAIN live
             a == pool_free_pos
             top == pool_free_pos + m
  <2>1. /\ HeapOK(Current, L, a) /\ NoneTouch(Current.size, Free(Current))
        /\ \A b \in L : Current.size[b] = heap.size[b]
    BY CurrentOK
  <2>2. m \in Nat /\ 0 < m /\ a + m <= PoolQuantas
    BY <1>4, NQuantasType, PoolAssumption DEF AllocGrow, PoolHasRoom, PoolRequest
  <2>3. PICK p \in Nodes(h) :
          /\ InsertPoint(h, a, p)
          /\ \E prev \in Nodes(Insert(h, a, p)) :
               /\ FirstFit(Insert(h, a, p), n, prev)
               /\ HandOut(Insert(h, a, p), n, prev, nbytes)
    BY <1>4 DEF AllocGrow
  <2> DEFINE g == Insert(h, a, p)
  <2>4. PICK prev \in Nodes(g) : FirstFit(g, n, prev) /\ HandOut(g, n, prev, nbytes)
    BY <2>3
  <2>5. /\ HeapOK(h, L \cup {a}, top) /\ NoneTouch(h.size, Free(h))
        /\ a \in Addresses /\ a \notin L
        /\ \A x \in L : h.size[x] = Current.size[x]
    <3>1. h = [next |-> Current.next, size |-> Header(Current.size, a, m),
               freep |-> Current.freep]
      BY DEF WithPoolBlock
    <3> HIDE DEF h, a, L, m, n
    <3>2. HeapOK(h, L \cup {a}, a + m)
      BY <2>1, <2>2, <3>1, PoolBlockOK
    <3>3. /\ NoneTouch(h.size, Free(h))
          /\ a \in Addresses /\ a \notin L
          /\ \A x \in L : h.size[x] = Current.size[x]
      BY <2>1, <2>2, <3>1, <3>2, PoolBlockOK
    <3> QED BY <3>2, <3>3 DEF a
  <2>6. Between(h, a, p)
    BY <2>3 DEF InsertPoint
  <2>7. /\ HeapOK(g, L, top) /\ NoneTouch(g.size, Free(g))
        /\ \A x \in L : g.size[x] = h.size[x]
    <3>1. (L \cup {a}) \ {a} = L
      BY <2>5
    <3> HIDE DEF h, a, L, top, g
    <3>2. FreedOK(h, L \cup {a}, top, a, p)
      BY <2>3, <2>5, <2>6, InsertOK
    <3> QED BY <3>1, <3>2 DEF FreedOK, g
  <2>8. g.size[g.next[prev]] >= n
    <3> HIDE DEF g, n
    <3> QED BY <2>4, FirstFitSize
  <2>9. \A b \in L : g.size[b] = heap.size[b]
    BY <2>1, <2>5, <2>7
  <2>10. /\ pool_free_pos' = top /\ nonces' \subseteq Addresses
         /\ UNCHANGED <<session, pool, shared_mem>> /\ session = 1
         /\ TypeOK /\ Housed /\ SessionConsistent
    BY <1>4, <2>5 DEF AllocGrow, Usable, IInv, TypeOK
  <2>11. /\ IInv'
         /\ Promise!Grant(Taken(g, n, prev), n) /\ Taken(g, n, prev) \in Addresses
    <3> HIDE DEF g, top
    <3> QED BY <2>4, <2>7, <2>8, <2>9, <2>10, HandOutStep
  <2> QED BY <2>11 DEF Promise!Next, Addresses
<1>5. ASSUME NEW nbytes \in Requests, AllocFail(nbytes)
      PROVE  IInv' /\ PromiseStep
  <2>1. /\ HeapOK(Current, DOMAIN live, pool_free_pos)
        /\ NoneTouch(Current.size, Free(Current))
        /\ Current.freep \in Nodes(Current)
        /\ \A b \in DOMAIN live : Current.size[b] = heap.size[b]
    BY CurrentOK
  <2>2. /\ heap' = Current /\ pool # "NULL" /\ session = 1
        /\ UNCHANGED <<session, pool, shared_mem, pool_free_pos, largest_allocation,
                       nonces, live>>
    BY <1>5 DEF AllocFail, Usable
  <2>3. ListPart'
    BY <2>1, <2>2, HeapOKInvariantPrime
  <2>4. TypeOK'
    BY <2>1, <2>2, <2>3 DEF IInv, TypeOK, ListPart
  <2>5. Housed' /\ SessionConsistent'
    BY <2>1, <2>2 DEF IInv, Housed, SessionConsistent
  <2>6. UNCHANGED Promise!vars
    BY <2>1, <2>2 DEF Promise!vars
  <2> QED BY <2>3, <2>4, <2>5, <2>6 DEF IInv, ListPart
<1>6. ASSUME NEW b \in DOMAIN live, memmgr_free(b)
      PROVE  IInv' /\ PromiseStep
  <2> DEFINE L == DOMAIN live
  <2>1. heap.freep # NULL
    BY <1>6, NoListNoBlocks
  <2>2. HeapOK(heap, L, pool_free_pos) /\ NoneTouch(heap.size, Free(heap))
    BY <2>1, CurrentOK DEF Current
  <2>3. PICK p \in Nodes(heap) : InsertPoint(heap, b, p) /\ heap' = Insert(heap, b, p)
    BY <1>6 DEF memmgr_free
  <2>4. Between(heap, b, p)
    BY <2>3 DEF InsertPoint
  <2>5. /\ HeapOK(heap', L \ {b}, pool_free_pos) /\ NoneTouch(heap'.size, Free(heap'))
        /\ heap'.freep \in Nodes(heap')
        /\ \A x \in L \ {b} : heap'.size[x] = heap.size[x]
    <3>1. FreedOK(heap, L, pool_free_pos, b, p)
      BY <1>6, <2>2, <2>4, InsertOK
    <3> QED BY <2>3, <3>1 DEF FreedOK
  <2>6. /\ live' = [x \in L \ {b} |-> live[x]] /\ DOMAIN live' = L \ {b}
        /\ UNCHANGED <<session, pool, shared_mem, pool_free_pos, largest_allocation,
                       nonces>>
    BY <1>6 DEF memmgr_free
  <2>7. ListPart'
    BY <2>5, <2>6, HeapOKInvariantPrime
  <2>8. TypeOK'
    BY <2>5, <2>6, <2>7 DEF IInv, TypeOK, ListPart
  <2>9. Housed' /\ SessionConsistent'
    BY <1>6, <2>1, <2>5, <2>6 DEF IInv, Housed, SessionConsistent
  <2>10. Promise!Return(b)
    BY <2>5, <2>6 DEF Promise!Return
  <2> QED BY <2>7, <2>8, <2>9, <2>10 DEF IInv, ListPart, Promise!Next
<1>7. CASE (\E b \in DOMAIN live : ClientWrite(b)) \/ UNCHANGED vars
  <2>1. /\ nonces' \subseteq nonces
        /\ UNCHANGED <<session, pool, shared_mem, heap, pool_free_pos,
                       largest_allocation, live>>
    BY <1>7 DEF ClientWrite, vars
  <2>2. TypeOK'
    BY <2>1 DEF IInv, TypeOK, Nodes
  <2>3. (SessionConsistent /\ Sorted /\ Disjoint /\ Covered /\ Coalesced /\ Housed)'
    BY <2>1 DEF IInv, SessionConsistent, Sorted, Cyclic, Nodes, Disjoint, Covered,
                Coalesced, Housed, FreeBlocks, Blocks
  <2>4. UNCHANGED Promise!vars
    BY <2>1 DEF Promise!vars
  <2> QED BY <2>2, <2>3, <2>4 DEF IInv
<1> QED BY <1>1, <1>2, <1>3, <1>4, <1>5, <1>6, <1>7 DEF Next

-----------------------------------------------------------------------------
(* The theorems. *)

THEOREM Invariance == Spec => []IInv
BY InitOK, NextOK, PTL DEF Spec

\* Types are preserved, for every pool, request size and position of base.
THEOREM TypeCorrect == Spec => []TypeOK
BY Invariance, PTL DEF IInv

\* No two blocks share memory, and none lies beyond what was taken from the pool.
THEOREM NoSharedMemory == Spec => []Disjoint
BY Invariance, PTL DEF IInv

\* No quanta taken from the pool is ever lost.
THEOREM NothingLeaks == Spec => []Covered
BY Invariance, PTL DEF IInv

\* The list both search loops walk is sorted and circular.
THEOREM ListSorted == Spec => []Sorted
BY Invariance, PTL DEF IInv

\* Adjacent free blocks are always merged.
THEOREM AlwaysCoalesced == Spec => []Coalesced
BY Invariance, PTL DEF IInv

\* The three signs of a session agree.
THEOREM SessionsAgree == Spec => []SessionConsistent
BY Invariance, PTL DEF IInv

\* A client's block has the size its request came to.
THEOREM RequestsHoused == Spec => []Housed
BY Invariance, PTL DEF IInv

\* With nothing live, one free block is all there is: the tiling leaves it no
\* neighbour, and two neighbours would touch.
LEMMA OneBlock == IInv => AllFreeIsOneBlock
<1> SUFFICES ASSUME IInv, live = NoBlocks, pool_free_pos > 0
             PROVE  FreeBlocks = {0} /\ heap.size[0] = pool_free_pos
  BY DEF AllFreeIsOneBlock
<1>1. Blocks = FreeBlocks /\ FreeBlocks \subseteq Nat /\ pool_free_pos \in Nat
      /\ \A b \in FreeBlocks : heap.size[b] \in Nat
  BY PoolAssumption DEF IInv, TypeOK, NoBlocks, Blocks, FreeBlocks, Addresses
<1>2. /\ \A b \in FreeBlocks : heap.size[b] > 0 /\ b + heap.size[b] <= pool_free_pos
      /\ \A a, b \in FreeBlocks : a < b => a + heap.size[a] <= b
      /\ \A x \in 0 .. pool_free_pos - 1 :
           \E b \in FreeBlocks : b <= x /\ x < b + heap.size[b]
      /\ \A a, b \in FreeBlocks : a + heap.size[a] # b
  BY <1>1 DEF IInv, Disjoint, NoOverlap, Covered, NoGap, Coalesced, NoneTouch
<1>3. 0 \in FreeBlocks
  <2>1. PICK b \in FreeBlocks : b <= 0
    BY <1>1, <1>2
  <2> QED BY <1>1, <2>1
<1>4. heap.size[0] = pool_free_pos
  <2>1. SUFFICES ASSUME heap.size[0] < pool_free_pos PROVE FALSE
    BY <1>1, <1>2, <1>3
  <2> DEFINE x == heap.size[0]
  <2>2. PICK b \in FreeBlocks : b <= x /\ x < b + heap.size[b]
    BY <1>1, <1>2, <1>3, <2>1
  <2>3. b # 0
    BY <1>1, <1>3, <2>2
  <2>4. x <= b
    BY <1>1, <1>2, <1>3, <2>3
  <2>5. 0 + heap.size[0] = b
    BY <1>1, <1>3, <2>2, <2>4
  <2> QED BY <1>2, <1>3, <2>5
<1>5. ASSUME NEW b \in FreeBlocks, b # 0 PROVE FALSE
  <2>1. heap.size[0] <= b
    BY <1>1, <1>2, <1>3, <1>5
  <2>2. b + heap.size[b] <= pool_free_pos /\ heap.size[b] > 0
    BY <1>2
  <2> QED BY <1>1, <1>4, <2>1, <2>2
<1> QED BY <1>3, <1>4, <1>5

\* Fragmentation does not outlive the allocations that made it.
THEOREM FragmentationEnds == Spec => []AllFreeIsOneBlock
BY Invariance, OneBlock, PTL

-----------------------------------------------------------------------------
(* The search loops.  Once round the circle is every node.                 *)

\* An upper bound of the nodes.
Top == IF Base > PoolQuantas THEN Base ELSE PoolQuantas

LEMMA NodesBounded ==
  ASSUME NEW S \in SUBSET (Addresses \cup {Base})
  PROVE  /\ S \subseteq Int /\ Top \in Int /\ \A x \in S : x <= Top
         /\ IsFiniteSet(S)
<1>1. S \subseteq Int /\ Top \in Int /\ \A x \in S : x <= Top
  BY PoolAssumption, BaseAssumption DEF Addresses, Top
<1>2. IsFiniteSet(Addresses \cup {Base})
  <2>1. IsFiniteSet(0 .. PoolQuantas - 1)
    BY PoolAssumption, FS_Interval
  <2>2. IsFiniteSet({Base})
    BY FS_Singleton
  <2>3. QED
    BY <2>1, <2>2, FS_Union DEF Addresses
<1>3. IsFiniteSet(S)
  BY <1>2, FS_Subset
<1>4. QED
  BY <1>1, <1>3

\* The part of the circle a loop goes through is all of it.
LEMMA ClosedIsAll ==
  ASSUME NEW next, DOMAIN next \in SUBSET (Addresses \cup {Base}), Cyclic(next),
         NEW T \in SUBSET DOMAIN next, T # {}, \A p \in T : next[p] \in T
  PROVE  T = DOMAIN next
<1> SUFFICES ASSUME NEW x \in DOMAIN next, x \notin T PROVE FALSE
  OBVIOUS
<1>1. /\ DOMAIN next \subseteq Int /\ Top \in Int
      /\ \A y \in DOMAIN next : y <= Top
  BY NodesBounded
<1>2. \A p \in T : Follows(DOMAIN next, p, next[p]) /\ next[p] \in T
  BY DEF Cyclic
<1> DEFINE lower == {y \in T : y < x}
<1>3. CASE lower # {}
  <2>1. PICK p \in lower : \A y \in lower : y <= p
    <3>1. lower \in SUBSET Int /\ \A y \in lower : y <= Top
      BY <1>1
    <3> HIDE DEF lower
    <3>2. QED
      BY <1>1, <1>3, <3>1, GreatestInteger
  <2>2. p \in T /\ p < x /\ next[p] \in T /\ Follows(DOMAIN next, p, next[p])
    BY <1>2, <2>1
  <2>3. next[p] < x => next[p] <= p
    BY <2>1, <2>2
  <2>4. QED
    BY <1>1, <2>2, <2>3 DEF Follows
<1>4. CASE lower = {}
  <2>1. PICK p \in T : \A y \in T : y <= p
    BY <1>1, GreatestInteger
  <2>2. next[p] \in T /\ next[p] <= p /\ Follows(DOMAIN next, p, next[p])
    BY <1>2, <2>1
  <2>3. ~ (next[p] < x)
    BY <1>4, <2>2
  <2>4. QED
    BY <1>1, <2>2, <2>3 DEF Follows
<1>5. QED
  BY <1>3, <1>4

\* The recursive function Walk is what its equation says.
LEMMA WalkFacts ==
  ASSUME NEW h, h.next \in [Nodes(h) -> Nodes(h)], h.freep \in Nodes(h),
         NEW n \in Nat, n = Cardinality(Nodes(h))
  PROVE  /\ Walk(h) \in [0 .. n -> Nodes(h)]
         /\ \A i \in 1 .. n : Walk(h)[i] = h.next[Walk(h)[i - 1]]
<1> DEFINE S == Nodes(h)
           f == h.next
           a == h.freep
           F == [k \in Nat |-> f]
           Body(w) == [i \in 0 .. n |-> IF i = 0 THEN a ELSE f[w[i - 1]]]
<1>1. f \in [S -> S] /\ a \in S
  OBVIOUS
<1>2. Walk(h) = CHOOSE w : w = Body(w)
  BY DEF Walk
<1> HIDE DEF S, f, a
<1>3. PICK g : Computes(g, S, a, F, n)
  <2>1. F \in Steps(S)
    BY <1>1 DEF Steps
  <2> HIDE DEF F
  <2>2. QED
    BY <1>1, <2>1, Recursion
<1>4. g \in [0 .. n -> S] /\ g[0] = a /\ \A i \in 1 .. n : g[i] = f[g[i - 1]]
  BY <1>3 DEF Computes
<1>5. g = Body(g)
  <2>1. \A i \in 0 .. n : i = 0 \/ i \in 1 .. n
    OBVIOUS
  <2>2. QED
    BY <1>4, <2>1
<1>6. Walk(h) = Body(Walk(h))
  <2> HIDE DEF Body
  <2> QED BY <1>2, <1>5
<1> DEFINE w == Walk(h)
           Q == {i \in 0 .. n : w[i] \in S}
<1> HIDE DEF w
<1>7. /\ w = [i \in 0 .. n |-> w[i]]
      /\ w[0] = a
      /\ \A i \in 1 .. n : w[i] = f[w[i - 1]]
  BY <1>6 DEF w
<1>8. 0 .. n \subseteq Q
  <2>1. 0 \in Q
    BY <1>1, <1>7
  <2>2. ASSUME NEW k \in 0 .. n - 1, k \in Q PROVE k + 1 \in Q
    <3>1. k + 1 \in 1 .. n /\ (k + 1) - 1 = k /\ k + 1 \in 0 .. n /\ w[k] \in S
      BY <2>2
    <3>2. w[k + 1] = f[w[k]]
      BY <1>7, <3>1
    <3>3. f[w[k]] \in S
      BY <1>1, <3>1
    <3>4. QED
      BY <3>1, <3>2, <3>3
  <2> HIDE DEF Q
  <2>3. QED
    BY <2>1, <2>2, UpTo
<1>9. QED
  BY <1>7, <1>8 DEF w, S, f

\* As many steps as there are nodes lead to every node.
LEMMA WalkAll ==
  ASSUME NEW h, Nodes(h) \in SUBSET (Addresses \cup {Base}), Cyclic(h.next),
         h.next \in [Nodes(h) -> Nodes(h)], h.freep \in Nodes(h)
  PROVE  /\ Cardinality(Nodes(h)) \in Nat
         /\ Walk(h) \in [0 .. Cardinality(Nodes(h)) -> Nodes(h)]
         /\ {Walk(h)[i] : i \in 0 .. Cardinality(Nodes(h)) - 1} = Nodes(h)
<1> DEFINE n == Cardinality(Nodes(h))
           w == Walk(h)
<1>1. IsFiniteSet(Nodes(h)) /\ n \in Nat
  BY NodesBounded, FS_CardinalityType
<1>2. /\ w \in [0 .. n -> Nodes(h)]
      /\ \A i \in 1 .. n : w[i] = h.next[w[i - 1]]
  <2>1. n \in Nat /\ n = Cardinality(Nodes(h))
    BY <1>1
  <2> HIDE DEF n
  <2>2. QED
    BY <2>1, WalkFacts
<1>c. n = Cardinality(Nodes(h))
  OBVIOUS
<1> HIDE DEF n, w
<1>3. \E i, j \in 0 .. n : i # j /\ w[i] = w[j]
  <2>1. IsFiniteSet(0 .. n) /\ Cardinality(0 .. n) = n + 1
    <3>1. IsFiniteSet(0 .. n)
          /\ Cardinality(0 .. n) = IF 0 > n THEN 0 ELSE n - 0 + 1
      BY <1>1, FS_Interval
    <3>2. QED
      BY <1>1, <3>1
  <2>2. Cardinality(Nodes(h)) < Cardinality(0 .. n)
    BY <1>1, <1>c, <2>1
  <2>3. QED
    BY <1>1, <1>2, <2>1, <2>2, FS_PigeonHole
<1>4. PICK i \in 0 .. n, j \in 0 .. n : i < j /\ w[i] = w[j]
  <2>1. PICK i \in 0 .. n, j \in 0 .. n : i # j /\ w[i] = w[j]
    BY <1>3
  <2>2. CASE i < j
    BY <2>1, <2>2
  <2>3. CASE j < i
    BY <2>1, <2>3
  <2>4. QED
    BY <2>1, <2>2, <2>3
<1> DEFINE T == {w[k] : k \in i .. j - 1}
           All == {w[k] : k \in 0 .. n - 1}
<1>5. T \subseteq All /\ All \subseteq Nodes(h)
  <2>1. i .. j - 1 \subseteq 0 .. n - 1 /\ 0 .. n - 1 \subseteq 0 .. n
    BY <1>1
  <2>2. QED
    BY <1>2, <2>1
<1>6. ASSUME NEW p \in T PROVE h.next[p] \in T
  <2>1. PICK k \in i .. j - 1 : p = w[k]
    OBVIOUS
  <2>2. k + 1 \in 1 .. n /\ (k + 1) - 1 = k
    BY <1>1
  <2>3. h.next[p] = w[k + 1]
    BY <1>2, <2>1, <2>2
  <2>4. CASE k + 1 = j
    <3>1. i \in i .. j - 1
      BY <1>4
    <3>2. QED
      BY <1>4, <2>3, <2>4, <3>1
  <2>5. CASE k + 1 # j
    <3>1. k + 1 \in i .. j - 1
      BY <2>5
    <3>2. QED
      BY <2>3, <3>1
  <2>6. QED
    BY <2>4, <2>5
<1>7. T # {}
  <2>1. i \in i .. j - 1
    BY <1>4
  <2>2. QED
    BY <2>1
<1>8. T = Nodes(h)
  <2>1. DOMAIN h.next \in SUBSET (Addresses \cup {Base})
        /\ T \in SUBSET DOMAIN h.next
    BY <1>5 DEF Nodes
  <2> HIDE DEF T
  <2>2. QED
    BY <1>6, <1>7, <2>1, ClosedIsAll DEF Nodes
<1>9. All = Nodes(h)
  BY <1>5, <1>8
<1>10. QED
  BY <1>1, <1>2, <1>9 DEF n, w

\* An address that is no node has a place on the circle.
LEMMA BetweenExists ==
  ASSUME NEW h, Nodes(h) \in SUBSET (Addresses \cup {Base}), Cyclic(h.next),
         Nodes(h) # {}, NEW b \in Int, b \notin Nodes(h)
  PROVE  \E p \in Nodes(h) : Between(h, b, p)
<1> DEFINE S == Nodes(h)
           lower == {y \in S : y < b}
<1>1. /\ S \subseteq Int /\ Top \in Int /\ \A y \in S : y <= Top
      /\ \A p \in S : h.next[p] \in S /\ Follows(S, p, h.next[p])
  BY NodesBounded DEF Cyclic, Nodes
<1>2. S # {} /\ b \notin S
  OBVIOUS
<1> HIDE DEF S
<1>3. CASE lower # {}
  <2>1. PICK p \in lower : \A y \in lower : y <= p
    <3>1. lower \in SUBSET Int /\ \A y \in lower : y <= Top
      BY <1>1
    <3> HIDE DEF lower
    <3>2. QED
      BY <1>1, <1>3, <3>1, GreatestInteger
  <2>2. p \in S /\ p < b /\ h.next[p] \in S /\ h.next[p] # b
    BY <1>1, <1>2, <2>1
  <2>3. h.next[p] < b => h.next[p] <= p
    BY <2>1, <2>2
  <2> DEFINE q == h.next[p]
  <2>4. p \in Int /\ q \in Int /\ p < b /\ q # b /\ (q < b => q <= p)
    BY <1>1, <2>2, <2>3
  <2>5. Between(h, b, p)
    <3> HIDE DEF q
    <3>1. \/ b > p /\ b < q
          \/ p >= q /\ (b > p \/ b < q)
      BY <2>4
    <3>2. QED
      BY <3>1 DEF Between, q
  <2>6. QED
    BY <2>2, <2>5 DEF S
<1>4. CASE lower = {}
  <2>1. PICK p \in S : \A y \in S : y <= p
    BY <1>1, <1>2, GreatestInteger
  <2>2. h.next[p] \in S /\ h.next[p] <= p
    BY <1>1, <2>1
  <2> DEFINE q == h.next[p]
  <2>3. p \in Int /\ q \in Int /\ q <= p /\ b < q
    <3>1. p \in Int /\ q \in Int /\ q \in S /\ q <= p
      BY <1>1, <2>2
    <3>2. q # b /\ ~ (q < b)
      BY <1>2, <1>4, <3>1
    <3> HIDE DEF q
    <3>3. QED
      BY <3>1, <3>2
  <2>4. Between(h, b, p)
    BY <2>3 DEF Between
  <2>5. QED
    BY <2>1, <2>4 DEF S
<1>5. QED
  BY <1>3, <1>4

\* The search loop of memmgr_free stops there, on its first round.
LEMMA SearchEnds ==
  ASSUME NEW h, Nodes(h) \in SUBSET (Addresses \cup {Base}), Cyclic(h.next),
         h.next \in [Nodes(h) -> Nodes(h)], h.freep \in Nodes(h),
         NEW b \in Int, b \notin Nodes(h)
  PROVE  \E p \in Nodes(h) : InsertPoint(h, b, p)
<1> DEFINE n == Cardinality(Nodes(h))
           w == Walk(h)
           Q == {i \in 0 .. n : Between(h, b, w[i])}
<1>1. /\ n \in Nat /\ w \in [0 .. n -> Nodes(h)]
      /\ {w[i] : i \in 0 .. n - 1} = Nodes(h)
  BY WalkAll
<1> HIDE DEF n, w
<1>2. Q # {}
  <2>1. PICK p \in Nodes(h) : Between(h, b, p)
    BY BetweenExists
  <2>2. PICK i \in 0 .. n - 1 : w[i] = p
    BY <1>1
  <2>3. i \in 0 .. n
    BY <1>1
  <2>4. QED
    BY <2>1, <2>2, <2>3
<1>3. PICK i \in Q : \A j \in Q : i <= j
  <2>1. Q \in SUBSET Nat
    OBVIOUS
  <2> HIDE DEF Q
  <2>2. QED
    BY <1>2, <2>1, LeastNatural
<1>4. \A j \in 0 .. i - 1 : ~Between(h, b, w[j])
  <2>1. TAKE j \in 0 .. i - 1
  <2>2. j \in 0 .. n /\ ~ (i <= j)
    BY <1>1
  <2>3. QED
    BY <1>3, <2>2
<1>5. DOMAIN w = 0 .. n /\ w[i] \in Nodes(h) /\ Between(h, b, w[i])
  BY <1>1
<1>6. InsertPoint(h, b, w[i])
  BY <1>3, <1>4, <1>5 DEF InsertPoint, w
<1>7. QED
  BY <1>5, <1>6

LEMMA Searches == IInv => FreeStops /\ WalkIsComplete
<1> SUFFICES ASSUME IInv PROVE FreeStops /\ WalkIsComplete
  OBVIOUS
<1>1. CASE heap.freep = NULL
  BY <1>1, NoListNoBlocks DEF FreeStops, WalkIsComplete
<1>2. CASE heap.freep # NULL
  <2>1. /\ heap.freep \in Nodes(heap) /\ Base \in Nodes(heap)
        /\ Nodes(heap) \in SUBSET (Addresses \cup {Base})
        /\ heap.next \in [Nodes(heap) -> Nodes(heap)]
        /\ Cyclic(heap.next)
        /\ DOMAIN live \subseteq Addresses
    BY <1>2 DEF IInv, TypeOK, Sorted
  <2>2. Nodes(heap) \subseteq Int
    BY <2>1, NodesBounded
  <2>3. ASSUME NEW b \in DOMAIN live PROVE b \in Int /\ b \notin Nodes(heap)
    <3>1. b \in Addresses /\ b \notin FreeBlocks
      BY <2>1 DEF IInv, Disjoint
    <3>2. b \in Int /\ b # Base
      BY <3>1, PoolAssumption, BaseAssumption DEF Addresses
    <3>3. QED
      BY <3>1, <3>2 DEF FreeBlocks
  <2>4. FreeStops
    <3>1. SUFFICES ASSUME NEW b \in DOMAIN live
                   PROVE  /\ \E p \in Nodes(heap) : InsertPoint(heap, b, p)
                          /\ \A p, q \in Nodes(heap) :
                               Between(heap, b, p) /\ Between(heap, b, q) => p = q
      BY DEF FreeStops
    <3>2. b \in Int /\ b \notin Nodes(heap)
      BY <2>3
    <3>3. \E p \in Nodes(heap) : InsertPoint(heap, b, p)
      BY <2>1, <3>2, SearchEnds
    <3>4. \A p, q \in Nodes(heap) :
            Between(heap, b, p) /\ Between(heap, b, q) => p = q
      BY <2>1, <2>2, <3>2, OneInsertPoint
    <3>5. QED
      BY <3>3, <3>4
  <2>5. WalkIsComplete
    BY <2>1, WalkAll DEF WalkIsComplete
  <2>6. QED
    BY <2>4, <2>5
<1>3. QED
  BY <1>1, <1>2

\* The search loop of memmgr_alloc stops at a block that fits, if there is one.
LEMMA FitFound ==
  ASSUME NEW h, NEW L, NEW top, HeapOK(h, L, top), h.freep \in Nodes(h),
         NEW n \in Nat, NEW b \in Nodes(h), h.size[b] >= n
  PROVE  \E prev \in Nodes(h) : FirstFit(h, n, prev)
<1> DEFINE N == Cardinality(Nodes(h))
           w == Walk(h)
           fits(i) == h.size[h.next[w[i]]] >= n
           Q == {i \in 0 .. N : fits(i)}
           image == {h.next[p] : p \in Nodes(h)}
<1>1. /\ Nodes(h) \in SUBSET (Addresses \cup {Base}) /\ Cyclic(h.next)
      /\ h.next \in [Nodes(h) -> Nodes(h)] /\ Nodes(h) = DOMAIN h.next
      /\ \A x \in Nodes(h) : h.size[x] \in Nat
  BY DEF HeapOK, Nodes
<1>2. /\ N \in Nat /\ w \in [0 .. N -> Nodes(h)]
      /\ {w[i] : i \in 0 .. N - 1} = Nodes(h)
  BY <1>1, WalkAll
<1> HIDE DEF N, w
<1>3. \E p \in Nodes(h) : h.next[p] = b
  <2>1. image \in SUBSET DOMAIN h.next /\ image # {}
    BY <1>1
  <2>2. \A p \in image : h.next[p] \in image
    BY <1>1
  <2>3. image = DOMAIN h.next
    <3> HIDE DEF image
    <3> QED BY <1>1, <2>1, <2>2, ClosedIsAll
  <2>4. QED
    BY <1>1, <2>3
<1>4. Q # {}
  <2>1. PICK p \in Nodes(h) : h.next[p] = b
    BY <1>3
  <2>2. PICK i \in 0 .. N - 1 : w[i] = p
    BY <1>2
  <2>3. i \in 0 .. N /\ fits(i)
    BY <1>2, <2>1, <2>2
  <2> HIDE DEF fits
  <2>4. QED
    BY <2>3
<1>5. PICK i \in Q : \A j \in Q : i <= j
  <2>1. Q \in SUBSET Nat
    OBVIOUS
  <2> HIDE DEF Q
  <2>2. QED
    BY <1>4, <2>1, LeastNatural
<1>6. \A j \in 0 .. i - 1 : h.size[h.next[w[j]]] < n
  <2>1. TAKE j \in 0 .. i - 1
  <2>2. j \in 0 .. N /\ ~ (i <= j)
    BY <1>2
  <2>3. ~ fits(j)
    BY <1>5, <2>2
  <2>4. h.size[h.next[w[j]]] \in Nat
    BY <1>1, <1>2, <2>2
  <2>5. QED
    BY <2>3, <2>4
<1>7. DOMAIN w = 0 .. N /\ i \in 0 .. N /\ w[i] \in Nodes(h) /\ fits(i)
  BY <1>2
<1>8. FirstFit(h, n, w[i])
  BY <1>6, <1>7 DEF FirstFit, w
<1>9. QED
  BY <1>7, <1>8

\* The free blocks over a stretch of the pool where nothing is live are one.
LEMMA StretchIsOneBlock ==
  ASSUME NEW g, NEW L, NEW a \in Nat, NEW m \in Nat \ {0},
         HeapOK(g, L, a + m), NoneTouch(g.size, Free(g)),
         \A x \in L : x + g.size[x] <= a
  PROVE  \E f \in Free(g) : g.size[f] >= m
<1> DEFINE B == Free(g) \cup L
<1>1. /\ B \subseteq Int /\ \A x \in B : g.size[x] \in Nat
      /\ L \subseteq B /\ Free(g) \subseteq B
  BY NodesAreInt DEF Free
<1>2. /\ \A x \in B : g.size[x] > 0 /\ x + g.size[x] <= a + m
      /\ \A x, y \in B : x < y => x + g.size[x] <= y
      /\ \A x \in 0 .. a + m - 1 : \E y \in B : y <= x /\ x < y + g.size[y]
      /\ \A x, y \in Free(g) : x + g.size[x] # y
  BY DEF HeapOK, NoOverlap, NoGap, NoneTouch
<1> HIDE DEF B
<1>3. ASSUME NEW x \in a .. a + m - 1
      PROVE  \E y \in Free(g) : y <= x /\ x < y + g.size[y]
  <2>1. x \in 0 .. a + m - 1
    OBVIOUS
  <2>2. PICK y \in B : y <= x /\ x < y + g.size[y]
    BY <1>2, <2>1
  <2>3. y \notin L
    BY <1>1, <2>2
  <2>4. QED
    BY <2>2, <2>3 DEF B
<1>4. PICK f \in Free(g) : f <= a + m - 1 /\ a + m - 1 < f + g.size[f]
  <2>1. a + m - 1 \in a .. a + m - 1
    OBVIOUS
  <2>2. QED
    BY <1>3, <2>1
<1>f. f \in Int
  BY <1>1, <1>4
<1>5. f <= a
  <2>1. SUFFICES ASSUME a < f PROVE FALSE
    BY <1>f
  <2>2. f - 1 \in a .. a + m - 1
    BY <1>f, <1>4, <2>1
  <2>3. PICK y \in Free(g) : y <= f - 1 /\ f - 1 < y + g.size[y]
    BY <1>3, <2>2
  <2>4. /\ y \in B /\ f \in B /\ y \in Int /\ f \in Int
        /\ g.size[y] \in Nat /\ y < f
    <3>1. y \in B /\ f \in B /\ y \in Int /\ g.size[y] \in Nat
      BY <1>1, <1>4, <2>3
    <3>2. QED
      BY <1>f, <2>3, <3>1
  <2>5. y + g.size[y] <= f
    BY <1>2, <2>4
  <2>6. y + g.size[y] = f
    BY <2>3, <2>4, <2>5
  <2>7. QED
    BY <1>2, <2>6
<1>6. g.size[f] >= m
  <2>1. f \in Int /\ g.size[f] \in Nat
    BY <1>1
  <2>2. QED
    BY <1>4, <1>5, <2>1
<1>7. QED
  BY <1>6

LEMMA AllocAnswers == IInv => AllocReturns
<1> SUFFICES ASSUME IInv, NEW nbytes \in Requests, ~NoFit(Current, NQuantas(nbytes))
                    \/ PoolHasRoom(NQuantas(nbytes))
             PROVE  LET n == NQuantas(nbytes)
                        h == WithPoolBlock(Current, n)
                        found(g) == \E prev \in Nodes(g) : FirstFit(g, n, prev)
                    IN  \/ found(Current)
                        \/ /\ NoFit(Current, n)
                           /\ PoolHasRoom(n) =>
                                \E p \in Nodes(h) :
                                  /\ InsertPoint(h, pool_free_pos, p)
                                  /\ found(Insert(h, pool_free_pos, p))
  BY DEF AllocReturns
<1> DEFINE n == NQuantas(nbytes)
           L == DOMAIN live
           a == pool_free_pos
           m == PoolRequest(n)
           c == Current
           h == WithPoolBlock(c, n)
           g(p) == Insert(h, a, p)
<1>1. HeapOK(c, L, a) /\ NoneTouch(c.size, Free(c)) /\ c.freep \in Nodes(c)
  BY CurrentOK
<1>2. n \in Nat /\ n > 0
  BY NQuantasType
<1>3. CASE ~NoFit(c, n)
  <2>1. PICK b \in Nodes(c) : ~ (c.size[b] < n)
    BY <1>3 DEF NoFit
  <2>2. c.size[b] \in Nat
    BY <1>1, NodesAreInt
  <2>3. c.size[b] >= n
    BY <1>2, <2>1, <2>2
  <2>4. \E prev \in Nodes(c) : FirstFit(c, n, prev)
    <3> HIDE DEF c, n, L, a
    <3> QED BY <1>1, <1>2, <2>3, FitFound
  <2>5. QED
    BY <2>4
<1>4. CASE NoFit(c, n) /\ PoolHasRoom(n)
  <2>1. m \in Nat /\ m >= n /\ 0 < m /\ a + m <= PoolQuantas /\ a \in Nat
    <3>1. a \in Nat
      BY <1>1, NodesAreInt
    <3>2. QED
      BY <1>2, <1>4, <3>1, PoolAssumption DEF PoolHasRoom, PoolRequest
  <2>2. h = [next |-> c.next, size |-> Header(c.size, a, m), freep |-> c.freep]
    BY DEF WithPoolBlock
  <2>3. /\ HeapOK(h, L \cup {a}, a + m) /\ NoneTouch(h.size, Free(h))
        /\ a \in Addresses /\ a \notin L
        /\ \A x \in L : h.size[x] = c.size[x]
    <3> HIDE DEF c, n, L, a, m, h
    <3>1. HeapOK(h, L \cup {a}, a + m)
      BY <1>1, <2>1, <2>2, PoolBlockOK
    <3>2. NoneTouch(h.size, Free(h))
      <4>1. m \in Nat /\ 0 < m /\ a + m <= PoolQuantas
        BY <2>1
      <4>2. HeapOK(c, L, a) /\ NoneTouch(c.size, Free(c))
        BY <1>1
      <4>3. QED
        BY <2>2, <4>1, <4>2, PoolBlockOK
    <3>3. a \in Addresses /\ a \notin L
      <4>1. m \in Nat /\ 0 < m /\ a + m <= PoolQuantas
        BY <2>1
      <4>2. HeapOK(c, L, a) /\ NoneTouch(c.size, Free(c))
        BY <1>1
      <4>3. a \in Addresses
        BY <2>1, PoolAssumption DEF Addresses
      <4>4. a \notin L
        <5>1. NoOverlap(c.size, Free(c) \cup L, a)
          BY <4>2 DEF HeapOK
        <5>2. \A b \in Free(c) \cup L : c.size[b] \in Nat
          BY <4>2, NodesAreInt DEF Free
        <5>3. \A b \in L : c.size[b] > 0 /\ b + c.size[b] <= a
          BY <5>1 DEF NoOverlap
        <5>4. QED
          BY <2>1, <5>2, <5>3
      <4>5. QED
        BY <4>3, <4>4
    <3>4. \A x \in L : h.size[x] = c.size[x]
      <4>1. L \subseteq DOMAIN c.size
        BY <1>1 DEF HeapOK
      <4>2. QED
        BY <2>2, <3>3, <4>1 DEF Header
    <3>5. QED
      BY <3>1, <3>2, <3>3, <3>4
  <2>4. /\ Nodes(h) \in SUBSET (Addresses \cup {Base}) /\ Cyclic(h.next)
        /\ h.next \in [Nodes(h) -> Nodes(h)] /\ h.freep \in Nodes(h)
        /\ a \in Int /\ a \notin Nodes(h)
    <3>1. /\ Nodes(h) \in SUBSET (Addresses \cup {Base}) /\ Cyclic(h.next)
          /\ h.next \in [Nodes(h) -> Nodes(h)] /\ a \notin Free(h)
      BY <2>3 DEF HeapOK
    <3>2. a # Base
      BY <2>3, PoolAssumption, BaseAssumption DEF Addresses
    <3>3. h.freep \in Nodes(h)
      BY <1>1, <2>2 DEF Nodes
    <3>4. QED
      BY <2>1, <3>1, <3>2, <3>3 DEF Free
  <2>5. PICK p \in Nodes(h) : InsertPoint(h, a, p)
    <3> HIDE DEF h, a
    <3> QED BY <2>4, SearchEnds
  <2>6. Between(h, a, p)
    BY <2>5 DEF InsertPoint
  <2>7. /\ HeapOK(g(p), L, a + m) /\ NoneTouch(g(p).size, Free(g(p)))
        /\ g(p).freep \in Nodes(g(p))
        /\ \A x \in L : g(p).size[x] = h.size[x]
    <3>1. a \in L \cup {a} /\ (L \cup {a}) \ {a} = L
      BY <2>3
    <3> HIDE DEF h, a, L, m, g
    <3>2. FreedOK(h, L \cup {a}, a + m, a, p)
      BY <2>3, <2>6, <3>1, InsertOK
    <3>3. QED
      BY <3>1, <3>2 DEF FreedOK, g
  <2>8. \A x \in L : x + g(p).size[x] <= a
    <3>1. \A x \in L : x + c.size[x] <= a
      BY <1>1 DEF HeapOK, NoOverlap
    <3> HIDE DEF h, a, L, c, g
    <3>2. QED
      BY <2>3, <2>7, <3>1
  <2>9. PICK f \in Free(g(p)) : g(p).size[f] >= m
    <3> DEFINE k == g(p)
    <3>1. /\ HeapOK(k, L, a + m) /\ NoneTouch(k.size, Free(k))
          /\ \A x \in L : x + k.size[x] <= a
      BY <2>7, <2>8
    <3>2. m \in Nat \ {0} /\ a \in Nat
      BY <2>1
    <3> HIDE DEF h, a, L, m, k
    <3>3. \E f \in Free(k) : k.size[f] >= m
      BY <3>1, <3>2, StretchIsOneBlock
    <3>4. QED
      BY <3>3 DEF k
  <2>10. f \in Nodes(g(p)) /\ g(p).size[f] >= n
    <3>1. f \in Nodes(g(p))
      BY <2>9 DEF Free
    <3> HIDE DEF h, a, L, m, g, n
    <3>2. g(p).size[f] \in Nat
      BY <2>7, <3>1, NodesAreInt
    <3>3. QED
      BY <1>2, <2>1, <2>9, <3>1, <3>2
  <2>11. \E prev \in Nodes(g(p)) : FirstFit(g(p), n, prev)
    <3> HIDE DEF h, a, L, m, g, n
    <3> QED BY <1>2, <2>7, <2>10, FitFound
  <2>12. QED
    BY <1>4, <2>5, <2>11
<1>5. QED
  BY <1>3, <1>4

\* Every search ends: that of memmgr_free at the one place there is for the block,
\* that of memmgr_alloc within one round or, after that, at what the pool gave, for
\* every request, every pool and every list that the calls before have left.
THEOREM LoopsEnd == Spec => []SearchesStop
<1>1. IInv => SearchesStop
  BY Searches, AllocAnswers DEF SearchesStop
<1>2. QED
  BY Invariance, <1>1, PTL

\* memmgr implements its promise.
THEOREM Implements == Spec => ImplementsPromise
<1>1. IInv /\ [Next]_vars => [Promise!Next]_(Promise!vars)
  BY NextOK DEF PromiseStep
<1> QED BY <1>1, InitOK, Invariance, PTL DEF Spec, ImplementsPromise, Promise!Spec
=============================================================================
