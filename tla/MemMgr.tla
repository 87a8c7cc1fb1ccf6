------------------------------- MODULE MemMgr -------------------------------
(***************************************************************************)
(* src/memmgr/memmgr.c: the first-fit allocator that hands out pieces of   *)
(* the memory shared with the FPGA.  Every function runs from its first to *)
(* its last line under one recursive mutex, so each is one action here.    *)
(*                                                                         *)
(* Memory is counted in quantas of sizeof(mem_header_t).  A block is named *)
(* by the address of its header, relative to the pool.  The free list is   *)
(* the circular linked list of the code: `next' maps each block on the     *)
(* list, and the static block `base' (address Base), to its successor.     *)
(* `size' is defined on the headers in use: those of list and live blocks. *)
(***************************************************************************)
EXTENDS Integers, FiniteSets

CONSTANTS
  NULL,
  Quantum,        \* sizeof(mem_header_t)
  PoolQuantas,    \* POOL_SIZE / sizeof(mem_header_t)
  MinPoolAlloc,   \* MIN_POOL_ALLOC_QUANTAS
  Requests,       \* the values of nbytes clients ask for
  Base            \* &base, in quantas from the start of the pool

ASSUME QuantumAssumption == Quantum \in Nat \ {0}
ASSUME PoolAssumption == PoolQuantas \in Nat /\ MinPoolAlloc \in Nat \ {0}
ASSUME RequestsAssumption == Requests \subseteq Nat
\* base is a static of the program: outside the pool and not touching its end
ASSUME BaseAssumption == Base \in Int /\ Base \notin 0 .. PoolQuantas
ASSUME NullAssumption == NULL \notin Int

VARIABLES
  session,             \* 0 or 1
  pool,                \* "NULL" or "mapped": the pool pointer
  shared_mem,          \* the mapping memmgr made itself and has to unmap
  heap,                \* the free list: [next, size, freep]
  pool_free_pos,       \* first quanta never handed to the free list
  largest_allocation,  \* in bytes
  nonces,              \* headers in memory that carry both nonces, for memmgr_assert
  live                 \* live[b]: the nbytes asked for by the client holding b

vars == <<session, pool, shared_mem, heap, pool_free_pos, largest_allocation,
          nonces, live>>

-----------------------------------------------------------------------------
(* The free list. *)

NoBlocks == [b \in {} |-> 0]

NoList == [next |-> NoBlocks, size |-> NoBlocks, freep |-> NULL]

\* the degenerate list made by the first memmgr_alloc of a session
BaseList == [next |-> [b \in {Base} |-> Base], size |-> [b \in {Base} |-> 0],
             freep |-> Base]

Nodes(h) == DOMAIN h.next

\* the nodes in the order a loop that starts at freep meets them
Walk(h) ==
  LET w[i \in 0 .. Cardinality(Nodes(h))] ==
        IF i = 0 THEN h.freep ELSE h.next[w[i - 1]]
  IN  w

\* mutants of Between: "or" for "and"; any block goes behind the highest
Between_Or(h, b, p) ==
  \/ b > p \/ b < h.next[p]
  \/ p >= h.next[p] /\ (b > p \/ b < h.next[p])

Between_AnyAtEnd(h, b, p) ==
  \/ b > p /\ b < h.next[p]
  \/ p >= h.next[p]

\* the exit conditions of the search loop of memmgr_free
Between(h, b, p) ==
  \/ b > p /\ b < h.next[p]
  \/ p >= h.next[p] /\ (b > p \/ b < h.next[p])

\* p is where that loop stops
InsertPoint(h, b, p) ==
  LET w == Walk(h)
  IN  \E i \in DOMAIN w : /\ w[i] = p
                          /\ Between(h, b, p)
                          /\ \A j \in 0 .. i - 1 : ~Between(h, b, w[j])

\* Take the successor of p off the list.
Unlink(next, p) ==
  [x \in DOMAIN next \ {next[p]} |-> IF x = p THEN next[next[p]] ELSE next[x]]

\* Put block b behind p.
Link(next, b, p) ==
  [x \in DOMAIN next \cup {b} |->
     IF x = p THEN b ELSE IF x = b THEN next[p] ELSE next[x]]

\* Block p swallows block q.
Absorb(size, p, q) ==
  [x \in DOMAIN size \ {q} |-> IF x = p THEN size[p] + size[q] ELSE size[x]]

\* If block p ends where its successor starts, it swallows the successor.
Merge(h, p) ==
  LET q == h.next[p]
  IN  IF p + h.size[p] = q
      THEN [next |-> Unlink(h.next, p), size |-> Absorb(h.size, p, q),
            freep |-> h.freep]
      ELSE h

Linked(h, b, p) == [next |-> Link(h.next, b, p), size |-> h.size, freep |-> p]

\* mutants of Insert: one of the two neighbours is not looked at
Insert_NoHigher(h, b, p) == Merge(Linked(h, b, p), p)
Insert_NoLower(h, b, p) == Merge(Linked(h, b, p), b)

\* Free block b behind p: combine with the higher neighbour, then the lower.
Insert(h, b, p) == Merge(Merge(Linked(h, b, p), b), p)

\* the search loop of memmgr_alloc, which looks at the successors of the nodes
\* it walks, stops with prevp = prev
FirstFit(h, n, prev) ==
  LET w == Walk(h)
  IN  \E i \in DOMAIN w : /\ w[i] = prev
                          /\ h.size[h.next[prev]] >= n
                          /\ \A j \in 0 .. i - 1 : h.size[h.next[w[j]]] < n

\* and it is back at freep without having found anything
NoFit(h, n) == \A p \in Nodes(h) : h.size[p] < n

\* the tail of n quantas at the end of block p
Tail(size, p, n) == p + (size[p] - n)

\* Give address b, where a block may start already, a header saying n.
Header(size, b, n) ==
  [x \in DOMAIN size \cup {b} |-> IF x = b THEN n ELSE size[x]]

\* mutants of Split: the head keeps its size; the tail loses its header's quanta
Split_KeepHead(size, p, n) == Header(size, Tail(size, p, n), n)
Split_NoHeader(size, p, n) ==
  Header(Header(size, p, size[p] - n), Tail(size, p, n), n - 1)

\* Cut that tail off.
Split(size, p, n) ==
  Header(Header(size, p, size[p] - n), Tail(size, p, n), n)

\* mutant of Taken: no "p += p->s.size"
Taken_Head(h, n, prev) == h.next[prev]

\* The block taken is the whole successor of prev, if it is the right size, and
\* its tail if it is too big.
Taken(h, n, prev) == Tail(h.size, h.next[prev], n)

Take(h, n, prev) ==
  LET p == h.next[prev]
  IN  IF h.size[p] = n
      THEN [next |-> Unlink(h.next, prev), size |-> h.size, freep |-> prev]
      ELSE [next |-> h.next, size |-> Split(h.size, p, n), freep |-> prev]

NQuantas(nbytes) == ((nbytes + Quantum - 1) \div Quantum) + 1

-----------------------------------------------------------------------------
(* Sessions. *)

Init ==
  /\ session = 0 /\ pool = "NULL" /\ shared_mem = "NULL"
  /\ heap = NoList /\ pool_free_pos = 0 /\ largest_allocation = 0
  /\ nonces = {} /\ live = NoBlocks

\* memmgr_init and memmgr_init_check: with a session open they do nothing
memmgr_init ==
  /\ session = 0
  /\ heap' = NoList /\ pool_free_pos' = 0 /\ pool' = "mapped" /\ session' = 1
  /\ UNCHANGED <<shared_mem, largest_allocation, nonces, live>>

\* returns -2 when a session is open and -1 when the mapping fails, changing
\* nothing
memmgr_init_check_shared_mem ==
  /\ session = 0
  /\ heap' = NoList /\ pool_free_pos' = 0 /\ pool' = "mapped" /\ session' = 1
  /\ shared_mem' = "mapped"
  /\ UNCHANGED <<largest_allocation, nonces, live>>

\* mutants of memmgr_destroy: a static is not reset
memmgr_destroy_KeepPool ==
  /\ session' = 0 /\ shared_mem' = "NULL"
  /\ heap' = NoList /\ pool_free_pos' = 0
  /\ live' = NoBlocks
  /\ UNCHANGED <<pool, largest_allocation, nonces>>

memmgr_destroy_KeepPos ==
  /\ session' = 0 /\ pool' = "NULL" /\ shared_mem' = "NULL"
  /\ heap' = NoList
  /\ live' = NoBlocks
  /\ UNCHANGED <<pool_free_pos, largest_allocation, nonces>>

memmgr_destroy ==
  /\ session' = 0 /\ pool' = "NULL" /\ shared_mem' = "NULL"
  /\ heap' = NoList /\ pool_free_pos' = 0
  /\ live' = NoBlocks
  /\ UNCHANGED <<largest_allocation, nonces>>

-----------------------------------------------------------------------------
(* Allocation and release. *)

Usable == pool # "NULL" /\ session = 1

\* the list memmgr_alloc searches
Current == IF heap.freep = NULL THEN BaseList ELSE heap

HandOut(h, n, prev, nbytes) ==
  LET t == Taken(h, n, prev)
  IN  /\ heap' = Take(h, n, prev)
      /\ live' = [b \in DOMAIN live \cup {t} |->
                    IF b = t THEN nbytes ELSE live[b]]
      /\ largest_allocation' =
           IF nbytes > largest_allocation THEN nbytes ELSE largest_allocation

AllocFit(nbytes) ==
  LET n == NQuantas(nbytes)
  IN  /\ Usable
      /\ \E prev \in Nodes(Current) :
           /\ FirstFit(Current, n, prev)
           /\ HandOut(Current, n, prev, nbytes)
      /\ UNCHANGED <<session, pool, shared_mem, pool_free_pos, nonces>>

\* mutant of PoolRequest: the quanta of the header is not counted
PoolRequest_NoHeader(n) == IF n < MinPoolAlloc THEN MinPoolAlloc ELSE n - 1

\* get_mem_from_pool: what a request takes from the pool
PoolRequest(n) == IF n < MinPoolAlloc THEN MinPoolAlloc ELSE n

PoolHasRoom(n) == pool_free_pos + PoolRequest(n) <= PoolQuantas

\* mutant of WithPoolBlock: the size asked for, not the size taken
WithPoolBlock_Asked(h, n) ==
  [next |-> h.next, size |-> Header(h.size, pool_free_pos, n), freep |-> h.freep]

WithPoolBlock(h, n) ==
  [next |-> h.next, size |-> Header(h.size, pool_free_pos, PoolRequest(n)),
   freep |-> h.freep]

\* no block fits: get_mem_from_pool frees a new block into the list, and the
\* search goes on from the freep this leaves
AllocGrow(nbytes) ==
  LET n == NQuantas(nbytes)
      h == WithPoolBlock(Current, n)
  IN  /\ Usable
      /\ NoFit(Current, n)
      /\ PoolHasRoom(n)
      /\ \E p \in Nodes(h) :
           /\ InsertPoint(h, pool_free_pos, p)
           /\ LET g == Insert(h, pool_free_pos, p)
              IN  \E prev \in Nodes(g) : /\ FirstFit(g, n, prev)
                                         /\ HandOut(g, n, prev, nbytes)
      /\ pool_free_pos' = pool_free_pos + PoolRequest(n)
      /\ nonces' = nonces \cup {pool_free_pos}
      /\ UNCHANGED <<session, pool, shared_mem>>

AllocFail(nbytes) ==
  LET n == NQuantas(nbytes)
  IN  /\ Usable
      /\ NoFit(Current, n)
      /\ ~PoolHasRoom(n)
      /\ heap' = Current
      /\ UNCHANGED <<session, pool, shared_mem, pool_free_pos,
                     largest_allocation, nonces, live>>

\* the client gives back a block it holds
memmgr_free(b) ==
  /\ pool # "NULL"
  /\ b \in DOMAIN live
  /\ \E p \in Nodes(heap) : InsertPoint(heap, b, p) /\ heap' = Insert(heap, b, p)
  /\ live' = [x \in DOMAIN live \ {b} |-> live[x]]
  /\ UNCHANGED <<session, pool, shared_mem, pool_free_pos, largest_allocation,
                 nonces>>

\* the client fills its buffer, and with it whatever headers used to be there
ClientWrite(b) ==
  /\ b \in DOMAIN live
  /\ nonces' = nonces \ (b + 1 .. b + heap.size[b] - 1)
  /\ UNCHANGED <<session, pool, shared_mem, heap, pool_free_pos,
                 largest_allocation, live>>

Next ==
  \/ memmgr_init
  \/ memmgr_init_check_shared_mem
  \/ memmgr_destroy
  \/ \E nbytes \in Requests :
       AllocFit(nbytes) \/ AllocGrow(nbytes) \/ AllocFail(nbytes)
  \/ \E b \in DOMAIN live : memmgr_free(b) \/ ClientWrite(b)

Spec == Init /\ [][Next]_vars

-----------------------------------------------------------------------------
(* Correctness. *)

Addresses == 0 .. PoolQuantas - 1
FreeBlocks == Nodes(heap) \ {Base}
Blocks == FreeBlocks \cup DOMAIN live

\* Types of the variables; before the first memmgr_alloc there is no list.
TypeOK ==
  /\ session \in {0, 1}
  /\ pool \in {"NULL", "mapped"}
  /\ shared_mem \in {"NULL", "mapped"}
  /\ heap = [next |-> heap.next, size |-> heap.size, freep |-> heap.freep]
  /\ heap.next \in [Nodes(heap) -> Nodes(heap)]
  /\ heap.size \in [Nodes(heap) \cup DOMAIN live -> Nat]
  /\ Nodes(heap) \subseteq Addresses \cup {Base}
  /\ IF heap.freep = NULL THEN Nodes(heap) = {} /\ pool_free_pos = 0
                          ELSE heap.freep \in Nodes(heap) /\ Base \in Nodes(heap)
  /\ pool_free_pos \in 0 .. PoolQuantas
  /\ largest_allocation \in Nat
  /\ nonces \subseteq Addresses
  /\ live \in [DOMAIN live -> Requests]
  /\ DOMAIN live \subseteq Addresses

\* The three variables that say "there is a session" agree, whichever of the
\* init functions opened it: the NULL test of memmgr_free and the two tests of
\* memmgr_alloc can not disagree, and a mapping is never left behind.
SessionConsistent ==
  /\ session = 1 <=> pool = "mapped"
  /\ session = 0 => shared_mem = "NULL" /\ heap.freep = NULL

\* q follows p in a circular list of nodes sorted by address.
Follows(nodes, p, q) ==
  IF p < q THEN \A r \in nodes : ~(p < r /\ r < q)
           ELSE \A r \in nodes : q <= r /\ r <= p

\* next is one circle through all its nodes, in address order.
Cyclic(next) ==
  \A p \in DOMAIN next : next[p] \in DOMAIN next /\ Follows(DOMAIN next, p, next[p])

\* The free list is sorted by address and circular: what both search loops
\* rely on to stop ("the free list is sorted by address", "is circular").
Sorted == Cyclic(heap.next) /\ (Base \in Nodes(heap) => heap.size[Base] = 0)

\* The blocks B fill the quantas 0 .. top - 1, each of them once.
NoOverlap(size, B, top) ==
  /\ \A b \in B : 0 <= b /\ size[b] > 0 /\ b + size[b] <= top
  /\ \A a, b \in B : a < b => a + size[a] <= b

NoGap(size, B, top) ==
  \A x \in 0 .. top - 1 : \E b \in B : b <= x /\ x < b + size[b]

\* No two blocks, free or live, share a quanta, and none reaches beyond what
\* memmgr_alloc has taken from the pool.
Disjoint == /\ FreeBlocks \cap DOMAIN live = {}
            /\ NoOverlap(heap.size, Blocks, pool_free_pos)

\* Nothing leaks: every quanta ever taken from the pool is in a block.
Covered == NoGap(heap.size, Blocks, pool_free_pos)

NoneTouch(size, F) == \A a, b \in F : a + size[a] # b

\* memmgr_free combines adjacent blocks: no free block touches another.
Coalesced == NoneTouch(heap.size, FreeBlocks)

\* A client's block has the size its request came to, header included.
Housed == \A b \in DOMAIN live : heap.size[b] = NQuantas(live[b])

\* The search loop of memmgr_free stops for every block a client may free, and
\* at one place only: where it starts (freep, left by any earlier call) makes
\* no difference.
FreeStops ==
  \A b \in DOMAIN live :
    /\ \E p \in Nodes(heap) : InsertPoint(heap, b, p)
    /\ \A p, q \in Nodes(heap) : Between(heap, b, p) /\ Between(heap, b, q) => p = q

\* The loop of memmgr_alloc meets every free block before it is back at freep.
WalkIsComplete ==
  heap.freep # NULL =>
    {Walk(heap)[i] : i \in 0 .. Cardinality(Nodes(heap)) - 1} = Nodes(heap)

\* A call of memmgr_alloc returns: its loop finds a block that fits, or it is
\* back at freep and the pool gives a block with which it finds one, so that it
\* never takes from the pool twice, or it returns 0.
AllocReturns ==
  Usable =>
    \A nbytes \in Requests :
      LET n == NQuantas(nbytes)
          h == WithPoolBlock(Current, n)
          found(g) == \E prev \in Nodes(g) : FirstFit(g, n, prev)
      IN  \/ found(Current)
          \/ /\ NoFit(Current, n)
             /\ PoolHasRoom(n) =>
                  \E p \in Nodes(h) : /\ InsertPoint(h, pool_free_pos, p)
                                      /\ found(Insert(h, pool_free_pos, p))

\* Every search of memmgr_alloc and memmgr_free on the free list ends, at the right
\* block and wherever earlier calls left freep, the one after a block came from the
\* pool and was merged included.
SearchesStop == FreeStops /\ WalkIsComplete /\ AllocReturns

\* When the last client has freed its last block the free list is one block
\* again, whatever the order of the frees: fragmentation does not outlive the
\* allocations that made it.
AllFreeIsOneBlock ==
  live = NoBlocks /\ pool_free_pos > 0 =>
    FreeBlocks = {0} /\ heap.size[0] = pool_free_pos

\* The allocator implements its promise.
Promise == INSTANCE Allocator WITH
  open  <- session = 1,
  held  <- [b \in DOMAIN live |-> heap.size[b]],
  Sizes <- {NQuantas(nbytes) : nbytes \in Requests}

ImplementsPromise == Promise!Spec
=============================================================================
