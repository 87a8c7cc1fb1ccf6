------------------------------ MODULE MemSize ------------------------------
(***************************************************************************)
(* The arithmetic of memmgr_alloc and get_mem_from_pool, on unsigned longs *)
(* of the machine's width: what the first request of a session gets from a *)
(* pool of PoolSize bytes.  MemMgr counts in quantas and its requests stay *)
(* far below the width; this module says which requests those are.         *)
(***************************************************************************)
EXTENDS Integers

CONSTANTS ULong,          \* 2^32: one more than the largest unsigned long
          Header,         \* sizeof(mem_header_t)
          MinPoolAlloc,   \* MIN_POOL_ALLOC_QUANTAS
          PoolSize,       \* POOL_SIZE, in bytes
          MaxRequest      \* the largest nbytes asked for

ASSUME SizeAssumption ==
  /\ Header \in Nat \ {0} /\ MinPoolAlloc \in Nat \ {0}
  /\ ULong \in Nat /\ PoolSize \in 0 .. ULong - 1 /\ MaxRequest \in 0 .. ULong - 1

VARIABLES asked,   \* nbytes of the request
          got      \* the block: its header's place and its size; size 0 if refused

vars == <<asked, got>>

\* mutant of nquantas: no quanta for the header
nquantas_NoHeader(nbytes) == ((nbytes + Header - 1) % ULong) \div Header

nquantas(nbytes) == (((nbytes + Header - 1) % ULong) \div Header) + 1

\* the size of the block get_mem_from_pool makes, and the bytes it charges
pool_quantas(n) == IF n < MinPoolAlloc THEN MinPoolAlloc ELSE n

\* mutant of total_req_size: the header is not charged
total_req_size_NoHeader(n) == ((pool_quantas(n) - 1) * Header) % ULong

total_req_size(n) == (pool_quantas(n) * Header) % ULong

Refused == [at |-> 0, size |-> 0]

Init == asked = 0 /\ got = Refused

\* the new block is at the start of the pool, and its tail is handed out
memmgr_alloc(nbytes) ==
  LET n == nquantas(nbytes)
  IN  /\ asked' = nbytes
      /\ got' = IF total_req_size(n) <= PoolSize
                THEN [at |-> (pool_quantas(n) - n) * Header, size |-> n]
                ELSE Refused

Next == \E nbytes \in 0 .. MaxRequest : memmgr_alloc(nbytes)

Spec == Init /\ [][Next]_vars

\* "we need enough to house all the requested bytes, plus the header": the
\* block is large enough for the bytes asked for and its header.
RequestHoused == got # Refused => (got.size - 1) * Header >= asked

\* The block lies inside the pool.
BlockInPool == got # Refused => got.at + got.size * Header <= PoolSize

\* No more than one header's worth of bytes is wasted on rounding.
NoWaste == got # Refused => (got.size - 1) * Header < asked + Header

\* The rounding of memmgr_alloc and the subtraction of get_mem_from_pool agree on
\* what a block is: large enough, inside the pool, and no larger than it must be.
BlockRight == RequestHoused /\ BlockInPool /\ NoWaste
=============================================================================
