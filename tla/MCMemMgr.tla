------------------------------ MODULE MCMemMgr ------------------------------
(***************************************************************************)
(* Constants of the TLC runs of MemMgr, and a claim of comments that the   *)
(* code does not keep.                                                     *)
(***************************************************************************)
EXTENDS MemMgr

BaseBelow == -1  \* &base below the pool

\* getSharedMemoryArea maps two pages, whatever length it is asked for; a page
\* is two quantas here.
MappedQuantas == 2 * 2

\* memmgr.c on memmgr_init, "length should be entire length of the shared memory
\* region for the memory allocation to work right", and user_mmap_driver.h, "a
\* memory region of a certain length": what clients get is memory that is mapped.
LiveIsMapped ==
  shared_mem = "mapped" =>
    \A b \in DOMAIN live : b + heap.size[b] <= MappedQuantas
=============================================================================
