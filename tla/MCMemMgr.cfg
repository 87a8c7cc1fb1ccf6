SPECIFICATION Spec
CONSTANTS
  NULL = NULL
  Quantum = 2
  PoolQuantas = 10
  MinPoolAlloc = 3
  Requests = {1, 3, 6}
  Base <- BaseBelow
INVARIANTS
  TypeOK
  SessionConsistent
  Sorted
  Disjoint
  Covered
  Coalesced
  Housed
  SearchesStop
  AllFreeIsOneBlock
PROPERTIES
  ImplementsPromise
