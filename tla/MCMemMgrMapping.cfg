SPECIFICATION Spec
CONSTANTS
  NULL = NULL
  Quantum = 2
  PoolQuantas = 9
  MinPoolAlloc = 3
  Requests = {1, 3, 6}
  Base <- BaseBelow
INVARIANTS
  LiveIsMapped
