SPECIFICATION Spec
CONSTANTS
  Clients <- TwoThreads
  Programs <- Aes
  Killable = {}
INVARIANTS
  ThreadsGetOwnResult
CHECK_DEADLOCK FALSE
