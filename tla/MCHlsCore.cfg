SPECIFICATION FairSpec
CONSTANTS
  Clients <- OneThread
  Programs <- AllPrograms
  Killable <- StartAndIsDone
INVARIANTS
  OwnResult
  NoPulseLost
  QuietBetweenCalls
  InOrder
PROPERTIES
  CallReturns
