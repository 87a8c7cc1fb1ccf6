SPECIFICATION FairSpec
CONSTANTS
  Clients <- OneThread
  Programs <- DirectDma
  Killable = {}
PROPERTIES
  WaitingEnds
CHECK_DEADLOCK FALSE
