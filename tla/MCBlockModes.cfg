SPECIFICATION Spec
CONSTANTS
  p1 = p1
  p2 = p2
  p3 = p3
  p4 = p4
  p5 = p5
  Plain <- FiveBlocks
  Iv = Iv
  E = E
  Byte = 4
  Bytes = 3
CHECK_DEADLOCK FALSE
INVARIANTS
  Chained
  KeystreamFresh
  InputKept
