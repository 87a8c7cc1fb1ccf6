SPECIFICATION MCSpec
CONSTANTS
  ULong = 256
  Header = 20
  MinPoolAlloc = 4
  PoolSize = 200
  MaxRequest = 216
  Limbs = 4
  Narrow = 3
  Fold = 2
  Factor = 1217
  Registers = {f, g}
  Loads <- Unreduced
  MaxCalls = 2
  N = 16
  Multipliers <- Recodable
  Couples <- Interleavings
INVARIANTS
  BlockRight
  NumbersKept
  BytesRight
  ScalarsReduced
  ReferenceField
  SignedDigits
  UnrolledRight
  MessageHashed
  PointsRight
  EncodingRight
  MultiplesRight
  LimbsBounded
