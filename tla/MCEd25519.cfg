SPECIFICATION Spec
CONSTANTS
  P = 101
  D = 29
  N = 16
  Order = 13
  Base <- TheBase
  Hash <- ToyHash
  Parties = {"owner", "shop"}
  Seeds = {1, 2}
  Scalars = {5, 40000}
  Messages = {1, 2}
  MaxShifts = 2
  MaxNonces = 2
CONSTRAINT OwnerShifts
INVARIANTS
  SignaturesVerify
  NoncesFresh
  SecretsAgree
  GroundsHold
CHECK_DEADLOCK FALSE
