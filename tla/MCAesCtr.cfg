SPECIFICATION Spec
CONSTANTS
  Byte = 3
  WordBytes = 2
  Words = 2
  Block = 4
  Lens <- ShortLens
INVARIANTS
  TypeOK
  CountersAgree
  StorageIsCurrent
PROPERTIES
  ImplementsStream
