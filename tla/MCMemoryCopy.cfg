SPECIFICATION Spec
CONSTANTS
  MemorySize = 24
  MaxLength = 13
INVARIANTS TypeOK CopyIsExact
