SPECIFICATION FileSpec
CONSTANTS
  AddressSpace = 32
  HighBase = 24
  PageSize = 2
  MemorySize = 4
  Elves <- MCElves
  MaxEvents = 1
  Sizes <- MCSizes
  MaxSections = 3
  HeaderSize <- MCHeaderSize
  Kernels <- MCKernels
INVARIANTS FileTypeOK HeaderIsFound ImageIsLoaded ForeignMemoryIntact
