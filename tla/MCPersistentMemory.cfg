SPECIFICATION Spec
CONSTANTS
  Half <- MCHalf
  PageSize <- MCPageSize
  Maps <- MCMaps
  StrayTypes <- MCStrayTypes
  Stride = 10
  Filler = 99
INVARIANT PersistentMemoryIsPersistent
