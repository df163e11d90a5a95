SPECIFICATION Spec
CONSTANTS
  MaxEvents <- MCMaxEvents
  MaxGrowth <- MCMaxGrowth
INVARIANT OutOfResourcesEndsTheLoad
