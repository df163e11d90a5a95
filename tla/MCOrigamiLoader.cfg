SPECIFICATION FairSpec
CONSTANTS
  MaxEvents <- MCMaxEvents
  MaxGrowth <- MCMaxGrowth
INVARIANTS TypeOK MapIsCurrent LoaderKeepsMapKey RoomForTheMap
  FailureIsReported KernelMemoryKept RequestsAnswered
PROPERTY LoadEnds
