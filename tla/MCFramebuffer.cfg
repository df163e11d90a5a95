SPECIFICATION GopSpec
CONSTANTS
  Mode <- MCMode
  MaxModes = 3
  Sizes <- MCSizes
  MaxUintn = 9
INVARIANT WidthOrPitchIsRight
