SPECIFICATION GopSpec
CONSTANTS
  Mode <- MCMode
  MaxModes = 3
  Sizes <- MCSizes
  MaxUintn = 9
INVARIANTS GopTypeOK ModeIsChosen ReportIsOfTheModeSet
PROPERTY OnlyFittingModesAreSet
