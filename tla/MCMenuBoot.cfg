SPECIFICATION BootSpec
CONSTANTS
  MaxKeys = 3
  ClearsKey = TRUE
  Files <- MCFiles
  Texts <- MCTexts
INVARIANTS BootTypeOK LoadHasAnEntry
PROPERTIES ActsOnRequest PromptAnsweredAfresh KeyIsActedUpon ImplementsMenu
