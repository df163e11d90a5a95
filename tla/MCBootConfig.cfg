SPECIFICATION FairSpec
CONSTANTS
  Files <- MCFiles
  Texts <- MCTexts
INVARIANTS TypeOK EntryIsDescribed BootableOnSuccess HandlesClosed
PROPERTY ParsingEnds
