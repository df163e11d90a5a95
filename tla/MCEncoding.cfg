SPECIFICATION Spec
CONSTANTS
  Files <- MCFiles
  Texts <- MCTexts
INVARIANT EncodingIsKept
