SPECIFICATION EntrySpec
CONSTANTS
  Entries = 4
  AddressSpace = 32
  HighBase = 30
INVARIANTS EntryTypeOK KernelIsWhereItWasLoaded ArgumentsArrive
PROPERTY TablesStayUsable
