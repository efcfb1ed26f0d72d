SPECIFICATION TablesSpec
CONSTANTS
  Layouts <- PlainLayouts
  Names <- MCNames
  Tables <- MCTables
  Bases <- MCBases
  Collected <- MCCollected
  Rank <- MCRank
  NameLen <- MCNameLen
  Provided <- MCProvided
CHECK_DEADLOCK FALSE
INVARIANTS InsideAllocation
