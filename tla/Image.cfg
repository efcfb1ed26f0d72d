SPECIFICATION TablesSpec
CONSTANTS
  Layouts <- PaddedLayouts
  Names <- MCNames
  Tables <- MCTables
  Bases <- MCBases
  Collected <- MCCollected
  Rank <- MCRank
  NameLen <- MCNameLen
  Provided <- MCProvided
CHECK_DEADLOCK FALSE
INVARIANTS TypeOK FilePartsDisjoint TablesAligned SectionsAligned InsideAllocation SymbolsFound ImportsArrive
