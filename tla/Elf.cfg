SPECIFICATION ObjectSpec
CONSTANTS
  Names = {"a", "b"}
  NoName = ""
  Hash <- MCHash
  Buckets = 2
  FilterBits = 4
  FilterShift = 2
  MaxSymbols = 4
  MaxEntries = 2
  EhdrSize = 13
  PhdrSize = 8
  ShdrSize = 10
  NameSize = 2
  SymSize = 4
  RelSize = 2
  Recipes <- MCRecipes
  Templates <- MCTemplates
  Foreign <- MCForeign
  Cuts <- MCCuts
  MaxSegments = 2
  MaxSize = 3
  MaxSaves = 2
INVARIANTS SymTypeOK EntriesFollow LocalsFirst LookupFinds DataFits PartsDisjoint SegmentsMap AcceptedIsWhole SectionsFound
PROPERTIES GoesBack SavedAgain SaveEnds
CHECK_DEADLOCK FALSE
