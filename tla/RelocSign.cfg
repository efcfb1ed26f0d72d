SPECIFICATION Spec
CONSTANTS
  local = local  import = import
  Half = 8
  Field = 4
  Opcode = 7
  Syms = {local, import}
  Undefined = {import}
  Addresses <- MCAddresses
  Addends <- BoundaryAddends
  Tables <- MCTables
CHECK_DEADLOCK FALSE
INVARIANTS ReachesSymbol
