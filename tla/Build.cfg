SPECIFICATION FairSpec
CONSTANTS
  _prolog = _prolog  call = call  lib = lib  end = end
  Usos = {module1, module2}
  Names <- MCNames
  Elfs <- MCElfs
  Programs <- MCPrograms
  Prohibited = {_prolog}
  Hideable = {_prolog}
  Unexported = {end}
  MaxEdits = 2
CHECK_DEADLOCK FALSE
INVARIANTS TypeOK RomIsCleanBuild RomResolves
PROPERTIES BuildCompletes
