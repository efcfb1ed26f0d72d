SPECIFICATION Spec
CONSTANTS
  _prolog = _prolog  call = call  lib = lib  end = end
  Usos = {module1, module2}
  Names <- MCNames
  Elfs <- WeakElfs
  Programs <- MCPrograms
  Prohibited = {_prolog}
  Hideable = {_prolog}
  Unexported = {end}
  MaxEdits = 2
CHECK_DEADLOCK FALSE
INVARIANTS WeakKept
