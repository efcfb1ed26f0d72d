SPECIFICATION Spec
CONSTANTS
  base = base  alt = alt  user = user  peer = peer
  f = f  w = w  pro = pro  epi = epi
  Files = {base, alt, user, peer}
  Rom = {base, alt, user, peer}
  Symbols <- MCSymbols
  Prolog = pro
  Epilog = epi
  Exports <- MCExports
  Imports <- MCImports
  Weak <- MCWeak
  HasEhFrame <- MCEhFrame
  GlobalSyms = {f}
  Handles = {h1, h2, h3, h4}
  Vars = {v1, v2}
  Global = Global
  NULL = NULL
  MaxDepth = 2
  Contract <- MCContract
SYMMETRY MCSymmetry
INVARIANTS TypeOK LoadedOnce ImportsPointEarlier RefCountExact OwnedStaysLoaded OneDefinition CallbackCodeLives EndingStaysUnused NothingOrphaned NeverHalts
PROPERTIES UnloadsOnlyUnused ImplementsLoader
