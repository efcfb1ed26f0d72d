SPECIFICATION FairSpec
CONSTANTS
  base = base  alt = alt  user = user  peer = peer
  f = f  w = w  pro = pro  epi = epi
  Files = {base, user, peer}
  Rom = {base, user, peer}
  Symbols <- MCSymbols
  Prolog = pro
  Epilog = epi
  Exports <- KnotExports
  Imports <- KnotImports
  Weak <- NoImports
  HasEhFrame <- MCEhFrame
  GlobalSyms = {w}
  Handles = {h1, h2}
  Vars = {v1, v2}
  Global = Global
  NULL = NULL
  MaxDepth = 3
  Contract = {}
INVARIANTS LoadedOnce
PROPERTIES ShutdownCompletes
CHECK_DEADLOCK FALSE
