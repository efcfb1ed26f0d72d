SPECIFICATION Spec
CONSTANTS
  base = base  alt = alt  user = user  peer = peer
  f = f  w = w  pro = pro  epi = epi
  Files = {base, user}
  Rom = {base, user}
  Symbols <- MCSymbols
  Prolog = pro
  Epilog = epi
  Exports <- MCExports
  Imports <- MCImports
  Weak <- MCWeak
  HasEhFrame <- MCEhFrame
  GlobalSyms = {}
  Handles = {h1, h2}
  Vars = {v1, v2}
  Global = Global
  NULL = NULL
  MaxDepth = 1
  Contract <- MCContract
INVARIANTS UnusedIsUnloaded
