CONSTANTS
  Procs = {p1, p2}
  NoProc = NoProc
  Tries = 1
  Configs = {factory}
  Default = factory
  Torn = Torn
  Missing = Missing
  NoConfig = NoConfig
  NoFile = NoFile
  Cdrom = TRUE
  Ops = {"save", "reset", "bare"}
  MaxClock = 1
SPECIFICATION Spec
SYMMETRY Symmetry
INVARIANTS TypeOK StoreInv
