CONSTANTS
  Procs = {p1, p2}
  NoProc = NoProc
  Tries = 2
  Configs = {factory, edited}
  Default = factory
  Torn = Torn
  Missing = Missing
  NoConfig = NoConfig
  NoFile = NoFile
  Cdrom = FALSE
  Ops = {"save", "install", "reset"}
  MaxClock = 2
SPECIFICATION QuietSpec
CHECK_DEADLOCK FALSE
INVARIANTS WholeAtRest NewerCacheMatches SaveStored LoadedWhole NoDeath
PROPERTIES ImplementsRegister
