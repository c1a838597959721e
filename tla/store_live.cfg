CONSTANTS
  Procs = {p1, p2}
  NoProc = NoProc
  Tries = 1
  Configs = {factory}
  Default = factory
  Torn = Torn
  Missing = Missing
  NoConfig = NoConfig
  NoFile = NoFile
  Cdrom = FALSE
  Ops = {"save", "install", "bare"}
  MaxClock = 0
SPECIFICATION FairSpec
INVARIANTS OneHolder
PROPERTIES EveryOperationEnds
