CONSTANTS
  Procs = {p1, p2}
  NoProc = NoProc
  Tries = 2
  Configs = {factory, edited}
  Default = factory
  Torn = Torn
  Missing = Missing
  NoConfig = NoConfig
  NoFile = NoFile
  Cdrom = FALSE
  Ops = {"install"}
  MaxClock = 2
SPECIFICATION Spec
PROPERTIES CacheHitIsCurrent
