CONSTANTS
  Procs = {p1, p2, rcbootup}
  rcbootup = rcbootup
  Configs = {}
  NoConfig = NoConfig
  first = first
  second = second
  third = third
  fourth = fourth
  fifth = fifth
  pass = pass
  block = block
  any = any
  net = net
  old = old
  new = new
  Names = {first, second, third, fourth, fifth}
  Acts = {pass, block}
  WANIF = WANIF
  LANIF = LANIF
  Ifs = {WANIF, LANIF}
  ToIf = LANIF
  Sources = {any, net}
  Garbage = Garbage
  Values = {old, new}
  Addrs = {dhcp1, dhcp2}
  NoFile = NoFile
  NoJob = NoJob
  Nothing = Nothing
  Shipped <- MCShipped
  ToAct = block
  Lists <- MCLists
  Added <- MCAdded
  ToValue = new
  Picks = {2}
  MaxJobs = 2
  MaxRuns = 3
  MaxMoves = 2
  MayFail = {"ipsec"}
SPECIFICATION Spec
SYMMETRY MCSymmetry
INVARIANTS TypeOK LoneConfigures InForceAtRest
PROPERTIES EditsExact NothingToDo
