CONSTANTS
  Procs = {p1, p2}
  n1 = n1
  n2 = n2
  g1 = g1
  g2 = g2
  t = t
  Networks = {n1, n2}
  Gateways = {g1, g2}
  RouteTables = {t}
  DEFAULT = DEFAULT
  RouteLists <- MCRouteLists
  NoRoute = NoRoute
  NoFile = NoFile
  NoConfig = NoConfig
  Garbled = Garbled
  MaxCalls = 4
  MaxDisturbances = 1
SPECIFICATION Spec
SYMMETRY MCSymmetry
INVARIANTS TypeOK NothingLeft RoutesInPlace
PROPERTIES OthersKept
