CONSTANTS
  Requests = {r1, r2}
  rcbootup = rcbootup
  Default = Default
  Tables <- MCTables
  guests = guests
  v1 = v1
  v2 = v2
  bad = bad
  Values = {v1, v2, bad}
  Refused = {bad}
  Changes <- MCChanges
  Off = Off
  Gone = Gone
  MaxPid = 8
  NoPid = NoPid
  NoProc = NoProc
  Initially <- MCInitially
  MaxGiven = 2
SPECIFICATION Spec
SYMMETRY MCSymmetry
INVARIANTS TypeOK LoneCallServes CalmServes PidFileNamesItsOwn
