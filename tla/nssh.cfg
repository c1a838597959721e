CONSTANTS
  dns = dns
  pf = pf
  rip = rip
  ftp = ftp
  plain = plain
  empty = empty
  long = long
  wrong = wrong
  cut = cut
  Sessions = {s1, s2}
  Daemons <- MCDaemons
  Dns = dns
  Reloads = {pf}
  Fileless = {ftp}
  Edited = {rip}
  Added = {pf}
  Lines = {plain, empty, long, wrong, cut}
  Blank = {empty}
  Long = {long}
  Bad = {wrong, cut}
  Spoilt = cut
  Texts <- MCTexts
  MaxGiven = 4
  NoFile = NoFile
  NoDaemon = NoDaemon
  NoText = NoText
SPECIFICATION Spec
SYMMETRY MCSymmetry
INVARIANTS TypeOK NoEditLost BootRestores BootServes DnsAgrees
