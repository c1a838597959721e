CONSTANTS
  Pages = {s1, s2}
  p1 = p1
  p2 = p2
  Hosts <- OneHost
  Primary = primary
  Areas = {rules, aliases}
  Named = {rules, aliases}
  Refused = {}
  Around = {aliases}
  Lifted = {aliases}
  Applied = {rules}
  Values = {old, new}
  Encoded = Encoded
SPECIFICATION Spec
SYMMETRY MCSymmetry
INVARIANTS TypeOK LonePushSyncs  
 
