CONSTANTS
  Pages = {s1}
  p1 = p1
  p2 = p2
  Hosts <- TwoHosts
  Primary = primary
  Areas = {rules, nat}
  Named = {rules}
  Refused = {nat}
  Around = {}
  Lifted = {}
  Applied = {rules}
  Values = {old, new}
  Encoded = Encoded
SPECIFICATION FairSpec
INVARIANTS LonePushSyncs
PROPERTIES EveryPushEnds
