CONSTANTS
  Sessions = {s1, s2}
  NoNum = NoNum
  Missing = Missing
  Lines <- MCFewLines
  PassAll <- MCPassAll
  Ere <- MCEre
  Valid <- MCValid
SPECIFICATION Spec
SYMMETRY MCSymmetry
INVARIANTS TypeOK RulesInForce
PROPERTIES EmptiedByOverlap OnlyDeletedRulesGo
