CONSTANTS
  Sessions = {s1}
  NoNum = NoNum
  Missing = Missing
  Lines <- MCFewLines
  PassAll <- MCPassAll
  Ere <- MCEre
  Valid <- MCValid
SPECIFICATION Spec
PROPERTIES RefusedIfPresent
