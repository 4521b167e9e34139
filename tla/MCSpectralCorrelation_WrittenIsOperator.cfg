CONSTANTS
  v1 = v1
  v2 = v2
  r0 = r0
  r1 = r1
  N = 1
  NLevels = 2
  Zonal <- MCZonal
  Vars <- MCVars
  ActiveVars <- MCActiveVars
  Ranks <- MCRanks
  Root = r0
  CorrVals <- MCCorrVals
  TestFields <- MCTestFields
  TolNum = 1
  TolDen = 1000000
SPECIFICATION Spec
CHECK_DEADLOCK FALSE
PROPERTY
  WrittenIsOperator
