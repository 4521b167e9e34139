CONSTANTS
  NTimes = 2
  GVars <- MCGVars
  MetVars <- MCMetVars
  MaxCalls = 2
SPECIFICATION Spec
INVARIANT
  NoUnsetInputReachesGSI
