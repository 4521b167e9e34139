CONSTANTS
  Vars <- MCVars
  MaxCalls = 3
SPECIFICATION Spec
CHECK_DEADLOCK FALSE
INVARIANT
  BackgroundUnchanged
