CONSTANTS
  MaxMembers = 2
  Draws = {0, 1}
  DriverChoices <- MCDriverChoices
  AppChoices <- MCAppChoices
  OutputChoices <- MCOutputChoices
  NoEnsemble = NoEnsemble
INIT Init
NEXT Next
CHECK_DEADLOCK FALSE
INVARIANT UpdatesWithinBumpSizes
