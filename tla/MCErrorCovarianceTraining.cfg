CONSTANTS
  MaxMembers = 2
  Draws = {0, 1}
  DriverChoices <- MCDriverChoices
  AppChoices <- MCAppChoices
  OutputChoices <- MCOutputChoices
  NoEnsemble = NoEnsemble
SPECIFICATION FairSpec
CHECK_DEADLOCK FALSE
INVARIANTS
  TypeOK
  MembersMatchEnsembles
  CentredRandomizedEnsemble
PROPERTY
  TrainingReturns
