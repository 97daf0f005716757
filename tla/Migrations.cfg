SPECIFICATION FairSpec
CONSTANTS
  Databases <- ManyDatabases
  ExpandSize = 2
  RegisterSize = 2
  MaxOutages = 2
  MaxCrashes = 1
INVARIANTS AttributesSurvive RegistrationsAgree
PROPERTIES RowsSurviveStarts NodeRunsInTheEnd
CHECK_DEADLOCK FALSE
