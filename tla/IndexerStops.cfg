SPECIFICATION FairSpec
CONSTANTS
  Chains <- StoppingChains
  Accounts <- TwoAccounts
  Contracts <- TenContracts
  MaxCrashes = 1
PROPERTY IndexerContinues
CHECK_DEADLOCK FALSE
