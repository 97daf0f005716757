SPECIFICATION FairSpec
CONSTANTS
  Chains <- TwoSends
  Accounts <- TwoAccounts
  Contracts <- TenContracts
  MaxCrashes = 0
INVARIANT EventsAreKept
CHECK_DEADLOCK FALSE
