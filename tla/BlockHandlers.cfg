SPECIFICATION FairSpec
CONSTANTS
  Chains <- ManyChains
  Accounts <- TwoAccounts
  Contracts <- TenContracts
  MaxCrashes = 2
INVARIANTS FailuresAreRecorded CommittedBlocksAreComplete BalancesAddUp Cw20Conserved RewardsReachClaims InterfacesFit
PROPERTIES BlocksCommit
CHECK_DEADLOCK FALSE
