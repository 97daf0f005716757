SPECIFICATION FairSpec
CONSTANTS
  Balances <- TwoBalances
  Contracts <- OneContract
  Blocks <- TwoBlocks
  BackoffLimit = 6
  MaxCrashes = 2
INVARIANTS TablesHaveKeys DoneMeansImported
PROPERTIES NothingIndexedIsLost FailsOnlyByRaceOrNull ImportCompletes
CHECK_DEADLOCK FALSE
