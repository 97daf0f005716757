SPECIFICATION FairSpec
CONSTANTS
  BatchSize = 1
  ScaleBatch = FALSE
  UseDictionary = TRUE
  QuerySize = 5
  Matches <- SparseBlocks
  TemplateMatches <- NoBlocks
  NewDsHeights <- NoBlocks
  Lag = 0
  MaxHeight = 8
  StartBlock = 2
  FirstPollMayFail = FALSE
INVARIANTS QueuesFit PipelineInOrder NothingSkipped
PROPERTIES CommitsInOrder EveryMatchIndexed
