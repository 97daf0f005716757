SPECIFICATION FairSpec
CONSTANTS
  BatchSize = 1
  ScaleBatch = TRUE
  UseDictionary = FALSE
  QuerySize = 3
  Matches <- AllHeights
  TemplateMatches <- NoBlocks
  NewDsHeights <- NoBlocks
  Lag = 1
  MaxHeight = 6
  StartBlock = 2
  FirstPollMayFail = TRUE
INVARIANTS TypeOK QueuesFit PipelineInOrder NothingSkipped
PROPERTIES CommitsInOrder EveryMatchIndexed
