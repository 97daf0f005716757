SPECIFICATION FairSpec
CONSTANTS
  BatchSize = 2
  ScaleBatch = FALSE
  UseDictionary = TRUE
  QuerySize = 4
  Matches <- OldBlocks
  TemplateMatches <- NewBlocks
  NewDsHeights <- FourthBlock
  Lag = 0
  MaxHeight = 8
  StartBlock = 1
  FirstPollMayFail = FALSE
INVARIANTS QueuesFit
PROPERTIES ResetsLoseNothing
