SPECIFICATION Spec
CONSTANTS
  BatchSize = 1
  ScaleBatch = FALSE
  UseDictionary = FALSE
  QuerySize = 3
  Matches <- AllHeights
  TemplateMatches <- NoBlocks
  NewDsHeights <- ThirdBlock
  Lag = 0
  MaxHeight = 6
  StartBlock = 2
  FirstPollMayFail = FALSE
PROPERTIES CommitsInOrder
