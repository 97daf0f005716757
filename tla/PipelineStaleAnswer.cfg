SPECIFICATION Spec
CONSTANTS
  BatchSize = 1
  ScaleBatch = FALSE
  UseDictionary = TRUE
  QuerySize = 4
  Matches <- FewBlocks
  TemplateMatches <- TemplateBlocks
  NewDsHeights <- SecondBlock
  Lag = 0
  MaxHeight = 6
  StartBlock = 2
  FirstPollMayFail = FALSE
INVARIANTS NothingSkipped
