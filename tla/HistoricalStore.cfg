SPECIFICATION Spec
CONSTANTS
  Ids = {a, b}
  Values = {v1, v2}
  Writers = {w1, w2}
  MaxHeight = 2
SYMMETRY Symmetry
INVARIANTS NothingFromTheFuture OnlyOwnBlockConflicts
PROPERTIES ReadsAsOf ModeIsKept
