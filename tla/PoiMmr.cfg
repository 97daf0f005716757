SPECIFICATION FairSpec
CONSTANTS
  Changing <- SomeHeights
  FetchRange = 2
  MaxHeight = 8
  MaxCrashes = 3
INVARIANTS TypeOK RowsFormAChain LeavesFollowRows RootsAreRoots SyncNeverRefuses RootsLostOnlyByCrashes
PROPERTIES EveryHeightGetsALeaf
