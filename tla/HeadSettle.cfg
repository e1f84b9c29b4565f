SPECIFICATION FairSpec
CONSTANTS
  MainHeights = {0, 1, 3, 4, 5, 6}
  ForkHeights = {3, 4, 5, 6}
  ForkAt = 1
  Conflicts = {1, 4}
  Tipset <- TreeTipsets
  Genesis = 0
  Parent <- TreeParent
  Height <- TreeHeight
  Msg <- TreeMsgs
  Includes <- TreeIncludes
  Rivals <- TreeRivals
  GasRivals = {4}
  NoTs = NoTs
  LookBackLimit = 20
  MaxStoreTipsetCount = 20
  MaxApply = 2
  MaxNotifs = 3
  MaxFaults = 3
  FeatureSets = {{"levelReorg", "batch"}, {"crash", "disconnect", "nodeError", "diskError", "queryError"}}
  ColdStart = FALSE
INVARIANTS
  TypeOK
  SettledAgrees
  CacheOnOneBranch
  FileIsApplied
PROPERTIES
  ExecutedIsMarked
CHECK_DEADLOCK FALSE
