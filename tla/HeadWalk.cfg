SPECIFICATION Spec
CONSTANTS
  MainHeights = {0, 1, 2, 4, 5}
  ForkHeights = {2, 3, 5, 6}
  ForkAt = 1
  Conflicts = {}
  Tipset <- TreeTipsets
  Genesis = 0
  Parent <- TreeParent
  Height <- TreeHeight
  Msg <- TreeMsgs
  Includes <- TreeIncludes
  Rivals <- TreeRivals
  GasRivals = {}
  NoTs = NoTs
  LookBackLimit = 4
  MaxStoreTipsetCount = 3
  MaxApply = 4
  MaxNotifs = 1
  MaxFaults = 1
  FeatureSets = {{"reorg", "batch", "crash"}, {"crash", "disconnect", "nodeError", "diskError", "lookupError", "queryError"}}
  ColdStart = TRUE
INVARIANTS
  LookAncestorsMeets
CHECK_DEADLOCK FALSE
