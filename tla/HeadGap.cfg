SPECIFICATION Spec
CONSTANTS
  MainHeights = {0, 1, 2, 3, 4}
  ForkHeights = {2, 3, 4}
  ForkAt = 1
  Conflicts = {}
  Tipset <- TreeTipsets
  Genesis = 0
  Parent <- TreeParent
  Height <- TreeHeight
  Msg <- TreeMsgs
  Includes <- TreeIncludes
  Rivals <- TreeRivals
  GasRivals = {}
  NoTs = NoTs
  LookBackLimit = 20
  MaxStoreTipsetCount = 20
  MaxApply = 3
  MaxNotifs = 1
  MaxFaults = 0
  FeatureSets = {{"levelReorg", "batch"}}
  ColdStart = FALSE
INVARIANTS
  SettledAgrees
CHECK_DEADLOCK FALSE
