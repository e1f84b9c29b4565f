SPECIFICATION Spec
CONSTANTS
  Msg = {1, 2, 3}
  From <- Sender
  NonceOf <- Nonce
  Bls = {1, 2}
  Worker = {"w1", "w2"}
  NodeId = {"n"}
  Main = "main"
  Cap = 1
  Scenes <- AllScenes
INVARIANTS
  BatchInOrder
  CacheQuiets
  OneThreadPerNode
PROPERTIES
  ReachesMain
CHECK_DEADLOCK FALSE
