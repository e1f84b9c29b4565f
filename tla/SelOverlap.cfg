SPECIFICATION Spec
CONSTANTS
  a1 = a1
  Addr = {a1}
  MsgId = {1}
  From <- OneSender
  Task = {t1, t2}
  Gen = {g1, g2}
  DefSelNum = 2
  SelNums = {0}
  MaxChain = 0
  MaxCrashes = 1
  Features = {"deleteAddress", "updateNonce", "updateState"}
  NoWork = NoWork
  Foreign = Foreign
INVARIANTS
  OneSelectionPerAddr
  TokenHeldBySelection
SYMMETRY Symmetry
CHECK_DEADLOCK FALSE
