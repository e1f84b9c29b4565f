SPECIFICATION Spec
CONSTANTS
  a1 = a1
  Addr = {a1}
  MsgId = {1, 2}
  From <- OneSender
  Task = {t1, t2}
  Gen = {g1}
  DefSelNum = 2
  SelNums = {0}
  MaxChain = 0
  MaxCrashes = 0
  Features = {}
  NoWork = NoWork
  Foreign = Foreign
INVARIANTS
  NonceUnique
CHECK_DEADLOCK FALSE
