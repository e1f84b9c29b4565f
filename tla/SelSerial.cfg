SPECIFICATION Spec
CONSTANTS
  a1 = a1
  Addr = {a1}
  MsgId = {1, 2}
  From <- OneSender
  Task = {t1}
  Gen = {g1}
  DefSelNum = 2
  SelNums = {0}
  MaxChain = 2
  MaxCrashes = 1
  Features = {"recover", "clear", "foreign", "forbid"}
  NoWork = NoWork
  Foreign = Foreign
INVARIANTS
  TypeOK
  NonceUnique
  NonceBehindAddress
  PublishedPersisted
PROPERTIES
  NonceNeverBack
  AllocSpec
CHECK_DEADLOCK FALSE
