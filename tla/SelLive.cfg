SPECIFICATION FairSpec
CONSTANTS
  a1 = a1
  Addr = {a1}
  MsgId = {1, 2}
  From <- OneSender
  Task = {t1}
  Gen = {g1}
  DefSelNum = 2
  SelNums = {1}
  MaxChain = 1
  MaxCrashes = 2
  Features = {"markBad", "recover", "republish", "setSelNum"}
  NoWork = NoWork
  Foreign = Foreign
INVARIANTS
  NoNonceGap
  PendingWindow
PROPERTIES
  FilledIsPublished
CHECK_DEADLOCK FALSE
