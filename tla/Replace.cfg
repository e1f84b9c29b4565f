SPECIFICATION Spec
CONSTANTS
  Client = {1, 2}
  NoClient = 0
  Replacer = {"r1", "r2"}
  Select = "sel"
  Signer = {"sel", "r1", "r2"}
  Estimate <- Estimates
  BaseFee = {4, 6}
  RBFRatio = 110
  Version = {1, 2}
  Scenes <- AllScenes
INVARIANTS
  SignatureCovers
  OnChainIsExecuted
  CodeIsCurrent
  SignRetrySuffices
PROPERTIES
  SettledStays
  ReplacementAcceptable
CHECK_DEADLOCK FALSE
