SPECIFICATION Spec
CONSTANTS
    Addr <- MCAddr
    MsgId <- MCMsgId
    MethodOf <- MCMethodOf
    User <- MCUser
    Signers <- MCSigners
    ClearOf <- MCClearOf
    Caller = {"c1", "c2"}
    Goroutine = {"g1", "g2"}
    MaxInt = 3
    Width = 4
    StrictDates = FALSE
    MaxHeight = 2
    Scenes <- MCScenes
INVARIANTS
    BackendsAgree
    QueriesAgree
    PagesPartition
    LookupsAgree
    OwnMessagesOnly
    AnswersConserved
PROPERTIES
    MigrationKeepsNonce
CHECK_DEADLOCK FALSE
