SPECIFICATION ToolsSpec
CONSTANTS
    None = None
    RowId = {1, 2, 3, 4, 5, 6, 7, 9}
    Requests <- RecallCalls
    MaxK = 4
    Scale = 20
    SeedHits = 2
    SeedCap = 2
    HubMinPool = 4
    HopLimit = 2
    HopVotes <- OneVoteEach
    Floor = 3
    Memories <- FourClaims
    Queries <- SearchAnswers
    Budgets = {2, 14, 20}
    TitleChars = 3
    HeaderChars = 1
    TrimmedChars = 4
    NothingChars = 2
    LessonsReserveChars = 8
    MinBudgetChars = 10
    RelevantK = 3
    RelevantUnaimedK = 2
    LessonsK = 3
    LessonsPerTag = 1
    Scans <- ScannedSpaces
    CorrectionFloor = 7
    Cluster = 9
    MaxPool = 5
    MaxClusterMembers = 3
    MaxClusters = 1
    MaxContradictions = 2
    ClaimRows <- StoredClaims
    TextRows <- StoredTexts
    SliceRows <- StoredSlices
    NewTexts <- NewVersion
    Spaces <- TwoSpaces
    GraceStart = 2
    Asks <- References
    Row = {1, 2}
    Matches <- OneQuery
    Chain <- FirstHasHistory
    Call = {c1, c2}
    MaxPreviews = 2
    Hook = {h1, h2}
    ClaimId = {1, 2}
    Transcript = {t1}
    Tokens = {10, 13, 25}
    NudgeTokens = 12
    NudgeStep = 4
    CompactCap = 2
    MaxHooks = 3
    MaxStale = 1
    Session = {s1, s2}
    Sends <- RememberCalls
    Insights <- ReflectCalls
    UserSpace = "u"
    InitialRows <- StoredBefore
    Near = 1
    Band = 2
    ProbeK = 3
    Neighbours = 2
    MaxSends = 2
INVARIANTS
    ToolsTypeOK
    PageShared
    AnswerHonest
    BlockHonest
    ReserveHonoured
    GroupsAreComponents
    SteadyIsFound
    PagesTile
    CitationViewsAgree
    EachActWasShown
    NudgedOnce
    CompactionListsRecalled
    EveryClaimAnswered
    NearDuplicatesExcused
CHECK_DEADLOCK FALSE
