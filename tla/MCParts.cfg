\* Followed and kept lines, logins, the table of containers, frames of a log and the check of an image.
SPECIFICATION PartsSpec
CONSTANTS
    Containers = {c1, c2}
    NoContainer = NoContainer
    Requests = {q1, q2}
    Handlers = {h1}
    NoHandler = NoHandler
    HistoryLines = 2
    MaxLines = 3
    MaxSessions = 3
    MaxShown = 3
    Lifetimes = {0, 2, 9}
    SecondUnits = 4
    Width = 5
    PersistentAge = 3
    MaxTime = 6
    MaxBoots = 2
    MaxReplies = 2
    Kinds <- MCKinds
    KeepLines = 3
    Window = 2
    Height = 2
    Over = 1
    MaxAdded = 4
    MaxTs = 2
    Project <- MCProject
    Snapshots <- MCSnapshots
    MaxPolls = 2
    Contents <- MCContents
    MaxFrames = 2
    MaxFrameSize = 2
    MaxBytes = 3
    Tags <- MCTags
    MaxTags = 3
    Digests = {"d1", "d2"}
    Failed = Failed
INVARIANTS
    OneStreamOfView
    ShownInOrderOnce
    PollsLeaveNoGap
    OnlySessionsAreServed
    SessionsLast
    ForgetsTheSameLines
    FilterIsIncremental
    RowsShowTheirLines
    GroupsKeepTheirRows
    DisplayFollowsSettings
    HeadersAreFound
    AnswerIsWhole
    UpdateMeansNewer
PROPERTIES
    ClickFindsTime
SYMMETRY PartsSymmetry
\* The bounds stop it.
CHECK_DEADLOCK FALSE
