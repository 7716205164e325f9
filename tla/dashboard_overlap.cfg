\* The user presses the button during a poll: two polls overlap.
SPECIFICATION Spec
CONSTANTS
    a1 = a1
    a2 = a2
    m1 = m1
    Assets = {a1, a2}
    Places = 2
    Second = 100
    Statuses = {"online", "offline"}
    NoRow = NoRow
    NoTime = NoTime
    AnyStatus = AnyStatus
    None = None
    Offset = Offset
    DefaultLimit = 1
    MaxLimit = 2
    PageLimit = 1
    MockRows <- MCMockRows
    InitialRows <- MCInitialRows
    LaterRows <- MCLaterRows
    MaxRequests = 2
    MaxClicks = 1
    MaxFailures = 1
    MaxCommits = 1
INVARIANT PollsDoNotOverlap
CHECK_DEADLOCK FALSE
