\* One user who filters, pages, refreshes, hides the page and opens details, while a row changes
\* and a request may fail. A hidden page has no timer and may stop, until the user shows it.
SPECIFICATION FairSpec
CONSTANTS
    a1 = a1
    a2 = a2
    m1 = m1
    Assets = {a1, a2}
    Places = 2
    Second = 100
    Statuses = {"online", "offline"}
    NoRow = NoRow
    NoTime = NoTime
    AnyStatus = AnyStatus
    None = None
    Offset = Offset
    DefaultLimit = 1
    MaxLimit = 2
    PageLimit = 1
    MockRows <- MCMockRows
    InitialRows <- MCInitialRows
    LaterRows <- MCLaterRows
    MaxRequests = 2
    MaxClicks = 3
    MaxFailures = 1
    MaxCommits = 1
INVARIANT TypeOK
INVARIANT PollingGoesOn
INVARIANT FlagMeansPoll
INVARIANT PageIsComplete
INVARIANT PageIsLatest
PROPERTY TableSettles
CHECK_DEADLOCK FALSE
