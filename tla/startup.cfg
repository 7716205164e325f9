\* The start of the program under every setting, OUI file and table of assets of the instance,
\* with each stage failing or not, and started again. It stops when its lives are used up.
SPECIFICATION Spec
CONSTANTS
    a1 = a1
    a2 = a2
    v1 = v1
    v2 = v2
    Assets = {a1, a2}
    Vendors = {v1, v2}
    HexDigits = {0, 1}
    MinPrefix = 1
    MacLength = 2
    Default <- MCDefault
    Places = 2
    Second = 100
    MaxRefresh = 400
    DurationRange = 1024
    Clock <- MCClock
    Inputs <- MCInputs
    MaxPackets = 2
    MaxFlushes = 2
    MaxLives = 2
    NoVendor = NoVendor
    NoRow = NoRow
    NoConfig = NoConfig
    NoLookup = NoLookup
    NoInput = NoInput
INVARIANT TypeOK
INVARIANT VendorIsLongestPrefix
INVARIANT MemoryIsRecent
INVARIANT CountSurvivesRestart
INVARIANT FailedStartLeavesNothing
PROPERTY ConfigAsGiven
CHECK_DEADLOCK FALSE
