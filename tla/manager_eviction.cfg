\* What eviction does with an asset that was never flushed.
SPECIFICATION Spec
CONSTANTS
    MACs = {m1}
    Workers = {w1}
    Facts = {f, x}
    Extras = {x}
    IPs = {ip}
    Leases = {1}
    IpGrace = 0
    OfflineAfter = 1
    EvictAfter = 1
    LoadWindow = 0
    StartTime = 2
    MaxTime = 3
    MaxPending = 1
    Inputs <- LeasedInputs
    ShardCount = 1
    ShardOf <- OneShard
    InitialRows <- RecentRow
    NoAsset = NoAsset
    NoIP = NoIP
    Idle = Idle
PROPERTY EvictedRecordPersists
CHECK_DEADLOCK FALSE
