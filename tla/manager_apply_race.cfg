\* Two workers and two devices in shards of their own: what is lost when both workers resolve a
\* MAC before either applies its observation.
SPECIFICATION Spec
CONSTANTS
    MACs = {m1, m2}
    Workers = {w1, w2}
    Facts = {f}
    Extras = {}
    IPs = {ip}
    Leases = {0}
    IpGrace = 0
    OfflineAfter = 1
    EvictAfter = 1
    LoadWindow = 0
    StartTime = 2
    MaxTime = 3
    MaxPending = 2
    Inputs <- BareInputs
    ShardCount = 2
    ShardOf <- SpreadShards
    InitialRows <- MCInitialRows
    NoAsset = NoAsset
    NoIP = NoIP
    Idle = Idle
PROPERTY KnowledgeNeverShrinks
CHECK_DEADLOCK FALSE
