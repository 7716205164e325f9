\* Two workers on one device: every interleaving of Resolve, Apply, sweep, eviction, drain
\* and commit on its shard, with late packets and leased addresses. A panic stops the process, so the system may stop.
SPECIFICATION FairSpec
CONSTANTS
    MACs = {m1}
    Workers = {w1, w2}
    Facts = {f}
    Extras = {}
    IPs = {ip}
    Leases = {1}
    IpGrace = 0
    OfflineAfter = 1
    EvictAfter = 1
    LoadWindow = 0
    StartTime = 2
    MaxTime = 3
    MaxPending = 1
    Inputs <- MixedInputs
    ShardCount = 1
    ShardOf <- OneShard
    InitialRows <- MCInitialRows
    NoAsset = NoAsset
    NoIP = NoIP
    Idle = Idle
INVARIANT TypeOK
INVARIANT ResolverMatchesMemory
INVARIANT CleanMeansHandedOver
PROPERTY LifecycleSpec
PROPERTY OnlyRacesForget
PROPERTY SilentLeavesOnline
CHECK_DEADLOCK FALSE
