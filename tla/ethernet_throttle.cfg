\* Two workers and one device that talks, dials, is talked to and asks a DHCP server; the
\* throttle and the offline threshold are two ticks of five.
SPECIFICATION Spec
CONSTANTS
    MACs = {d}
    Elsewhere = Elsewhere
    Workers = {w1, w2}
    Throttle = 2
    OfflineAfter = 2
    EvictAfter = 2
    Frames <- MCFrames
    Stored = {0, 3}
    MaxTime = 5
    Idle = Idle
    NoRecord = NoRecord
INVARIANT TypeOK
INVARIANT HeardWithinThrottle
INVARIANT OfflineMeansQuiet
SYMMETRY AnyWorker
