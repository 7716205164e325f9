\* Two assets and batches of one: overflow, retries, failing storage, eviction and hydration, and
\* a signal at any time. A PCAP run whose output may fail leaves after its flush or waits for the
\* signal: it behaves in every way either mode does. The process ends, so the system may stop.
SPECIFICATION FairSpec
CONSTANTS
    a1 = a1
    a2 = a2
    Assets = {a1, a2}
    BatchSize = 1
    RetryLimit = 2
    StorageFails = TRUE
    MaxVersion <- OneChangesTwice
    OutputFails = TRUE
    Modes = {"pcap"}
INVARIANT TypeOK
 
PROPERTY StatusInOrder
 
PROPERTY SignalEndsProcess
CHECK_DEADLOCK FALSE
