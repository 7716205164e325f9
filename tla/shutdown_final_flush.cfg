\* A live run with room for every asset in one batch and storage that never fails: what the
\* final flush leaves unwritten.
SPECIFICATION Spec
CONSTANTS
    a1 = a1
    a2 = a2
    Assets = {a1}
    BatchSize = 2
    RetryLimit = 1
    StorageFails = FALSE
    MaxVersion <- OneChange
    OutputFails = FALSE
    Modes = {"live"}
INVARIANT ShutdownSavesAll
CHECK_DEADLOCK FALSE
