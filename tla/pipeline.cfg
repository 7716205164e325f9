\* Two workers behind a channel of one; a capture of three packets that ends or does not, and a
\* signal at any time. Once main is done the goroutines stop.
SPECIFICATION FairSpec
CONSTANTS
    Workers = {w1, w2}
    QueueSize = 1
    Packets = 3
    MaxObservations = 1
    Size = 2
    MaxTotal = 3
INVARIANT TypeOK
INVARIANT PacketsConserved
INVARIANT EndIsComplete
PROPERTY Ends
CHECK_DEADLOCK FALSE
