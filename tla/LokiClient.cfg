\* Two streams share a channel of two lines and batches of two.
SPECIFICATION FairSpec
CONSTANTS
    Keys = {k1, k2}
    BufferSize = 2
    BatchSize = 2
    MaxSends = 2
INVARIANTS
    PathInOrder
    EveryLineAccountedFor
    BatchPushedBeforeExit
PROPERTIES
    ImplementsDelivery
    LinesLeave
    StopEnds
\* Main stops the client; afterwards nothing need happen.
CHECK_DEADLOCK FALSE
