\* One container, a line on each output, a channel of one line, batches of two.
SPECIFICATION FairSpec
CONSTANTS
    Containers = {c1}
    Slots = {s1}
    NoStreamer = NoStreamer
    MaxLines = 2
    BufferSize = 1
    BatchSize = 2
    MaxSends = 2
    ErrLines = {2}
    MaxChanges = 2
INVARIANTS
    ContinuesFromLastLine
    StoredAsWritten
    LossIsCounted
PROPERTIES
    LinesArrive
\* Main exits; afterwards nothing happens.
CHECK_DEADLOCK FALSE
