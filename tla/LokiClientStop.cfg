\* What loki.go:87 says of Stop, on one stream.
SPECIFICATION Spec
CONSTANTS
    Keys = {k1}
    BufferSize = 2
    BatchSize = 2
    MaxSends = 3
INVARIANTS
    StopSendsRemaining
CHECK_DEADLOCK FALSE
