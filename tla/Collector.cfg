\* Two containers over two instants, which change their states three times and
\* spend two units of CPU time.
SPECIFICATION Spec
SYMMETRY CollectorSymmetry
CONSTANTS
    Containers = {c1, c2}
    NumberCPU = 1
    MaxChanges = 3
    MaxTime = 2
    MaxSpent = 2
INVARIANTS
    MatchedSamples
    RateNotOverstated
    DataOfListed
    
