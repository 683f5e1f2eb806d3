\* The number of running containers in the text.
SPECIFICATION Spec
CONSTANTS
    Containers = {c1}
    NumberCPU = 1
    MaxChanges = 1
    MaxTime = 1
    MaxSpent = 0
INVARIANT RunningCountIsCurrent
