\* One container of one line, a streamer and its predecessor.
SPECIFICATION FairSpec
CONSTANTS
    Containers = {c1}
    Slots = {s1, s2}
    NoStreamer = NoStreamer
    MaxLines = 1
INVARIANTS
    NoOrphanStreamer
    MapHoldsWorkingStreamers
PROPERTIES
    CancelledStreamersEnd
    RunWindsUp
    RunningContainersAreCollected
    StoppedContainersAreLeft
