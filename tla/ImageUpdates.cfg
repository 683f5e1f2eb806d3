\* Two images with a name and one without.
SPECIFICATION LiveSpec
CONSTANTS
    Images = {i1, i2, i3}
    Named = {i1, i2}
INVARIANTS
    CounterMatches
    ResultComplete
PROPERTY WorkerComesBack
\* The process ends when it panics.
CHECK_DEADLOCK FALSE
