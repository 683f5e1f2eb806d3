\* The check is repeated.
SPECIFICATION LiveSpec
CONSTANTS
    Images = {i1, i2}
    Named = {i1}
PROPERTY ChecksRecur
\* The process ends when it panics.
CHECK_DEADLOCK FALSE
