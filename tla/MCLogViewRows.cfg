\* The lines in the visible part are not all drawn.
SPECIFICATION Spec
CONSTANTS
    Kinds <- MCKinds
    KeepLines = 3
    Window = 2
    Height = 2
    Over = 1
    MaxAdded = 3
    MaxTs = 2
PROPERTIES VisibleAreDrawn
CHECK_DEADLOCK FALSE
