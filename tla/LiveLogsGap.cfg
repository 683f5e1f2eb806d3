\* One container, one session.
SPECIFICATION Spec
CONSTANTS
    Containers = {c1}
    NoContainer = NoContainer
    Requests = {q1}
    Handlers = {h1}
    NoHandler = NoHandler
    HistoryLines = 2
    MaxLines = 3
    MaxSessions = 1
    MaxShown = 3
INVARIANT FollowHasNoGap
\* The bounds stop it.
CHECK_DEADLOCK FALSE
