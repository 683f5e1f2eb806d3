\* Two scrapes and a page over a cache that expires twice.
SPECIFICATION FairSpec
CONSTANTS
    Requests = {r1, r2, r3}
    Dashboards = {r3}
    NoRequest = NoRequest
    TTL = 2
    MaxTime = 4
INVARIANTS
    AnswersHaveData
    PageNotOlderThanMetrics
PROPERTIES
    RequestsAreAnswered
CHECK_DEADLOCK FALSE
