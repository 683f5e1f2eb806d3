---------------------------- MODULE MetricsCache ----------------------------
(***************************************************************************)
(* The metrics cache of main.go (refreshMetrics) as concurrent HTTP        *)
(* requests use it: check the cache, serve it while it is valid, collect   *)
(* and store otherwise.  Two locks are involved and never held together:   *)
(* CacheMutex guards the cache, dataMu the data the exporter has collected.*)
(* The result of the check goes through the shared field CacheValid, which *)
(* is written under the read lock and read under no lock at all.           *)
(*                                                                         *)
(* A collection is known by its number: collections exclude one another,   *)
(* so that a greater number is newer data.                                 *)
(***************************************************************************)
EXTENDS Integers, FiniteSets

CONSTANTS
    Requests,     \* the requests, each handled once by a goroutine
    Dashboards,   \* those for /dashboard or /api/dashboard/refresh
    NoRequest,
    TTL,          \* CacheTTL
    MaxTime       \* bound on the clock

\* "None" is not a request.
ASSUME RequestsAssumption ==
    /\ Dashboards \subseteq Requests
    /\ NoRequest \notin Requests

\* Times are natural numbers.
ASSUME TimeAssumption == TTL \in Nat /\ MaxTime \in Nat

VARIABLES
    clock,
    CacheData,    \* the collection in the cache; 0 when there is none
    CacheTime,    \* when it was stored
    CacheValid,
    readers,      \* requests that hold CacheMutex for reading
    dataMu,       \* the request that holds dataMu for writing
    collected,    \* the newest collection of the exporter
    pc,           \* where each request is
    valid,        \* the validity a request has computed, before it is written
    metricsData,  \* what refreshMetrics returns to a request
    shown         \* the collection that DashboardData shows to a request

cacheVars   == <<CacheData, CacheTime, CacheValid>>
requestVars == <<valid, metricsData, shown>>
vars == <<clock, cacheVars, readers, dataMu, collected, pc, requestVars>>

RequestState == {"new", "computed", "checked", "read", "collect", "collecting",
                 "store", "dashboard", "answered"}

Init ==
    /\ clock = 0
    /\ CacheData = 0
    /\ CacheTime = 0
    /\ CacheValid = FALSE
    /\ readers = {}
    /\ dataMu = NoRequest
    /\ collected = 0
    /\ pc = [r \in Requests |-> "new"]
    /\ valid = [r \in Requests |-> FALSE]
    /\ metricsData = [r \in Requests |-> 0]
    /\ shown = [r \in Requests |-> 0]

Go(r, from, to) ==
    /\ pc[r] = from
    /\ pc' = [pc EXCEPT ![r] = to]

\* The time passes.
ClockTicks ==
    /\ clock < MaxTime
    /\ clock' = clock + 1
    /\ UNCHANGED <<cacheVars, readers, dataMu, collected, pc, requestVars>>

\* Mutant: an empty cache counts as valid while its time is recent.
IsValidEvenIfEmpty == clock - CacheTime < TTL

IsValid == CacheData > 0 /\ clock - CacheTime < TTL

\* RLock, and the right-hand side of the assignment to CacheValid.
ComputeValid(r) ==
    /\ Go(r, "new", "computed")
    /\ readers' = readers \cup {r}
    /\ valid' = [valid EXCEPT ![r] = IsValid]
    /\ UNCHANGED <<clock, cacheVars, dataMu, collected, metricsData, shown>>

\* The assignment and RUnlock: other requests may do the same at this time.
WriteValid(r) ==
    /\ Go(r, "computed", "checked")
    /\ CacheValid' = valid[r]
    /\ readers' = readers \ {r}
    /\ UNCHANGED <<clock, CacheData, CacheTime, dataMu, collected, requestVars>>

\* if exporter.CacheValid: by now any request may have written it.
TestValid(r) ==
    /\ Go(r, "checked", IF CacheValid THEN "read" ELSE "collect")
    /\ UNCHANGED <<clock, cacheVars, readers, dataMu, collected, requestVars>>

AfterRefresh(r) == IF r \in Dashboards THEN "dashboard" ELSE "answered"

\* The cache is read and returned.
ReadCache(r) ==
    /\ Go(r, "read", AfterRefresh(r))
    /\ metricsData' = [metricsData EXCEPT ![r] = CacheData]
    /\ UNCHANGED <<clock, cacheVars, readers, dataMu, collected, valid, shown>>

\* GetMetrics: a collection, from dataMu.Lock to its release.
LockData(r) ==
    /\ Go(r, "collect", "collecting")
    /\ dataMu = NoRequest
    /\ dataMu' = r
    /\ UNCHANGED <<clock, cacheVars, readers, collected, requestVars>>

\* Mutant: the lock is not released.
CollectForgetsUnlock(r) ==
    /\ Go(r, "collecting", "store")
    /\ collected' = collected + 1
    /\ metricsData' = [metricsData EXCEPT ![r] = collected + 1]
    /\ UNCHANGED <<clock, cacheVars, readers, dataMu, valid, shown>>

Collect(r) ==
    /\ Go(r, "collecting", "store")
    /\ collected' = collected + 1
    /\ metricsData' = [metricsData EXCEPT ![r] = collected + 1]
    /\ dataMu' = NoRequest
    /\ UNCHANGED <<clock, cacheVars, readers, valid, shown>>

\* CacheMutex.Lock: the request stores what it has collected.
Store(r) ==
    /\ Go(r, "store", AfterRefresh(r))
    /\ readers = {}
    /\ CacheData' = metricsData[r]
    /\ CacheTime' = clock
    /\ UNCHANGED <<clock, CacheValid, readers, dataMu, collected, requestVars>>

\* Mutant: the page is made from the cache.
ShowsCache(r) ==
    /\ Go(r, "dashboard", "answered")
    /\ dataMu = NoRequest
    /\ shown' = [shown EXCEPT ![r] = CacheData]
    /\ UNCHANGED <<clock, cacheVars, readers, dataMu, collected, valid, metricsData>>

\* DashboardData, under dataMu.RLock: it shows what the exporter has, not what
\* refreshMetrics has returned.
ShowDashboard(r) ==
    /\ Go(r, "dashboard", "answered")
    /\ dataMu = NoRequest
    /\ shown' = [shown EXCEPT ![r] = collected]
    /\ UNCHANGED <<clock, cacheVars, readers, dataMu, collected, valid, metricsData>>

Handle(r) ==
    \/ ComputeValid(r)
    \/ WriteValid(r)
    \/ TestValid(r)
    \/ ReadCache(r)
    \/ LockData(r)
    \/ Collect(r)
    \/ Store(r)
    \/ ShowDashboard(r)

Next == ClockTicks \/ \E r \in Requests : Handle(r)

(***************************************************************************)
(* Fairness: the runtime schedules every request and a collection ends,    *)
(* because its context expires after thirty seconds; a sync.RWMutex lets   *)
(* no one who waits for it starve.                                         *)
(***************************************************************************)
Fairness == \A r \in Requests : SF_vars(Handle(r))

Spec == Init /\ [][Next]_vars

FairSpec == Spec /\ Fairness

-----------------------------------------------------------------------------
(* Properties                                                              *)

\* Type correctness.
TypeOK ==
    /\ clock \in 0 .. MaxTime
    /\ CacheData \in Nat
    /\ CacheTime \in 0 .. MaxTime
    /\ CacheValid \in BOOLEAN
    /\ readers \in SUBSET Requests
    /\ dataMu \in Requests \cup {NoRequest}
    /\ collected \in Nat
    /\ pc \in [Requests -> RequestState]
    /\ valid \in [Requests -> BOOLEAN]
    /\ metricsData \in [Requests -> Nat]
    /\ shown \in [Requests -> Nat]

\* No answer is empty: although CacheValid may have been written by another
\* request, or for another content of the cache, it is never true before the
\* first collection is stored.
AnswersHaveData ==
    \A r \in Requests : pc[r] \in {"dashboard", "answered"} => metricsData[r] > 0

\* A page never shows older data than the metrics its own request was given,
\* although the two come from different places under different locks and other
\* requests collect in between.
PageNotOlderThanMetrics ==
    \A r \in Dashboards : pc[r] = "answered" => shown[r] >= metricsData[r]

\* Collections exclude one another, and no two requests are given the same one
\* as their own: the exporter's previous and current samples are always those
\* of two consecutive collections.
CollectionsAreSerial ==
    /\ \A r \in Requests : pc[r] = "collecting" <=> dataMu = r
    /\ \A q, r \in Requests :
          pc[q] = "store" /\ pc[r] = "store" /\ metricsData[q] = metricsData[r] => q = r

\* Every request is answered: the two locks and the storing requests that wait
\* for readers never hold one another up.
RequestsAreAnswered == \A r \in Requests : <>(pc[r] = "answered")

=============================================================================
