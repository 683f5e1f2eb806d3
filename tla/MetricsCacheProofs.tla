-------------------------- MODULE MetricsCacheProofs --------------------------
(***************************************************************************)
(* The metrics cache for any number of concurrent requests, any time to    *)
(* live and any clock.                                                     *)
(***************************************************************************)
EXTENDS MetricsCache, TLAPS

(* Once there is data there is data for ever: CacheValid, which any request *)
(* may have written, and the validity a request is about to write, are true *)
(* only after the first store.  No request holds a collection that the      *)
(* exporter does not have, so that a page cannot be older.                  *)
CacheInv ==
    /\ TypeOK
    /\ CacheData <= collected
    /\ CacheValid => CacheData > 0
    /\ \A r \in Requests :
          /\ metricsData[r] <= collected
          /\ pc[r] = "computed" /\ valid[r] => CacheData > 0
          /\ pc[r] = "read" => CacheData > 0
          /\ pc[r] \in {"store", "dashboard", "answered"} => metricsData[r] > 0
    /\ PageNotOlderThanMetrics
    /\ CollectionsAreSerial

\* It holds at first.
LEMMA InitCacheInv == Init => CacheInv
<1> SUFFICES ASSUME Init PROVE CacheInv
  OBVIOUS
<1>1. 0 \in 0 .. MaxTime
  BY TimeAssumption
<1>2. TypeOK
  BY <1>1 DEF Init, TypeOK, RequestState
<1>3. PageNotOlderThanMetrics /\ CollectionsAreSerial
  BY RequestsAssumption DEF Init, PageNotOlderThanMetrics, CollectionsAreSerial
<1> QED
  BY <1>2, <1>3 DEF Init, CacheInv

\* Each step of a request keeps the invariant.
LEMMA HandleCacheInv ==
  ASSUME CacheInv, NEW h \in Requests, Handle(h)
  PROVE  CacheInv'
<1> USE RequestsAssumption, TimeAssumption
    DEF CacheInv, TypeOK, RequestState, PageNotOlderThanMetrics, CollectionsAreSerial,
        Go, cacheVars, requestVars
<1>1. CASE ComputeValid(h)
  <2>1. IsValid \in BOOLEAN /\ (IsValid => CacheData > 0)
    BY DEF IsValid
  <2> QED
    BY <1>1, <2>1 DEF ComputeValid
<1>2. CASE WriteValid(h)
  BY <1>2 DEF WriteValid
<1>3. CASE TestValid(h)
  BY <1>3 DEF TestValid
<1>4. CASE ReadCache(h)
  BY <1>4 DEF ReadCache, AfterRefresh
<1>5. CASE LockData(h)
  BY <1>5 DEF LockData
<1>6. CASE Collect(h)
  BY <1>6 DEF Collect
<1>7. CASE Store(h)
  BY <1>7 DEF Store, AfterRefresh
<1>8. CASE ShowDashboard(h)
  BY <1>8 DEF ShowDashboard
<1> QED
  BY <1>1, <1>2, <1>3, <1>4, <1>5, <1>6, <1>7, <1>8 DEF Handle

\* The invariant of the cache holds throughout.
LEMMA CacheInvInvariant == Spec => []CacheInv
<1>1. CacheInv /\ ClockTicks => CacheInv'
  BY TimeAssumption
  DEF CacheInv, TypeOK, ClockTicks, cacheVars, requestVars, PageNotOlderThanMetrics,
      CollectionsAreSerial
<1>2. CacheInv /\ UNCHANGED vars => CacheInv'
  BY DEF CacheInv, TypeOK, vars, cacheVars, requestVars, PageNotOlderThanMetrics,
     CollectionsAreSerial
<1>3. CacheInv /\ [Next]_vars => CacheInv'
  BY <1>1, <1>2, HandleCacheInv DEF Next
<1> QED
  BY <1>3, InitCacheInv, PTL DEF Spec

\* No request is answered with nothing, whoever wrote CacheValid last.
THEOREM AnswersAreNeverEmpty == Spec => []AnswersHaveData
<1>1. CacheInv => AnswersHaveData
  BY DEF CacheInv, AnswersHaveData
<1> QED
  BY <1>1, CacheInvInvariant, PTL

\* A page shows data at least as new as the metrics of its own request.
THEOREM PagesAreCurrent == Spec => []PageNotOlderThanMetrics
<1>1. CacheInv => PageNotOlderThanMetrics
  BY DEF CacheInv
<1> QED
  BY <1>1, CacheInvInvariant, PTL

\* Collections exclude one another and each is stored by one request.
THEOREM SerialCollections == Spec => []CollectionsAreSerial
<1>1. CacheInv => CollectionsAreSerial
  BY DEF CacheInv
<1> QED
  BY <1>1, CacheInvInvariant, PTL

=============================================================================
