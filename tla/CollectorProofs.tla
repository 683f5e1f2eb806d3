-------------------------- MODULE CollectorProofs --------------------------
(***************************************************************************)
(* Collector for any containers, any number of collections and any bounds: *)
(* the types, the window of the rates, what a rate and the share of the    *)
(* host may show, and that the data of a collection are of the containers  *)
(* it listed.                                                              *)
(***************************************************************************)
EXTENDS Collector, Sums, FiniteSetTheorems, TLAPS

----------------------------------------------------------------------------
(* Types.  The counter of a container is part of all it has spent.         *)

\* The values that the variables may have.
TypeInv ==
    /\ TypeOK
    /\ \A c \in Containers : used[c] <= spent[c]

\* It holds at first.
LEMMA InitTypes == Init => TypeInv
<1> SUFFICES ASSUME Init PROVE TypeInv
  OBVIOUS
<1> USE BoundsAssumption
<1>1. Empty \in [DOMAIN Empty -> Sample] /\ DOMAIN Empty = {}
  BY DEF Empty
<1>2. Empty \in [DOMAIN Empty -> ContainerState]
  BY DEF Empty
<1>3. Cardinality(Running) \in Nat
  BY ContainersAssumption, FS_Subset, FS_CardinalityType DEF Running
<1>4. 0 \in 0 .. MaxSpent /\ 1 \in 1 .. MaxTime /\ 0 \in 0 .. 1 /\ 0 \in Nat
  OBVIOUS
<1> QED
  BY <1>1, <1>2, <1>3, <1>4 DEF Init, TypeInv, TypeOK, AreSamples

\* Each step keeps it.
LEMMA NextTypes == TypeInv /\ [Next]_vars => TypeInv'
<1> SUFFICES ASSUME TypeInv, [Next]_vars PROVE TypeInv'
  OBVIOUS
<1> USE BoundsAssumption DEF TypeInv, TypeOK
<1>1. CASE ClockTicks
  BY <1>1 DEF ClockTicks, dockerVars, callVars, listVars, windowVars, AreSamples
<1>2. ASSUME NEW c \in Containers, ContainerChanges(c) PROVE TypeInv'
  BY <1>2 DEF ContainerChanges, callVars, listVars, windowVars, AreSamples
<1>3. ASSUME NEW c \in Containers, ContainerSpends(c) PROVE TypeInv'
  BY <1>3 DEF ContainerSpends, callVars, listVars, windowVars, AreSamples
<1>4. ASSUME NEW c \in Containers, StatisticsFail(c) PROVE TypeInv'
  BY <1>4 DEF StatisticsFail, dockerVars, listVars, windowVars, AreSamples
<1>5. ASSUME NEW c \in Containers, StatisticsArrive(c) PROVE TypeInv'
  <2>1. PICK read \in BOOLEAN :
           results' = [d \in DOMAIN results \cup {c} |->
                         IF d = c THEN SampleNow(c, read) ELSE results[d]]
    BY <1>5 DEF StatisticsArrive
  <2>2. SampleNow(c, read) \in Sample
    BY DEF SampleNow, Sample
  <2>3. AreSamples(results)'
    BY <2>1, <2>2 DEF AreSamples
  <2> QED
    BY <1>5, <2>3 DEF StatisticsArrive, dockerVars, listVars, windowVars, AreSamples
<1>6. CASE Begin
  BY <1>6 DEF Begin, SavePrevious, dockerVars, listVars, AreSamples
<1>7. CASE ListFails
  <2>1. Empty \in [DOMAIN Empty -> Sample] /\ DOMAIN Empty = {}
    BY DEF Empty
  <2>2. Empty \in [DOMAIN Empty -> ContainerState]
    BY DEF Empty
  <2> QED
    BY <1>7, <2>1, <2>2 DEF ListFails, ForgetList, AskStatistics, dockerVars, windowVars,
                            AreSamples
<1>8. CASE ListAnswers
  <2>1. Empty \in [DOMAIN Empty -> Sample] /\ DOMAIN Empty = {}
    BY DEF Empty
  <2> QED
    BY <1>8, <2>1 DEF ListAnswers, Running, AskStatistics, dockerVars, windowVars, AreSamples
<1>9. CASE Gather
  <2>1. Empty \in [DOMAIN Empty -> Sample] /\ DOMAIN Empty = {}
    BY DEF Empty
  <2> QED
    BY <1>9, <2>1 DEF Gather, dockerVars, listVars, windowVars, AreSamples
<1>10. CASE Inspect
  BY <1>10 DEF Inspect, Inspected, dockerVars, listVars, windowVars, AreSamples
<1>11. CASE UNCHANGED vars
  BY <1>11 DEF vars, dockerVars, callVars, listVars, windowVars, AreSamples
<1> QED
  BY <1>1, <1>2, <1>3, <1>4, <1>5, <1>6, <1>7, <1>8, <1>9, <1>10, <1>11 DEF Next

\* Types of the collector: TypeOK is an invariant.
THEOREM TypeCorrect == Spec => []TypeOK
<1>1. TypeInv => TypeOK
  BY DEF TypeInv
<1> QED
  BY InitTypes, NextTypes, <1>1, PTL DEF Spec

----------------------------------------------------------------------------
(* The window of the rates.                                                *)

\* While a collection runs, the old samples are those of the collection that
\* was saved; before, they are those of the last collection.
WindowInv ==
    /\ MatchedSamples
    /\ \A c \in DOMAIN results : results[c].at = cpuCurrentTime
    /\ pc # "stats" => DOMAIN results = {}

\* It holds at first.
LEMMA InitWindow == Init => WindowInv
  BY DEF Init, WindowInv, MatchedSamples, Empty

\* Each step keeps it.
LEMMA NextWindow == WindowInv /\ [Next]_vars => WindowInv'
<1> SUFFICES ASSUME WindowInv, [Next]_vars PROVE WindowInv'
  OBVIOUS
<1> USE DEF WindowInv, MatchedSamples
<1>1. CASE ClockTicks
  BY <1>1 DEF ClockTicks, callVars, windowVars
<1>2. ASSUME NEW c \in Containers, ContainerChanges(c) PROVE WindowInv'
  BY <1>2 DEF ContainerChanges, callVars, windowVars
<1>3. ASSUME NEW c \in Containers, ContainerSpends(c) PROVE WindowInv'
  BY <1>3 DEF ContainerSpends, callVars, windowVars
<1>4. ASSUME NEW c \in Containers, StatisticsFail(c) PROVE WindowInv'
  BY <1>4 DEF StatisticsFail, windowVars
<1>5. ASSUME NEW c \in Containers, StatisticsArrive(c) PROVE WindowInv'
  <2>1. PICK read \in BOOLEAN :
           results' = [d \in DOMAIN results \cup {c} |->
                         IF d = c THEN SampleNow(c, read) ELSE results[d]]
    BY <1>5 DEF StatisticsArrive
  <2>2. SampleNow(c, read).at = cpuCurrentTime
    BY DEF SampleNow
  <2> QED
    BY <1>5, <2>1, <2>2 DEF StatisticsArrive, windowVars
<1>6. CASE Begin
  BY <1>6 DEF Begin, SavePrevious
<1>7. CASE ListFails \/ ListAnswers
  BY <1>7 DEF ListFails, ListAnswers, AskStatistics, windowVars, Empty
<1>8. CASE Gather
  BY <1>8 DEF Gather, windowVars, Empty
<1>9. CASE Inspect
  BY <1>9 DEF Inspect, windowVars
<1>10. CASE UNCHANGED vars
  BY <1>10 DEF vars, callVars, windowVars
<1> QED
  BY <1>1, <1>2, <1>3, <1>4, <1>5, <1>6, <1>7, <1>8, <1>9, <1>10 DEF Next

\* The interval that divides a rate is the one between its two samples, for
\* any number of skipped collections in between (metrics.go 410-425).
THEOREM WindowOfRates == Spec => []MatchedSamples
<1>1. WindowInv => MatchedSamples
  BY DEF WindowInv
<1> QED
  BY InitWindow, NextWindow, <1>1, PTL DEF Spec

----------------------------------------------------------------------------
(* What a rate may show.                                                   *)

\* The counter of a container grows by no more than it spends.
Behind(s) ==
    \A c \in DOMAIN s :
        /\ s[c].spent <= spent[c]
        /\ s[c].read => used[c] <= s[c].cpu + (spent[c] - s[c].spent)

\* The samples of the running collection, against those of the previous one.
Honest(s) ==
    \A c \in DOMAIN s \cap DOMAIN previousMetrics :
        /\ previousMetrics[c].spent <= s[c].spent
        /\ previousMetrics[c].read =>
              s[c].cpu <= previousMetrics[c].cpu + (s[c].spent - previousMetrics[c].spent)

\* Since a sample was taken, a counter has grown by no more than was spent.
RateInv ==
    /\ Behind(results)
    /\ Behind(baseMetrics)
    /\ Behind(previousMetrics)
    /\ Honest(results)
    /\ pc \in {"free", "inspect"} => Honest(baseMetrics)

\* Time and calls change neither samples nor counters.
LEMMA SameSamples ==
    ASSUME RateInv, UNCHANGED <<used, spent, results, baseMetrics, previousMetrics>>,
           pc' \in {"free", "inspect"} => pc \in {"free", "inspect"}
    PROVE  RateInv'
  BY DEF RateInv, Behind, Honest

\* A counter that moves with what is spent, or is reset, stays behind.
LEMMA CounterMoves ==
    ASSUME NEW s, AreSamples(s), Behind(s), TypeInv,
           NEW c \in Containers, NEW d \in 0 .. 1,
           spent' = [spent EXCEPT ![c] = @ + d],
           \/ used' = [used EXCEPT ![c] = @ + d]
           \/ d = 0 /\ used' = [used EXCEPT ![c] = 0]
    PROVE  \A x \in DOMAIN s :
              /\ s[x].spent <= spent'[x]
              /\ s[x].read => used'[x] <= s[x].cpu + (spent'[x] - s[x].spent)
<1> SUFFICES ASSUME NEW x \in DOMAIN s
             PROVE  /\ s[x].spent <= spent'[x]
                    /\ s[x].read => used'[x] <= s[x].cpu + (spent'[x] - s[x].spent)
  OBVIOUS
<1>1. x \in Containers /\ s[x].spent \in Nat /\ s[x].cpu \in Nat
  BY DEF AreSamples, Sample
<1>2. /\ used[x] \in Nat /\ spent[x] \in Nat
      /\ s[x].spent <= spent[x]
      /\ s[x].read => used[x] <= s[x].cpu + (spent[x] - s[x].spent)
  BY <1>1, BoundsAssumption DEF Behind, TypeInv, TypeOK
<1>3. CASE x # c
  <2>1. used'[x] = used[x] /\ spent'[x] = spent[x]
    BY <1>1, <1>3 DEF TypeInv, TypeOK
  <2> QED
    BY <1>2, <2>1
<1>4. CASE x = c
  <2>1. spent'[x] = spent[x] + d
    BY <1>1, <1>4 DEF TypeInv, TypeOK
  <2>2. used'[x] = used[x] + d \/ (d = 0 /\ used'[x] = 0)
    BY <1>1, <1>4 DEF TypeInv, TypeOK
  <2> QED
    BY <1>1, <1>2, <2>1, <2>2
<1> QED
  BY <1>3, <1>4

\* It holds at first.
LEMMA InitRate == Init => RateInv
  BY DEF Init, RateInv, Behind, Honest, Empty

\* Each step keeps it.
LEMMA NextRate == TypeInv /\ TypeInv' /\ WindowInv /\ RateInv /\ [Next]_vars => RateInv'
<1> SUFFICES ASSUME TypeInv, TypeInv', WindowInv, RateInv, [Next]_vars PROVE RateInv'
  OBVIOUS
<1>1. CASE ClockTicks
  BY <1>1, SameSamples DEF ClockTicks, dockerVars, callVars, windowVars
<1>2. ASSUME NEW c \in Containers, NEW d \in 0 .. 1,
             spent' = [spent EXCEPT ![c] = @ + d],
             \/ used' = [used EXCEPT ![c] = @ + d]
             \/ d = 0 /\ used' = [used EXCEPT ![c] = 0],
             UNCHANGED <<pc, results, baseMetrics, previousMetrics>>
      PROVE  RateInv'
  <2>1. AreSamples(results) /\ AreSamples(baseMetrics) /\ AreSamples(previousMetrics)
    BY DEF TypeInv, TypeOK
  <2>2. Behind(results) /\ Behind(baseMetrics) /\ Behind(previousMetrics)
    BY DEF RateInv
  <2>3. Behind(results)'
    BY <1>2, <2>1, <2>2, CounterMoves DEF Behind
  <2>4. Behind(baseMetrics)'
    BY <1>2, <2>1, <2>2, CounterMoves DEF Behind
  <2>5. Behind(previousMetrics)'
    BY <1>2, <2>1, <2>2, CounterMoves DEF Behind
  <2> QED
    BY <1>2, <2>3, <2>4, <2>5 DEF RateInv, Honest
<1>3. ASSUME NEW c \in Containers, ContainerChanges(c) PROVE RateInv'
  <2>a. /\ used \in [Containers -> Int] /\ spent \in [Containers -> Int]
        /\ used[c] \in Int /\ spent[c] \in Int
    BY BoundsAssumption DEF TypeInv, TypeOK
  <2>b. used[c] + 0 = used[c] /\ spent[c] + 0 = spent[c]
    BY <2>a
  <2>1. spent' = [spent EXCEPT ![c] = @ + 0]
    BY <1>3, <2>a, <2>b DEF ContainerChanges
  <2>2. used' = [used EXCEPT ![c] = @ + 0] \/ used' = [used EXCEPT ![c] = 0]
    <3>1. PICK s : used' = [used EXCEPT ![c] =
                              IF {docker[c], s} = {"running", "paused"} THEN @ ELSE 0]
      BY <1>3 DEF ContainerChanges
    <3> QED
      BY <2>a, <2>b, <3>1
  <2>3. 0 \in 0 .. 1
    OBVIOUS
  <2>4. UNCHANGED <<pc, results, baseMetrics, previousMetrics>>
    BY <1>3 DEF ContainerChanges, callVars, windowVars
  <2> QED
    BY <1>2, <2>1, <2>2, <2>3, <2>4
<1>4. ASSUME NEW c \in Containers, ContainerSpends(c) PROVE RateInv'
  <2>1. 1 \in 0 .. 1
    OBVIOUS
  <2>2. /\ spent' = [spent EXCEPT ![c] = @ + 1]
        /\ used' = [used EXCEPT ![c] = @ + 1]
        /\ UNCHANGED <<pc, results, baseMetrics, previousMetrics>>
    BY <1>4 DEF ContainerSpends, callVars, windowVars
  <2> QED
    BY <1>2, <2>1, <2>2
<1>5. ASSUME NEW c \in Containers, StatisticsFail(c) PROVE RateInv'
  BY <1>5, SameSamples DEF StatisticsFail, dockerVars, windowVars
<1>6. ASSUME NEW c \in Containers, StatisticsArrive(c) PROVE RateInv'
  <2>1. PICK read \in BOOLEAN :
           results' = [d \in DOMAIN results \cup {c} |->
                         IF d = c THEN SampleNow(c, read) ELSE results[d]]
    BY <1>6 DEF StatisticsArrive
  <2>2. /\ SampleNow(c, read).spent = spent[c]
        /\ SampleNow(c, read).cpu = IF read THEN used[c] ELSE 0
        /\ SampleNow(c, read).read = read
    BY DEF SampleNow
  <2>3. used[c] \in Nat /\ spent[c] \in Nat
    BY BoundsAssumption DEF TypeInv, TypeOK
  <2>4. UNCHANGED <<used, spent, pc, baseMetrics, previousMetrics>>
    BY <1>6 DEF StatisticsArrive, dockerVars, windowVars
  <2>5. Behind(results)'
    BY <2>1, <2>2, <2>3, <2>4 DEF RateInv, Behind
  <2>6. \A x \in DOMAIN previousMetrics :
           previousMetrics[x].cpu \in Nat /\ previousMetrics[x].spent \in Nat
    BY DEF TypeInv, TypeOK, AreSamples, Sample
  <2>7. Honest(results)'
    BY <2>1, <2>2, <2>3, <2>4, <2>6 DEF RateInv, Behind, Honest
  <2> QED
    BY <2>4, <2>5, <2>7 DEF RateInv, Behind, Honest
<1>7. CASE Begin
  BY <1>7 DEF Begin, SavePrevious, WindowInv, RateInv, Behind, Honest, dockerVars
<1>8. CASE ListFails \/ ListAnswers
  BY <1>8 DEF ListFails, ListAnswers, AskStatistics, RateInv, Behind, Honest, Empty,
              dockerVars, windowVars
<1>9. CASE Gather
  BY <1>9 DEF Gather, RateInv, Behind, Honest, Empty, dockerVars, windowVars
<1>10. CASE Inspect
  BY <1>10, SameSamples DEF Inspect, dockerVars, windowVars
<1>11. CASE UNCHANGED vars
  BY <1>11, SameSamples DEF vars, dockerVars, callVars, windowVars
<1> QED
  BY <1>1, <1>3, <1>4, <1>5, <1>6, <1>7, <1>8, <1>9, <1>10, <1>11 DEF Next

\* No page shows more CPU time than was spent between its two samples, for any
\* history of starts, pauses, failed calls and skipped collections
\* (dashboard.go 250-293).
THEOREM RatesAreHonest == Spec => []RateNotOverstated
<1>1. TypeInv /\ RateInv => RateNotOverstated
  <2> SUFFICES ASSUME TypeInv, RateInv, pc = "free", NEW c \in WithRate
               PROVE  /\ c \in DOMAIN previousMetrics
                      /\ previousMetrics[c].read =>
                            Delta[c] <= baseMetrics[c].spent - previousMetrics[c].spent
    BY DEF RateNotOverstated
  <2>1. c \in DOMAIN baseMetrics /\ c \in DOMAIN previousMetrics
    BY DEF WithRate, HasPrevious
  <2>2. /\ baseMetrics[c].cpu \in Nat /\ baseMetrics[c].spent \in Nat
        /\ previousMetrics[c].cpu \in Nat /\ previousMetrics[c].spent \in Nat
    BY <2>1 DEF TypeInv, TypeOK, AreSamples, Sample
  <2> QED
    BY <2>1, <2>2 DEF RateInv, Honest, Delta, PreviousCpu
<1> QED
  BY InitTypes, NextTypes, InitWindow, NextWindow, InitRate, NextRate, <1>1, PTL DEF Spec

----------------------------------------------------------------------------
(* The share of the host.                                                  *)

\* What the samples of a released collection are to each other.
SamplesInv ==
    /\ IsFiniteSet(DOMAIN baseMetrics)
    /\ \A c \in DOMAIN baseMetrics : baseMetrics[c].cpu \in Nat /\ baseMetrics[c].spent \in Nat
    /\ \A c \in DOMAIN previousMetrics :
          previousMetrics[c].cpu \in Nat /\ previousMetrics[c].spent \in Nat
    /\ Honest(baseMetrics)
    /\ Interval \in Nat

\* The sum of what the counted containers have more: it is positive when one of
\* them has more, no less than what each has more, and no more than was spent.
LEMMA HostDeltaIsSum ==
  ASSUME SamplesInv
  PROVE  /\ HostDelta \in Nat
         /\ \A c \in Counted : Delta[c] \in Nat /\ Delta[c] <= HostDelta
         /\ HostDelta > 0 => \E c \in Counted : Delta[c] > 0
         /\ (\A c \in Counted : previousMetrics[c].read) =>
               HostDelta <= SumOf(SpentBetween, DOMAIN SpentBetween)
<1>1. PICK K : K = DOMAIN baseMetrics \cap DOMAIN previousMetrics
  OBVIOUS
<1>2. PICK T : T = Counted
  OBVIOUS
<1>3. IsFiniteSet(K) /\ T \in SUBSET K
  BY <1>1, <1>2, FS_Subset DEF SamplesInv, Counted, HasPrevious
<1>4. ASSUME NEW c \in K
      PROVE  /\ Delta[c] = baseMetrics[c].cpu - previousMetrics[c].cpu
             /\ Delta[c] \in Int
             /\ c \in T <=> Delta[c] >= 0
             /\ SpentBetween[c] = baseMetrics[c].spent - previousMetrics[c].spent
             /\ SpentBetween[c] \in Nat
             /\ previousMetrics[c].read => Delta[c] <= SpentBetween[c]
  <2>1. c \in DOMAIN baseMetrics /\ c \in DOMAIN previousMetrics
    BY <1>1, <1>4
  <2>2. /\ Delta[c] = baseMetrics[c].cpu - previousMetrics[c].cpu
        /\ c \in T <=> Delta[c] >= 0
    BY <1>2, <2>1 DEF Delta, PreviousCpu, Counted, HasPrevious
  <2>3. SpentBetween[c] = baseMetrics[c].spent - previousMetrics[c].spent
    BY <2>1 DEF SpentBetween
  <2>4. /\ baseMetrics[c].cpu \in Nat /\ baseMetrics[c].spent \in Nat
        /\ previousMetrics[c].cpu \in Nat /\ previousMetrics[c].spent \in Nat
        /\ previousMetrics[c].spent <= baseMetrics[c].spent
        /\ previousMetrics[c].read =>
              baseMetrics[c].cpu <= previousMetrics[c].cpu
                                    + (baseMetrics[c].spent - previousMetrics[c].spent)
    BY <2>1 DEF SamplesInv, Honest
  <2> QED
    BY <2>2, <2>3, <2>4
<1>5. PICK f : f = [c \in K |-> IF c \in T THEN Delta[c] ELSE 0]
  OBVIOUS
<1>6. f \in [K -> Nat] /\ \A c \in T : f[c] = Delta[c]
  BY <1>3, <1>4, <1>5
<1>7. HostDelta = SumOf(f, T)
  <2>1. HostDelta = SumOf(Delta, T)
    BY <1>2 DEF HostDelta, SumOf
  <2>2. IsFiniteSet(T)
    BY <1>3, FS_Subset
  <2> QED
    BY <1>6, <2>1, <2>2, SumSame
<1>8. PICK g : g = [c \in T |-> f[c]]
  OBVIOUS
<1>9. g \in [T -> Nat] /\ IsFiniteSet(T) /\ \A c \in T : g[c] = Delta[c] /\ f[c] = g[c]
  BY <1>3, <1>6, <1>8, FS_Subset
<1>10. HostDelta = SumOf(g, T)
  BY <1>7, <1>9, SumSame
<1>11. HostDelta \in Nat
  BY <1>9, <1>10, SumNat
<1>12. \A c \in T : Delta[c] \in Nat /\ Delta[c] <= HostDelta
  BY <1>9, <1>10, SumHasElement
<1>13. HostDelta > 0 => \E c \in T : Delta[c] > 0
  <2> SUFFICES ASSUME HostDelta > 0, \A c \in T : ~(Delta[c] > 0) PROVE FALSE
    OBVIOUS
  <2>1. \A c \in T : g[c] = 0
    BY <1>9, <1>12
  <2> QED
    BY <1>9, <1>10, <2>1, SumOfZeros
<1>14. (\A c \in T : previousMetrics[c].read) =>
          HostDelta <= SumOf(SpentBetween, DOMAIN SpentBetween)
  <2> SUFFICES ASSUME \A c \in T : previousMetrics[c].read
               PROVE  HostDelta <= SumOf(SpentBetween, DOMAIN SpentBetween)
    OBVIOUS
  <2>1. SpentBetween \in [K -> Nat] /\ DOMAIN SpentBetween = K
    BY <1>1, <1>4 DEF SpentBetween
  <2>2. \A c \in T : f[c] <= SpentBetween[c]
    BY <1>3, <1>4, <1>6
  <2> QED
    BY <1>3, <1>6, <1>7, <2>1, <2>2, SumOfPart
<1> QED
  BY <1>2, <1>11, <1>12, <1>13, <1>14

\* The host has a share exactly when a row has a load; it is no smaller than
\* that of any row and no larger than what was spent, for any containers and
\* any history of restarts, failed calls and skipped collections
\* (dashboard.go 250-293).
THEOREM HostShareAgrees == Spec => []HostShareIsOfRows
<1>1. TypeInv /\ RateInv => HostShareIsOfRows
  <2> SUFFICES ASSUME TypeInv, RateInv, pc = "free", NumberCPU > 0
               PROVE  HostShareIsOfRows
    BY DEF HostShareIsOfRows
  <2>1. SamplesInv
    <3>1. IsFiniteSet(DOMAIN baseMetrics)
      BY ContainersAssumption, FS_Subset DEF TypeInv, TypeOK, AreSamples
    <3>2. Interval \in Nat
      BY BoundsAssumption DEF TypeInv, TypeOK, Interval
    <3> QED
      BY <3>1, <3>2 DEF SamplesInv, RateInv, TypeInv, TypeOK, AreSamples, Sample
  <2>2. /\ HostDelta \in Nat
        /\ \A c \in Counted : Delta[c] \in Nat /\ Delta[c] <= HostDelta
        /\ HostDelta > 0 => \E c \in Counted : Delta[c] > 0
        /\ (\A c \in Counted : previousMetrics[c].read) =>
              HostDelta <= MapThenSumSet(LAMBDA c : SpentBetween[c], DOMAIN SpentBetween)
    BY <2>1, HostDeltaIsSum DEF SumOf
  <2>3. Interval \in Nat
    BY <2>1 DEF SamplesInv
  <2>4. WithRate = IF Interval > 0 THEN Counted ELSE {}
    BY DEF WithRate, Counted
  <2>5. HostShown <=> HostDelta > 0 /\ Interval > 0
    BY DEF HostShown
  <2>6. HostShown <=> \E c \in WithRate : Delta[c] > 0
    BY <2>2, <2>3, <2>4, <2>5
  <2>7. HostShown => WithRate = Counted
    BY <2>4, <2>5
  <2> QED
    BY <2>2, <2>6, <2>7 DEF HostShareIsOfRows
<1> QED
  BY InitTypes, NextTypes, InitWindow, NextWindow, InitRate, NextRate, <1>1, PTL DEF Spec

----------------------------------------------------------------------------
(* The data of a collection are of the containers it listed.               *)

\* Samples and results are of containers that were listed.
ListInv ==
    /\ idRunning = {c \in DOMAIN Labels : Labels[c] = "running"}
    /\ pc = "stats" => pending \cup DOMAIN results \subseteq idRunning
    /\ pc \in {"free", "inspect"} => DOMAIN baseMetrics \subseteq idRunning
    /\ pc = "free" => inspectMetrics \subseteq DOMAIN Labels

\* It holds at first.
LEMMA InitList == Init => ListInv
  BY DEF Init, ListInv, Empty

\* Each step keeps it.
LEMMA NextList == ListInv /\ [Next]_vars => ListInv'
<1> SUFFICES ASSUME ListInv, [Next]_vars PROVE ListInv'
  OBVIOUS
<1> USE DEF ListInv
<1>1. CASE ClockTicks
  BY <1>1 DEF ClockTicks, callVars, listVars
<1>2. ASSUME NEW c \in Containers, ContainerChanges(c) \/ ContainerSpends(c)
      PROVE  ListInv'
  BY <1>2 DEF ContainerChanges, ContainerSpends, callVars, listVars
<1>3. ASSUME NEW c \in Containers, StatisticsFail(c) \/ StatisticsArrive(c)
      PROVE  ListInv'
  <2>1. /\ pending' \subseteq pending /\ c \in pending
        /\ DOMAIN results' \subseteq DOMAIN results \cup {c}
        /\ UNCHANGED <<pc, Labels, idRunning, baseMetrics, inspectMetrics>>
        /\ pc = "stats"
    BY <1>3 DEF StatisticsFail, StatisticsArrive, listVars
  <2> QED
    BY <2>1
<1>4. CASE Begin
  BY <1>4 DEF Begin, listVars
<1>5. CASE ListFails
  BY <1>5 DEF ListFails, ForgetList, AskStatistics, Empty
<1>6. CASE ListAnswers
  BY <1>6 DEF ListAnswers, AskStatistics, Running, Empty
<1>7. CASE Gather
  BY <1>7 DEF Gather, listVars
<1>8. CASE Inspect
  BY <1>8 DEF Inspect, Inspected, listVars
<1>9. CASE UNCHANGED vars
  BY <1>9 DEF vars, callVars, listVars
<1> QED
  BY <1>1, <1>2, <1>3, <1>4, <1>5, <1>6, <1>7, <1>8, <1>9 DEF Next

\* Neither the text nor a page can meet a container whose labels are missing
\* (metrics.go 609-616).
THEOREM DataAreOfListed == Spec => []DataOfListed
<1>1. ListInv => DataOfListed
  BY DEF ListInv, DataOfListed
<1> QED
  BY InitList, NextList, <1>1, PTL DEF Spec

=============================================================================
