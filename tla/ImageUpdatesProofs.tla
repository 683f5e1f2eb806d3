------------------------- MODULE ImageUpdatesProofs -------------------------
(***************************************************************************)
(* Proofs about ImageUpdates, for any set of images.  The argument behind  *)
(* the WaitGroup: as long as the slice was not replaced between its reads, *)
(* the number added is the number of goroutines started, a goroutine is    *)
(* checking or ending but not both, and each leaves with one Done.         *)
(***************************************************************************)
EXTENDS ImageUpdates, FiniteSetTheorems, TLAPS

\* Sets of images are finite.
LEMMA CardinalityOf == \A S \in SUBSET Images : IsFiniteSet(S) /\ Cardinality(S) \in Nat
  BY ImagesAssumption, FS_Subset, FS_CardinalityType

\* It holds at first.
LEMMA InitTypes == Init => TypeOK
<1> SUFFICES ASSUME Init PROVE TypeOK
  OBVIOUS
<1>1. images \subseteq Images /\ raced \in BOOLEAN
  BY DEF Init
<1>2. pc \in WorkerState /\ dataMu \in {"free", "listing", "listed"}
  BY DEF Init, WorkerState
<1> QED
  BY <1>1, <1>2 DEF Init, TypeOK

\* Each step keeps it.
LEMMA NextTypes == TypeOK /\ [Next]_vars => TypeOK'
<1> SUFFICES ASSUME TypeOK, [Next]_vars PROVE TypeOK'
  OBVIOUS
<1> USE DEF TypeOK
<1>1. CASE ImagesChange
  BY <1>1 DEF ImagesChange, goroutineVars, resultVars
<1>2. CASE Collection
  BY <1>2 DEF Collection, CollectionBegins, CollectionListsImages, CollectionEnds,
              listVars, goroutineVars, resultVars
<1>3. CASE Worker
  <2> USE DEF Go, WorkerState, listVars, goroutineVars, resultVars
  <2>1. CASE Tick
    BY <2>1 DEF Tick
  <2>2. CASE LooksForImages
    BY <2>2 DEF LooksForImages
  <2>3. CASE FetchFails
    BY <2>3 DEF FetchFails
  <2>4. CASE FetchAnswers
    BY <2>4 DEF FetchAnswers
  <2>5. CASE KeepImages
    BY <2>5 DEF KeepImages
  <2>6. CASE SeesLength
    BY <2>6 DEF SeesLength
  <2>7. CASE Adds
    BY <2>7, CardinalityOf DEF Adds, Waited
  <2>8. CASE ReadsPointer
    BY <2>8 DEF ReadsPointer
  <2>9. CASE StartsGoroutines
    <3>1. PICK started \in SUBSET array :
            /\ Cardinality(started) <= Cardinality(imageMetrics)
            /\ checking' = started
            /\ stray' = Cardinality(imageMetrics) - Cardinality(started)
      BY <2>9 DEF StartsGoroutines
    <3>2. Cardinality(started) \in Nat /\ Cardinality(imageMetrics) \in Nat
      BY CardinalityOf
    <3>3. stray' \in Nat
      BY <3>1, <3>2
    <3> QED
      BY <2>9, <3>1, <3>3 DEF StartsGoroutines
  <2>10. CASE WaitReturns
    BY <2>10 DEF WaitReturns
  <2>11. CASE StoresUpdates
    BY <2>11 DEF StoresUpdates
  <2> QED
    BY <1>3, <2>1, <2>2, <2>3, <2>4, <2>5, <2>6, <2>7, <2>8, <2>9, <2>10, <2>11 DEF Worker
<1>4. ASSUME NEW i \in Images, Goroutine(i) PROVE TypeOK'
  <2> USE ImagesAssumption DEF Done, WorkerState, listVars, resultVars
  <2>1. CASE CheckFails(i)
    BY <2>1 DEF CheckFails
  <2>2. CASE CheckAnswers(i)
    BY <2>2 DEF CheckAnswers
  <2>3. CASE Appends(i)
    BY <2>3 DEF Appends, Record
  <2>4. CASE GoroutineEnds(i)
    BY <2>4 DEF GoroutineEnds
  <2> QED
    BY <1>4, <2>1, <2>2, <2>3, <2>4 DEF Goroutine
<1>5. CASE StrayFails
  BY <1>5 DEF StrayFails, Done, WorkerState, listVars, resultVars
<1>6. CASE UNCHANGED vars
  BY <1>6 DEF vars, listVars, goroutineVars, resultVars
<1> QED
  BY <1>1, <1>2, <1>3, <1>4, <1>5, <1>6 DEF Next

\* Types of the lists, the worker and its goroutines; neither the counter nor
\* the number of stray goroutines goes below zero (images.go 109-173).
THEOREM TypeCorrect == Spec => []TypeOK
  BY InitTypes, NextTypes, PTL DEF Spec

-----------------------------------------------------------------------------
(* The WaitGroup *)

\* No goroutine of the worker is at work.
NoGoroutines == checking = {} /\ appending = {} /\ ending = {} /\ stray = 0

\* The goroutines that have not called Done.
Running ==
    Cardinality(checking) + Cardinality(appending) + Cardinality(ending) + stray

\* A goroutine is in one place.
Apart ==
    /\ checking \cap appending = {}
    /\ checking \cap ending = {}
    /\ appending \cap ending = {}

\* A record that is not in the result yet has its goroutine still to append it.
Recorded == {r.id : r \in metrics} \cup appending = answered

\* The goroutines can be counted.
FiniteCounts ==
    /\ IsFiniteSet(checking) /\ Cardinality(checking) \in Nat
    /\ IsFiniteSet(appending) /\ Cardinality(appending) \in Nat
    /\ IsFiniteSet(ending) /\ Cardinality(ending) \in Nat
    /\ stray \in Nat

\* A set without one of its elements has one element less.
LEMMA OneLess ==
  ASSUME NEW S, NEW x \in S, IsFiniteSet(S)
  PROVE  Cardinality(S \ {x}) = Cardinality(S) - 1 /\ Cardinality(S) >= 1
<1>1. Cardinality(S \ {x}) = Cardinality(S) - 1
  BY FS_RemoveElement
<1>2. Cardinality(S) \in Nat /\ Cardinality(S) # 0
  BY FS_CardinalityType, FS_EmptySet
<1> QED
  BY <1>1, <1>2

\* When nothing is left in all, nothing is left of each.
LEMMA NoneLeft ==
  ASSUME NEW a \in Nat, NEW b \in Nat, NEW c \in Nat, NEW d \in Nat, a + b + c + d = 0
  PROVE  a = 0 /\ b = 0 /\ c = 0 /\ d = 0
  OBVIOUS

\* The goroutines can be counted, since they are of images.
LEMMA Counts == TypeOK => FiniteCounts
  BY CardinalityOf, ImagesAssumption DEF TypeOK, FiniteCounts

\* What the reads of the slice have found so far is what the list is now, and
\* the goroutines of an earlier check are gone before any of this one starts.
WaitInv ==
    /\ Apart
    /\ pc \in {"check", "fetch", "keep", "updates", "add", "range", "length"} => NoGoroutines
    /\ pc \in {"range", "length"} /\ ~raced => counter = Cardinality(imageMetrics)
    /\ pc = "length" /\ ~raced => array = imageMetrics
    /\ pc = "wait" /\ ~raced => counter = Running
    /\ pc \in {"store", "idle"} /\ ~raced => NoGoroutines
    /\ pc = "panicked" => raced

\* It holds at first.
LEMMA InitWait == Init => WaitInv
  BY DEF Init, WaitInv, NoGoroutines, Apart

\* Each step of the worker keeps the invariant.
LEMMA WorkerWait ==
  ASSUME TypeOK, WaitInv, Worker
  PROVE  WaitInv'
<1> USE DEF WaitInv, NoGoroutines, Apart, Go, listVars, goroutineVars, resultVars
<1>1. CASE Tick
  BY <1>1 DEF Tick
<1>2. CASE LooksForImages
  BY <1>2 DEF LooksForImages
<1>3. CASE FetchFails
  BY <1>3 DEF FetchFails
<1>4. CASE FetchAnswers
  BY <1>4 DEF FetchAnswers
<1>5. CASE KeepImages
  BY <1>5 DEF KeepImages
<1>6. CASE SeesLength
  BY <1>6 DEF SeesLength
<1>7. CASE Adds
  BY <1>7 DEF Adds, Waited
<1>8. CASE ReadsPointer
  BY <1>8 DEF ReadsPointer
<1>9. CASE StartsGoroutines
  <2>1. PICK started \in SUBSET array :
          /\ Cardinality(started) <= Cardinality(imageMetrics)
          /\ checking' = started
          /\ stray' = Cardinality(imageMetrics) - Cardinality(started)
    BY <1>9 DEF StartsGoroutines
  <2>2. Cardinality(started) \in Nat /\ Cardinality(imageMetrics) \in Nat
    BY CardinalityOf DEF TypeOK
  <2>3. appending' = {} /\ ending' = {} /\ pc' = "wait" /\ pc = "length" /\ UNCHANGED <<counter, raced>>
    BY <1>9 DEF StartsGoroutines
  <2>4. Running' = Cardinality(started) + 0 + 0 + stray'
    BY <2>1, <2>3, FS_EmptySet DEF Running
  <2>5. Running' = Cardinality(imageMetrics)
    BY <2>1, <2>2, <2>4
  <2> QED
    BY <2>1, <2>3, <2>5
<1>10. CASE WaitReturns
  <2>1. SUFFICES ASSUME ~raced PROVE NoGoroutines
    BY <1>10 DEF WaitReturns
  <2>2. Running = 0
    BY <1>10, <2>1 DEF WaitReturns
  <2>3. FiniteCounts
    BY Counts
  <2>4. /\ Cardinality(checking) = 0 /\ Cardinality(appending) = 0
        /\ Cardinality(ending) = 0 /\ stray = 0
    BY ONLY <2>2, <2>3, NoneLeft DEF Running, FiniteCounts
  <2> QED
    BY <2>3, <2>4, FS_EmptySet DEF FiniteCounts
<1>11. CASE StoresUpdates
  BY <1>11 DEF StoresUpdates
<1> QED
  BY <1>1, <1>2, <1>3, <1>4, <1>5, <1>6, <1>7, <1>8, <1>9, <1>10, <1>11 DEF Worker

\* While Wait waits, a goroutine that leaves finds a counter above zero and
\* takes one from it; at any other time there is one only after a race.
LEMMA OneDone ==
  ASSUME TypeOK, WaitInv, Running >= 1, Done, Running' = Running - 1,
         Apart', Alive,
         UNCHANGED <<imageMetrics, array, raced>>,
         ~NoGoroutines
  PROVE  WaitInv'
<1>1. CASE raced
  BY <1>1 DEF WaitInv, Done, Alive, TypeOK, WorkerState, NoGoroutines
<1>2. CASE ~raced
  <2>1. pc = "wait"
    BY <1>2 DEF WaitInv, Alive, TypeOK, WorkerState
  <2>2. counter = Running
    BY <1>2, <2>1 DEF WaitInv
  <2>3. counter > 0 /\ counter' = counter - 1 /\ UNCHANGED pc
    BY <2>2 DEF Done, TypeOK
  <2> QED
    BY <1>2, <2>1, <2>2, <2>3 DEF WaitInv
<1> QED
  BY <1>1, <1>2

\* Each step of a goroutine keeps the invariant.
LEMMA GoroutineWait ==
  ASSUME TypeOK, WaitInv, NEW i \in Images, Goroutine(i)
  PROVE  WaitInv'
<1>1. FiniteCounts /\ Apart
  BY Counts DEF WaitInv
<1> USE DEF FiniteCounts
<1>2. CASE CheckFails(i)
  <2>1. i \in checking /\ checking' = checking \ {i} /\ UNCHANGED <<appending, ending, stray>>
    BY <1>2 DEF CheckFails
  <2>2. Cardinality(checking') = Cardinality(checking) - 1 /\ Cardinality(checking) >= 1
    BY <1>1, <2>1, OneLess
  <2>3. Running >= 1 /\ Running' = Running - 1
    BY <1>1, <2>1, <2>2 DEF Running
  <2>4. Apart'
    BY <1>1, <2>1 DEF Apart
  <2> QED
    BY <1>2, <2>1, <2>3, <2>4, OneDone DEF CheckFails, NoGoroutines, listVars
<1>3. CASE CheckAnswers(i)
  <2>1. /\ i \in checking /\ checking' = checking \ {i}
        /\ i \notin appending /\ appending' = appending \cup {i}
        /\ UNCHANGED <<ending, stray>>
    BY <1>1, <1>3 DEF CheckAnswers, Apart
  <2>2. /\ Cardinality(checking') = Cardinality(checking) - 1
        /\ Cardinality(appending') = Cardinality(appending) + 1
    BY <1>1, <2>1, FS_RemoveElement, FS_AddElement
  <2>3. Running' = Running
    BY <1>1, <2>1, <2>2 DEF Running
  <2>4. Apart'
    BY <1>1, <2>1 DEF Apart
  <2>5. UNCHANGED <<imageMetrics, pc, counter, array, raced>> /\ ~NoGoroutines
    BY <1>3, <2>1 DEF CheckAnswers, listVars, NoGoroutines
  <2> QED
    BY <2>3, <2>4, <2>5 DEF WaitInv
<1>4. CASE Appends(i)
  <2>1. /\ i \in appending /\ appending' = appending \ {i}
        /\ i \notin ending /\ ending' = ending \cup {i}
        /\ UNCHANGED <<checking, stray>>
    BY <1>1, <1>4 DEF Appends, Apart
  <2>2. /\ Cardinality(appending') = Cardinality(appending) - 1
        /\ Cardinality(ending') = Cardinality(ending) + 1
    BY <1>1, <2>1, FS_RemoveElement, FS_AddElement
  <2>3. Running' = Running
    BY <1>1, <2>1, <2>2 DEF Running
  <2>4. Apart'
    BY <1>1, <2>1 DEF Apart
  <2>5. UNCHANGED <<imageMetrics, pc, counter, array, raced>> /\ ~NoGoroutines
    BY <1>4, <2>1 DEF Appends, listVars, NoGoroutines
  <2> QED
    BY <2>3, <2>4, <2>5 DEF WaitInv
<1>5. CASE GoroutineEnds(i)
  <2>1. i \in ending /\ ending' = ending \ {i} /\ UNCHANGED <<checking, appending, stray>>
    BY <1>5 DEF GoroutineEnds
  <2>2. Cardinality(ending') = Cardinality(ending) - 1 /\ Cardinality(ending) >= 1
    BY <1>1, <2>1, OneLess
  <2>3. Running >= 1 /\ Running' = Running - 1
    BY <1>1, <2>1, <2>2 DEF Running
  <2>4. Apart'
    BY <1>1, <2>1 DEF Apart
  <2> QED
    BY <1>5, <2>1, <2>3, <2>4, OneDone DEF GoroutineEnds, NoGoroutines, listVars
<1> QED
  BY <1>2, <1>3, <1>4, <1>5 DEF Goroutine

\* Each step keeps it.
LEMMA NextWait == TypeOK /\ WaitInv /\ [Next]_vars => WaitInv'
<1> SUFFICES ASSUME TypeOK, WaitInv, [Next]_vars PROVE WaitInv'
  OBVIOUS
<1>1. CASE ImagesChange
  BY <1>1 DEF ImagesChange, WaitInv, NoGoroutines, Running, Apart, goroutineVars
<1>2. CASE Collection
  BY <1>2 DEF Collection, CollectionBegins, CollectionListsImages, CollectionEnds,
              WaitInv, NoGoroutines, Running, Apart, listVars, goroutineVars
<1>3. CASE Worker
  BY <1>3, WorkerWait
<1>4. ASSUME NEW i \in Images, Goroutine(i) PROVE WaitInv'
  BY <1>4, GoroutineWait
<1>5. CASE StrayFails
  <2>1. stray > 0 /\ stray' = stray - 1 /\ UNCHANGED <<checking, appending, ending>>
    BY <1>5 DEF StrayFails
  <2>2. Running >= 1 /\ Running' = Running - 1
    BY <2>1, Counts DEF Running, FiniteCounts
  <2>3. Apart'
    BY <2>1 DEF WaitInv, Apart
  <2> QED
    BY <1>5, <2>1, <2>2, <2>3, OneDone DEF StrayFails, NoGoroutines, listVars
<1>6. CASE UNCHANGED vars
  BY <1>6 DEF vars, WaitInv, NoGoroutines, Running, Apart, listVars, goroutineVars
<1> QED
  BY <1>1, <1>2, <1>3, <1>4, <1>5, <1>6 DEF Next

\* The WaitGroup counts the goroutines, however many images there are and in
\* whatever order their checks end, unless the slice was replaced between its
\* reads (images.go 112-170).
THEOREM CounterIsExact == Spec => []CounterMatches
<1>1. WaitInv => CounterMatches
  BY DEF WaitInv, CounterMatches, Running
<1> QED
  BY <1>1, InitTypes, NextTypes, InitWait, NextWait, PTL DEF Spec

-----------------------------------------------------------------------------
(* The result *)

\* No step loses a record.
LEMMA NextRecorded == WaitInv /\ Recorded /\ [Next]_vars => Recorded'
<1> SUFFICES ASSUME WaitInv, Recorded, [Next]_vars PROVE Recorded'
  OBVIOUS
<1> USE DEF Recorded
<1>1. CASE ImagesChange \/ Collection \/ UNCHANGED vars
  BY <1>1 DEF ImagesChange, Collection, CollectionBegins, CollectionListsImages,
              CollectionEnds, vars, goroutineVars, resultVars
<1>2. CASE SeesLength
  BY <1>2 DEF SeesLength, WaitInv, NoGoroutines, Go, goroutineVars
<1>3. CASE Worker /\ ~SeesLength
  BY <1>3 DEF Worker, Tick, LooksForImages, FetchFails, FetchAnswers, KeepImages, Adds,
              ReadsPointer, StartsGoroutines, WaitReturns, StoresUpdates,
              goroutineVars, resultVars
<1>4. ASSUME NEW i \in Images, Goroutine(i) PROVE Recorded'
  <2>1. CASE CheckFails(i) \/ GoroutineEnds(i)
    BY <2>1 DEF CheckFails, GoroutineEnds, resultVars
  <2>2. CASE CheckAnswers(i)
    BY <2>2 DEF CheckAnswers
  <2>3. CASE Appends(i)
    <3>1. PICK status \in {0, 1} :
            metrics' = metrics \cup {[id |-> i, updateStatus |-> status]}
      BY <2>3 DEF Appends
    <3>2. [id |-> i, updateStatus |-> status].id = i
      OBVIOUS
    <3>3. {r.id : r \in metrics'} = {r.id : r \in metrics} \cup {i}
      BY ONLY <3>1, <3>2, Zenon
    <3> QED
      BY <2>3, <3>3 DEF Appends
  <2> QED
    BY <1>4, <2>1, <2>2, <2>3 DEF Goroutine
<1>5. CASE StrayFails
  BY <1>5 DEF StrayFails, resultVars
<1> QED
  BY <1>1, <1>2, <1>3, <1>4, <1>5 DEF Next

\* The result has a record for every check that has succeeded, for any number
\* of images: Wait returns only when no goroutine has one still to append
\* (images.go 142-161).
THEOREM ResultIsComplete == Spec => []ResultComplete
<1>1. Init => Recorded
  BY DEF Init, Recorded
<1>2. WaitInv /\ Recorded => ResultComplete
  BY DEF WaitInv, NoGoroutines, Recorded, ResultComplete
<1> QED
  BY <1>1, <1>2, InitTypes, NextTypes, InitWait, NextWait, NextRecorded, PTL DEF Spec

\* No order of checks, failures and collections ends the process with a
\* negative counter but one that replaces the slice between its reads.
THEOREM OnlyRacePanics == Spec => []PanicOnlyAfterRace
<1>1. WaitInv => PanicOnlyAfterRace
  BY DEF WaitInv, PanicOnlyAfterRace
<1> QED
  BY <1>1, InitTypes, NextTypes, InitWait, NextWait, PTL DEF Spec

=============================================================================
