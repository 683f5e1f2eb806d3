---------------------------- MODULE ImageUpdates ----------------------------
(***************************************************************************)
(* The background check for image updates (internal/metrics/images.go)     *)
(* beside the collections of GetMetrics, which replace m.imageMetrics.     *)
(*                                                                         *)
(* getImagesUpdateMetrics reads that slice without dataMu, more than once: *)
(* its length to see whether there is anything to do, its length again for *)
(* the WaitGroup, and its header, pointer and length, for the loop that    *)
(* starts a goroutine per image.  A collection may replace the slice in    *)
(* between.  The number of goroutines is then not the one waited for: too  *)
(* few leave the worker in Wait for ever, too many end the process with a  *)
(* negative counter.                                                       *)
(***************************************************************************)
EXTENDS Integers, FiniteSets

CONSTANTS
    Images,
    Named        \* those with a tag; the others are not checked

\* Images are counted.
ASSUME ImagesAssumption == IsFiniteSet(Images) /\ Named \subseteq Images

VARIABLES
    images,              \* the images that Docker has
    imageMetrics,
    imageUpdateMetrics,  \* a set of [id, updateStatus]
    dataMu,              \* "free", or where the collection that holds it is
    pc,                  \* where the worker is
    fetched,             \* the list of its own call to Docker
    counter,             \* of the WaitGroup
    array,               \* the list the loop's pointer leads to
    checking,            \* the images whose goroutine awaits an answer
    appending,           \* those whose goroutine has one, and a record to append
    ending,              \* those whose goroutine has only Done to call
    stray,               \* goroutines started on memory past the list
    metrics,             \* the result under construction
    answered,            \* the images whose check has succeeded (ghost)
    raced                \* the slice was replaced between these reads (ghost)

listVars      == <<images, imageMetrics, imageUpdateMetrics>>
goroutineVars == <<checking, appending, ending, stray>>
resultVars    == <<metrics, answered>>
vars == <<listVars, dataMu, pc, fetched, counter, array, goroutineVars,
          resultVars, raced>>

WorkerState == {"idle", "check", "fetch", "keep", "updates", "add", "range",
                "length", "wait", "store", "panicked"}

Record == [id : Images, updateStatus : {0, 1}]

Init ==
    /\ images \in SUBSET Images
    /\ imageMetrics = {}
    /\ imageUpdateMetrics = {}
    /\ dataMu = "free"
    /\ pc = "idle"
    /\ fetched = {}
    /\ counter = 0
    /\ array = {}
    /\ checking = {}
    /\ appending = {}
    /\ ending = {}
    /\ stray = 0
    /\ metrics = {}
    /\ answered = {}
    /\ raced = FALSE

Alive == pc # "panicked"

Go(from, to) ==
    /\ pc = from
    /\ pc' = to

----------------------------------------------------------------------------
(* Docker, and the collections as far as they touch the images.            *)

\* An image is pulled or removed.
ImagesChange ==
    /\ Alive
    /\ \E i \in Images : images' = IF i \in images THEN images \ {i} ELSE images \cup {i}
    /\ UNCHANGED <<imageMetrics, imageUpdateMetrics, dataMu, pc, fetched, counter,
                   array, goroutineVars, resultVars, raced>>

CollectionBegins ==
    /\ Alive
    /\ dataMu = "free"
    /\ dataMu' = "listing"
    /\ UNCHANGED <<listVars, pc, fetched, counter, array, goroutineVars,
                   resultVars, raced>>

\* GetMetrics lists the images once per collection; an error leaves none.
CollectionListsImages ==
    /\ Alive
    /\ dataMu = "listing"
    /\ dataMu' = "listed"
    /\ imageMetrics' \in {images, {}}
    /\ raced' = (raced \/ (pc \in {"range", "length"} /\ imageMetrics' # imageMetrics))
    /\ UNCHANGED <<images, imageUpdateMetrics, pc, fetched, counter, array,
                   goroutineVars, resultVars>>

CollectionEnds ==
    /\ Alive
    /\ dataMu = "listed"
    /\ dataMu' = "free"
    /\ UNCHANGED <<listVars, pc, fetched, counter, array, goroutineVars,
                   resultVars, raced>>

----------------------------------------------------------------------------
(* ImageMetricsWorker.                                                     *)

\* The ticker fires; the goroutines of an earlier check have long reached
\* their timeout.
Tick ==
    /\ Go("idle", "check")
    /\ checking = {} /\ appending = {} /\ ending = {} /\ stray = 0
    /\ UNCHANGED <<listVars, dataMu, fetched, counter, array, goroutineVars,
                   resultVars, raced>>

\* Under RLock: are there images already?
LooksForImages ==
    /\ dataMu = "free"
    /\ Go("check", IF imageMetrics = {} THEN "fetch" ELSE "updates")
    /\ UNCHANGED <<listVars, dataMu, fetched, counter, array, goroutineVars,
                   resultVars, raced>>

FetchFails ==
    /\ Go("fetch", "updates")
    /\ UNCHANGED <<listVars, dataMu, fetched, counter, array, goroutineVars,
                   resultVars, raced>>

FetchAnswers ==
    /\ Go("fetch", "keep")
    /\ fetched' = images
    /\ UNCHANGED <<listVars, dataMu, counter, array, goroutineVars,
                   resultVars, raced>>

\* Under Lock: its own list replaces whatever a collection has stored since.
KeepImages ==
    /\ dataMu = "free"
    /\ Go("keep", "updates")
    /\ imageMetrics' = fetched
    /\ fetched' = {}
    /\ UNCHANGED <<images, imageUpdateMetrics, dataMu, counter, array, goroutineVars,
                   resultVars, raced>>

\* The first look at the length, without a lock: nothing to do, or go on.
SeesLength ==
    /\ Go("updates", IF imageMetrics = {} THEN "store" ELSE "add")
    /\ metrics' = {}
    /\ answered' = {}
    /\ raced' = FALSE
    /\ UNCHANGED <<listVars, dataMu, fetched, counter, array, goroutineVars>>

\* Mutant: one goroutine too many is waited for.
AddsOneMore == Cardinality(imageMetrics) + 1

\* Mutant: only the images with a name are waited for.
AddsNamedOnly == Cardinality(imageMetrics \cap Named)

Waited == Cardinality(imageMetrics)

\* wg.Add(len(m.imageMetrics)).
Adds ==
    /\ Go("add", "range")
    /\ counter' = Waited
    /\ UNCHANGED <<listVars, dataMu, fetched, array, goroutineVars, resultVars, raced>>

\* The loop reads the slice's header, a word at a time.
ReadsPointer ==
    /\ Go("range", "length")
    /\ array' = imageMetrics
    /\ UNCHANGED <<listVars, dataMu, fetched, counter, goroutineVars, resultVars, raced>>

\* As many goroutines as the length says, on the list and on what follows it
\* in memory.
StartsGoroutines ==
    /\ Go("length", "wait")
    /\ \E started \in SUBSET array :
          /\ Cardinality(started) <= Cardinality(imageMetrics)
          /\ Cardinality(started) < Cardinality(imageMetrics) => started = array
          /\ checking' = started
          /\ stray' = Cardinality(imageMetrics) - Cardinality(started)
    /\ array' = {}
    /\ UNCHANGED <<listVars, dataMu, fetched, counter, appending, ending, resultVars,
                   raced>>

\* wg.Done: a negative counter ends the process.
Done ==
    IF counter > 0
    THEN counter' = counter - 1 /\ UNCHANGED pc
    ELSE pc' = "panicked" /\ UNCHANGED counter

\* Mutant: the early return skips Done.
FailsWithoutDone(i) ==
    /\ Alive
    /\ i \in checking
    /\ checking' = checking \ {i}
    /\ UNCHANGED <<listVars, dataMu, pc, fetched, counter, array, appending, ending,
                   stray, resultVars, raced>>

\* A goroutine ends without a record: the image has no name, or neither check
\* gave an answer.
CheckFails(i) ==
    /\ Alive
    /\ i \in checking
    /\ checking' = checking \ {i}
    /\ Done
    /\ UNCHANGED <<listVars, dataMu, fetched, array, appending, ending, stray,
                   resultVars, raced>>

StrayFails ==
    /\ Alive
    /\ stray > 0
    /\ stray' = stray - 1
    /\ Done
    /\ UNCHANGED <<listVars, dataMu, fetched, array, checking, appending, ending,
                   resultVars, raced>>

\* The semantic check, or else the digest check, has an answer.
CheckAnswers(i) ==
    /\ Alive
    /\ i \in checking \cap Named
    /\ checking' = checking \ {i}
    /\ appending' = appending \cup {i}
    /\ answered' = answered \cup {i}
    /\ UNCHANGED <<listVars, dataMu, pc, fetched, counter, array, ending, stray,
                   metrics, raced>>

\* Under the mutex: the record, with the status that the check has found.
Appends(i) ==
    /\ Alive
    /\ i \in appending
    /\ appending' = appending \ {i}
    /\ ending' = ending \cup {i}
    /\ \E status \in {0, 1} :
          metrics' = metrics \cup {[id |-> i, updateStatus |-> status]}
    /\ UNCHANGED <<listVars, dataMu, pc, fetched, counter, array, checking, stray,
                   answered, raced>>

GoroutineEnds(i) ==
    /\ Alive
    /\ i \in ending
    /\ ending' = ending \ {i}
    /\ Done
    /\ UNCHANGED <<listVars, dataMu, fetched, array, checking, appending, stray,
                   resultVars, raced>>

\* wg.Wait returns.
WaitReturns ==
    /\ Go("wait", "store")
    /\ counter = 0
    /\ UNCHANGED <<listVars, dataMu, fetched, counter, array, goroutineVars,
                   resultVars, raced>>

\* Under Lock.
StoresUpdates ==
    /\ dataMu = "free"
    /\ Go("store", "idle")
    /\ imageUpdateMetrics' = metrics
    /\ UNCHANGED <<images, imageMetrics, dataMu, fetched, counter, array,
                   goroutineVars, resultVars, raced>>

Collection == CollectionBegins \/ CollectionListsImages \/ CollectionEnds

Worker ==
    \/ Tick
    \/ LooksForImages
    \/ FetchFails
    \/ FetchAnswers
    \/ KeepImages
    \/ SeesLength
    \/ Adds
    \/ ReadsPointer
    \/ StartsGoroutines
    \/ WaitReturns
    \/ StoresUpdates

Goroutine(i) == CheckFails(i) \/ CheckAnswers(i) \/ Appends(i) \/ GoroutineEnds(i)

Next ==
    \/ ImagesChange
    \/ Collection
    \/ Worker
    \/ \E i \in Images : Goroutine(i)
    \/ StrayFails

Spec == Init /\ [][Next]_vars

\* A collection ends; the worker and its goroutines run on, the calls being
\* bounded by their timeouts.  Strong fairness where the worker takes dataMu:
\* RWMutex lets no waiting goroutine starve.
Fairness ==
    /\ WF_vars(CollectionListsImages)
    /\ WF_vars(CollectionEnds)
    /\ SF_vars(Worker)
    /\ \A i \in Images : WF_vars(Goroutine(i))
    /\ WF_vars(StrayFails)

LiveSpec == Spec /\ Fairness

----------------------------------------------------------------------------

\* Types.
TypeOK ==
    /\ images \subseteq Images
    /\ imageMetrics \subseteq Images
    /\ imageUpdateMetrics \subseteq Record
    /\ dataMu \in {"free", "listing", "listed"}
    /\ pc \in WorkerState
    /\ fetched \subseteq Images
    /\ counter \in Nat
    /\ array \subseteq Images
    /\ checking \subseteq Images
    /\ appending \subseteq Named
    /\ ending \subseteq Named
    /\ stray \in Nat
    /\ metrics \subseteq Record
    /\ answered \subseteq Named
    /\ raced \in BOOLEAN

\* As long as no collection has come between the reads of the slice, the
\* counter is the number of goroutines that have not called Done: nothing
\* waits for ever and nothing goes below zero (images.go 112-170).
CounterMatches ==
    pc = "wait" /\ ~raced =>
        counter = Cardinality(checking) + Cardinality(appending)
                  + Cardinality(ending) + stray

\* What the worker stores is complete: when Wait returns, every check that has
\* succeeded has its record in the result, however long ago the others have
\* ended and whichever of them have failed (images.go 142-161).
ResultComplete ==
    pc = "store" /\ ~raced => {r.id : r \in metrics} = answered

\* The only way a process can die in a check is that race.
PanicOnlyAfterRace == pc = "panicked" => raced

\* Nothing but that race keeps the worker from coming back (images.go 196).
WorkerComesBack == []<>(pc = "idle" \/ raced)

\* "Image update check interval in minutes": the check is repeated.
ChecksRecur == []<>(pc = "check")

=============================================================================
