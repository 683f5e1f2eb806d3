----------------------------- MODULE Collector -----------------------------
(***************************************************************************)
(* One collection after another: Metrics.GetMetrics of                     *)
(* internal/metrics/metrics.go, and what internal/metrics/dashboard.go     *)
(* makes of its samples.  A collection holds dataMu from its first step to *)
(* its last, while Docker goes on: a container that was listed may stop    *)
(* before its statistics are read, and every call may fail, because Docker *)
(* is away or because the request that asked for the collection is gone.   *)
(*                                                                         *)
(* The rates of the dashboard compare the samples of two collections.  A   *)
(* collection that sampled nothing is skipped: the next one still compares *)
(* with the last that did.  A sample is a CPU counter; the network and     *)
(* block counters are saved, compared and hidden by the same rules.        *)
(* The share of the host adds the containers up once more, by guards of    *)
(* its own.                                                                *)
(***************************************************************************)
EXTENDS Integers, FiniteSets, FiniteSetsExt

CONSTANTS
    Containers,
    NumberCPU,    \* Info.numberCPU, read at start-up: 0 when GetDockerInfo failed
    MaxChanges,   \* bound on the changes of the states of containers
    MaxTime,      \* bound on the clock
    MaxSpent      \* bound on the CPU time all containers spend

\* Containers are counted, and a clock starts before its bound.
ASSUME ContainersAssumption == IsFiniteSet(Containers)
ASSUME NumberAssumption == NumberCPU \in Nat
ASSUME BoundsAssumption ==
    MaxTime \in Nat \ {0} /\ MaxSpent \in Nat /\ MaxChanges \in Nat

VARIABLES
    docker,           \* the state of every container
    used,             \* its CPU counter, which a new start resets
    spent,            \* all it has ever spent (ghost)
    changes,          \* how often a state has changed, for MaxChanges
    now,
    pc,               \* where the collection is; "free" when dataMu is
    pending,          \* the containers whose statistics are awaited
    results,          \* those that have arrived
    containersRunning, \* Info.containersRunning
    Labels,           \* the state of every listed container
    idRunning,
    baseMetrics,
    previousMetrics,
    cpuPreviousTime,
    cpuCurrentTime,
    inspectMetrics    \* the containers with inspect data

dockerVars   == <<docker, used, spent, changes>>
callVars     == <<pc, pending, results>>
windowVars   == <<previousMetrics, cpuPreviousTime, cpuCurrentTime>>
listVars     == <<Labels, idRunning>>
vars == <<dockerVars, now, callVars, containersRunning, listVars, baseMetrics,
          windowVars, inspectMetrics>>

\* A container without a name is on its way out and skipped: it is absent.
ContainerState == {"absent", "running", "paused", "stopped"}

\* A sample: the counter, and three ghosts: all that the container had spent
\* when it was taken, the start of its collection, and whether its body could
\* be parsed.
Sample == [cpu : Nat, spent : Nat, at : Nat, read : BOOLEAN]

Empty == [c \in {} |-> 0]

Running == {c \in Containers : docker[c] = "running"}

\* GetDockerInfo is called once, before anything else; when it fails all its
\* numbers are zero.
Init ==
    /\ docker \in [Containers -> ContainerState]
    /\ used = [c \in Containers |-> 0]
    /\ spent = [c \in Containers |-> 0]
    /\ changes = 0
    /\ now = 1
    /\ pc = "free"
    /\ pending = {}
    /\ results = Empty
    /\ containersRunning = IF NumberCPU = 0 THEN 0 ELSE Cardinality(Running)
    /\ Labels = Empty
    /\ idRunning = {}
    /\ baseMetrics = Empty
    /\ previousMetrics = Empty
    /\ cpuPreviousTime = 0
    /\ cpuCurrentTime = 0
    /\ inspectMetrics = {}

----------------------------------------------------------------------------
(* Docker and the clock.                                                   *)

ClockTicks ==
    /\ now < MaxTime
    /\ now' = now + 1
    /\ UNCHANGED <<dockerVars, callVars, containersRunning, listVars,
                   baseMetrics, windowVars, inspectMetrics>>

\* A container starts, pauses, continues, stops or is removed; the counter
\* survives a pause and nothing else.
ContainerChanges(c) ==
    /\ changes < MaxChanges
    /\ changes' = changes + 1
    /\ \E s \in ContainerState \ {docker[c]} :
          /\ s = "paused" => docker[c] = "running"
          /\ docker' = [docker EXCEPT ![c] = s]
          /\ used' = [used EXCEPT ![c] =
                        IF {docker[c], s} = {"running", "paused"} THEN @ ELSE 0]
    /\ UNCHANGED <<spent, now, callVars, containersRunning, listVars,
                   baseMetrics, windowVars, inspectMetrics>>

ContainerSpends(c) ==
    /\ docker[c] = "running"
    /\ MapThenSumSet(LAMBDA d : spent[d], Containers) < MaxSpent
    /\ used' = [used EXCEPT ![c] = @ + 1]
    /\ spent' = [spent EXCEPT ![c] = @ + 1]
    /\ UNCHANGED <<docker, changes, now, callVars, containersRunning, listVars,
                   baseMetrics, windowVars, inspectMetrics>>

----------------------------------------------------------------------------
(* A collection.                                                           *)

\* Mutant: the previous time moves on although nothing was sampled.
SaveAlwaysMovesTime ==
    /\ previousMetrics' =
          IF DOMAIN baseMetrics = {} THEN previousMetrics ELSE baseMetrics
    /\ cpuPreviousTime' = cpuCurrentTime

\* Only a collection with samples becomes the previous one.
SavePrevious ==
    IF DOMAIN baseMetrics = {}
    THEN UNCHANGED <<previousMetrics, cpuPreviousTime>>
    ELSE /\ previousMetrics' = baseMetrics
         /\ cpuPreviousTime' = cpuCurrentTime

Begin ==
    /\ pc = "free"
    /\ pc' = "list"
    /\ SavePrevious
    /\ cpuCurrentTime' = now
    /\ UNCHANGED <<dockerVars, now, pending, results, containersRunning,
                   listVars, baseMetrics, inspectMetrics>>

AskStatistics ==
    /\ pc = "list"
    /\ pc' = "stats"
    /\ pending' = idRunning'
    /\ results' = Empty
    /\ UNCHANGED <<dockerVars, now, containersRunning, baseMetrics, windowVars,
                   inspectMetrics>>

\* Mutant: a failed list forgets the labels and keeps the identifiers.
ListFailureKeepsIds ==
    /\ Labels' = Empty
    /\ UNCHANGED idRunning

\* A failed list is an empty one.
ForgetList ==
    /\ Labels' = Empty
    /\ idRunning' = {}

ListFails ==
    /\ ForgetList
    /\ AskStatistics

ListAnswers ==
    /\ Labels' = [c \in {d \in Containers : docker[d] # "absent"} |-> docker[c]]
    /\ idRunning' = Running
    /\ AskStatistics

SampleNow(c, read) ==
    [cpu |-> IF read THEN used[c] ELSE 0,
     spent |-> spent[c],
     at |-> cpuCurrentTime,
     read |-> read]

\* One goroutine of the collection has its answer: none, a body that cannot
\* be parsed, which counts as a sample of zeros, or the counter, which is zero
\* for a container that has stopped since it was listed.
StatisticsFail(c) ==
    /\ pc = "stats"
    /\ c \in pending
    /\ pending' = pending \ {c}
    /\ UNCHANGED <<dockerVars, now, pc, results, containersRunning, listVars,
                   baseMetrics, windowVars, inspectMetrics>>

StatisticsArrive(c) ==
    /\ pc = "stats"
    /\ c \in pending
    /\ docker[c] # "absent"
    /\ pending' = pending \ {c}
    /\ \E read \in BOOLEAN :
          results' = [d \in DOMAIN results \cup {c} |->
                        IF d = c THEN SampleNow(c, read) ELSE results[d]]
    /\ UNCHANGED <<dockerVars, now, pc, containersRunning, listVars,
                   baseMetrics, windowVars, inspectMetrics>>

\* wg.Wait is over and the map is made anew.
Gather ==
    /\ pc = "stats"
    /\ pending = {}
    /\ pc' = "inspect"
    /\ baseMetrics' = results
    /\ results' = Empty
    /\ UNCHANGED <<dockerVars, now, pending, containersRunning, listVars,
                   windowVars, inspectMetrics>>

\* getInspectMetrics answers or fails for each of the listed containers.
Inspected == SUBSET DOMAIN Labels

\* Every listed container is inspected; then the text is written and dataMu
\* released.
Inspect ==
    /\ pc = "inspect"
    /\ pc' = "free"
    /\ \E found \in Inspected : inspectMetrics' = found
    /\ UNCHANGED <<dockerVars, now, pending, results, containersRunning,
                   listVars, baseMetrics, windowVars>>

Next ==
    \/ ClockTicks
    \/ \E c \in Containers :
          \/ ContainerChanges(c)
          \/ ContainerSpends(c)
          \/ StatisticsFail(c)
          \/ StatisticsArrive(c)
    \/ Begin
    \/ ListFails
    \/ ListAnswers
    \/ Gather
    \/ Inspect

Spec == Init /\ [][Next]_vars

----------------------------------------------------------------------------
(* What a page makes of the samples while dataMu is free.                  *)

\* Mutant: Go's zero value stands for the sample that is not there.
HasPreviousAlways(c) == TRUE

HasPrevious(c) == c \in DOMAIN previousMetrics

\* prev, ok := m.previousMetrics[id]: zero when there is none.
PreviousCpu(c) == IF c \in DOMAIN previousMetrics THEN previousMetrics[c].cpu ELSE 0

Interval == cpuCurrentTime - cpuPreviousTime

\* What a sample has more than the one before.
Delta == [c \in DOMAIN baseMetrics |-> baseMetrics[c].cpu - PreviousCpu(c)]

\* cpuContainerPerc: the containers with a rate; containerNSRate has the same
\* guards.
WithRate ==
    {c \in DOMAIN baseMetrics : HasPrevious(c) /\ Interval > 0 /\ Delta[c] >= 0}

\* Mutant: a counter that went back is added to the others.
CountedWithNegative == {c \in DOMAIN baseMetrics : HasPrevious(c)}

\* cpuHostPerc: the containers it adds up.
Counted == {c \in DOMAIN baseMetrics : HasPrevious(c) /\ Delta[c] >= 0}

HostDelta == MapThenSumSet(LAMBDA c : Delta[c], Counted)

HostShown == NumberCPU > 0 /\ HostDelta > 0 /\ Interval > 0

----------------------------------------------------------------------------

AreSamples(s) == DOMAIN s \subseteq Containers /\ s \in [DOMAIN s -> Sample]

\* Types, and the order of the two times.
TypeOK ==
    /\ docker \in [Containers -> ContainerState]
    /\ used \in [Containers -> Nat]
    /\ spent \in [Containers -> Nat]
    /\ changes \in 0 .. MaxChanges
    /\ now \in 1 .. MaxTime
    /\ pc \in {"free", "list", "stats", "inspect"}
    /\ pending \subseteq Containers
    /\ containersRunning \in Nat
    /\ idRunning \subseteq Containers
    /\ inspectMetrics \subseteq Containers
    /\ DOMAIN Labels \subseteq Containers
    /\ Labels \in [DOMAIN Labels -> ContainerState]
    /\ AreSamples(results)
    /\ AreSamples(baseMetrics)
    /\ AreSamples(previousMetrics)
    /\ cpuPreviousTime \in 0 .. now
    /\ cpuCurrentTime \in cpuPreviousTime .. now

\* The interval that divides a rate is the one between its two samples:
\* previousMetrics is of the collection that began at cpuPreviousTime, also
\* when collections in between have sampled nothing, and baseMetrics of the
\* one that began at cpuCurrentTime (metrics.go 410-425).
MatchedSamples ==
    /\ \A c \in DOMAIN previousMetrics : previousMetrics[c].at = cpuPreviousTime
    /\ pc \in {"free", "inspect"} =>
          \A c \in DOMAIN baseMetrics : baseMetrics[c].at = cpuCurrentTime

\* A page never shows more CPU time than the container has spent between the
\* two samples, through pauses, restarts, failed calls and skipped
\* collections, unless the older sample is the zeroed structure of a body
\* that could not be parsed (dashboard.go 250-293).
RateNotOverstated ==
    pc = "free" =>
        \A c \in WithRate :
            /\ c \in DOMAIN previousMetrics
            /\ previousMetrics[c].read =>
                  Delta[c] <= baseMetrics[c].spent - previousMetrics[c].spent

\* Statistics and inspect data are of containers of the same list, statistics
\* of those it showed running: neither the text nor a page can show a
\* container that Labels does not know, or dereference its missing labels
\* (metrics.go 609-616).
DataOfListed ==
    pc = "free" =>
        /\ DOMAIN baseMetrics \subseteq {c \in DOMAIN Labels : Labels[c] = "running"}
        /\ inspectMetrics \subseteq DOMAIN Labels

\* What each container that was sampled twice has spent in between.
SpentBetween ==
    [c \in DOMAIN baseMetrics \cap DOMAIN previousMetrics |->
        baseMetrics[c].spent - previousMetrics[c].spent]

\* The share of the host and the rows are computed apart and agree: a share is
\* shown exactly when some row shows a load, it is no smaller than that of any
\* row, though the counter of another container went back, and no more than
\* the containers have spent between their two samples, however many started,
\* vanished or were not sampled in between.  The last needs older samples with
\* bodies that could be parsed (dashboard.go 250-293).
HostShareIsOfRows ==
    pc = "free" /\ NumberCPU > 0 =>
        /\ HostShown <=> \E c \in WithRate : Delta[c] > 0
        /\ HostShown =>
              /\ \A c \in WithRate : Delta[c] <= HostDelta
              /\ (\A c \in WithRate : previousMetrics[c].read) =>
                    HostDelta <= MapThenSumSet(LAMBDA c : SpentBetween[c],
                                               DOMAIN SpentBetween)

\* docker_container_running_count is the number of running containers: as many
\* as the status metrics of the same answer show (metrics.go 597-599).
RunningCountIsCurrent ==
    pc = "free" /\ DOMAIN Labels # {} =>
        containersRunning = Cardinality(idRunning)

=============================================================================
