----------------------------- MODULE LogStreams -----------------------------
(***************************************************************************)
(* Log collection of internal/logs/stream.go: the manager Run, which keeps *)
(* a map from container to streamer and brings it up to date with the list *)
(* of running containers, and the streamer goroutines, streamGetLogs, each *)
(* of which follows the log of one container and hands its lines to Loki.  *)
(*                                                                         *)
(* The lines of a container are numbered in the order it writes them; a    *)
(* timestamp stands for the position of a line.  The Docker daemon is the  *)
(* environment: it may be away, and then every call fails and every open   *)
(* log stream breaks.  A single failing call is a short absence.           *)
(***************************************************************************)
EXTENDS Integers, FiniteSets

CONSTANTS
    Containers,
    Slots,        \* bound: goroutines of one container alive at once
    NoStreamer,   \* the map has no entry
    MaxLines      \* bound: lines a container writes

\* The streamer goroutines: a container and a slot, reused after the goroutine
\* in it has ended.
Goroutines == Containers \X Slots

\* "None" is not a streamer.
ASSUME NoStreamerAssumption == NoStreamer \notin Goroutines

\* The bound is a number.
ASSUME MaxLinesAssumption == MaxLines \in Nat

VARIABLES
    \* The environment
    dockerUp,     \* the daemon answers
    cstate,       \* state of each container
    written,      \* lines each container has written
    ctxDone,      \* the context of Run is cancelled
    \* Run
    mgr,          \* where the manager is
    snapshot,     \* the running containers in the answer of ContainerList
    streamers,    \* the map of working streams
    \* streamGetLogs, per goroutine
    pc,           \* where it is; "exited" also means that done is closed
    cancelled,    \* the manager has called cancel
    since,        \* lastTimestamp: the first line a connection asks for
    next,         \* the next line of the open log stream
    gotData,      \* the open log stream has delivered a line
    \* History
    born,         \* the first line written after the goroutine started
    last,         \* the last line the goroutine has sent, or born - 1
    submitted     \* the lines of each container handed to LokiClient.Send

dockerVars   == <<dockerUp, cstate, written>>
mgrVars      == <<mgr, snapshot, streamers>>
streamVars   == <<since, next, gotData, born, last>>
vars == <<dockerVars, ctxDone, mgrVars, pc, cancelled, streamVars, submitted>>

\* "paused" stands for the states in which inspect reports Running although
\* ContainerList does not show the container as running: paused, restarting.
ContainerState == {"running", "paused", "exited"}

ManagerState == {"refresh",    \* waiting for ContainerList
                 "apply",      \* with a list, about to update the map
                 "wait",       \* in the select of the main loop
                 "returned"}

StreamerState == {"start",       \* go func, before lastTimestamp is set
                  "open",        \* calling ContainerLogs
                  "openFailed",  \* ContainerLogs has failed
                  "reading",     \* in streamParseLogs
                  "ended",       \* streamParseLogs has returned
                  "sleep",       \* five seconds before the next connection
                  "exited"}      \* returned; no goroutine before the first use

Init ==
    /\ dockerUp = TRUE
    /\ cstate \in [Containers -> ContainerState]
    /\ written = [c \in Containers |-> 0]
    /\ ctxDone = FALSE
    /\ mgr = "refresh"
    /\ snapshot = {}
    /\ streamers = [c \in Containers |-> NoStreamer]
    /\ pc = [g \in Goroutines |-> "exited"]
    /\ cancelled = [g \in Goroutines |-> FALSE]
    /\ since = [g \in Goroutines |-> 0]
    /\ next = [g \in Goroutines |-> 0]
    /\ gotData = [g \in Goroutines |-> FALSE]
    /\ born = [g \in Goroutines |-> 0]
    /\ last = [g \in Goroutines |-> 0]
    /\ submitted = [c \in Containers |-> {}]

-----------------------------------------------------------------------------
(* The environment: the daemon, the containers, and main, which cancels the *)
(* context of Run on shutdown.                                              *)

DockerGoesOrComes ==
    /\ dockerUp' = ~dockerUp
    /\ UNCHANGED <<cstate, written, ctxDone, mgrVars, pc, cancelled, streamVars, submitted>>

ContainerChanges(c) ==
    /\ \E st \in ContainerState \ {cstate[c]} : cstate' = [cstate EXCEPT ![c] = st]
    /\ UNCHANGED <<dockerUp, written, ctxDone, mgrVars, pc, cancelled, streamVars, submitted>>

ContainerWrites(c) ==
    /\ cstate[c] = "running"
    /\ written[c] < MaxLines
    /\ written' = [written EXCEPT ![c] = @ + 1]
    /\ UNCHANGED <<dockerUp, cstate, ctxDone, mgrVars, pc, cancelled, streamVars, submitted>>

MainCancels ==
    /\ ~ctxDone
    /\ ctxDone' = TRUE
    /\ UNCHANGED <<dockerVars, mgrVars, pc, cancelled, streamVars, submitted>>

-----------------------------------------------------------------------------
(* The manager                                                             *)

\* The list cannot be had: the streamers stay as they are.
ListFails ==
    /\ mgr = "refresh"
    /\ ~dockerUp \/ ctxDone
    /\ mgr' = "wait"
    /\ UNCHANGED <<dockerVars, ctxDone, snapshot, streamers, pc, cancelled, streamVars, submitted>>

ListAnswers ==
    /\ mgr = "refresh"
    /\ dockerUp /\ ~ctxDone
    /\ snapshot' = {c \in Containers : cstate[c] = "running"}
    /\ mgr' = "apply"
    /\ UNCHANGED <<dockerVars, ctxDone, streamers, pc, cancelled, streamVars, submitted>>

Has(c) == streamers[c] # NoStreamer

\* Mutant: a streamer that has ended stays in the map.
KeepsEndedStreamer(c) == Has(c) /\ c \in snapshot

\* Mutant: a cancelled streamer stays in the map.
KeepsCancelledStreamer(c) == Has(c) /\ pc[streamers[c]] # "exited"

\* Mutant: the streamer of a stopped container is forgotten but not cancelled.
ForgetsCancel(c) == FALSE

\* A streamer that has ended by itself is forgotten, one whose container is
\* not listed as running is cancelled and forgotten, and the others stay.
Stays(c) == Has(c) /\ pc[streamers[c]] # "exited" /\ c \in snapshot

IsCancelled(c) == Has(c) /\ pc[streamers[c]] # "exited" /\ c \notin snapshot

\* The running containers without a streamer get one.
ToStart == {c \in snapshot : ~Stays(c)}

Free(c) == {g \in Goroutines : g[1] = c /\ pc[g] = "exited"}

\* The update of the map.  It is one step: what it does for one container
\* neither reads nor writes anything of another one.  The model has Slots
\* goroutines per container; with all of them busy the update waits.
Apply ==
    /\ mgr = "apply"
    /\ \E started \in [ToStart -> Goroutines] :
          /\ \A c \in ToStart : started[c] \in Free(c)
          /\ streamers' = [c \in Containers |->
                              IF c \in ToStart THEN started[c]
                              ELSE IF Stays(c) THEN streamers[c] ELSE NoStreamer]
          /\ pc' = [g \in Goroutines |->
                       IF g[1] \in ToStart /\ g = started[g[1]] THEN "start" ELSE pc[g]]
    /\ cancelled' = [g \in Goroutines |->
                        cancelled[g] \/ (IsCancelled(g[1]) /\ g = streamers[g[1]])]
    /\ snapshot' = {}
    /\ mgr' = "wait"
    /\ UNCHANGED <<dockerVars, ctxDone, streamVars, submitted>>

\* case <-ticker.C
Tick ==
    /\ mgr = "wait"
    /\ mgr' = "refresh"
    /\ UNCHANGED <<dockerVars, ctxDone, snapshot, streamers, pc, cancelled, streamVars, submitted>>

\* Mutant: the streamers are cancelled, but the loop goes on.
CancelsWithoutReturn ==
    /\ mgr = "wait"
    /\ ctxDone
    /\ cancelled' = [g \in Goroutines |->
                        cancelled[g] \/ (pc[g] # "exited" /\ streamers[g[1]] = g)]
    /\ UNCHANGED <<dockerVars, ctxDone, mgrVars, pc, streamVars, submitted>>

\* case <-ctx.Done()
Return ==
    /\ mgr = "wait"
    /\ ctxDone
    /\ cancelled' = [g \in Goroutines |->
                        cancelled[g] \/ (pc[g] # "exited" /\ streamers[g[1]] = g)]
    /\ mgr' = "returned"
    /\ UNCHANGED <<dockerVars, ctxDone, snapshot, streamers, pc, streamVars, submitted>>

-----------------------------------------------------------------------------
(* The streamers.  The context of a streamer is derived from that of Run.   *)

Stopped(g) == cancelled[g] \/ ctxDone

\* Mutant: the streamer calls Docker with a context of its own.
AnswersAfterCancel(g) == dockerUp

\* A call to Docker is answered, or the open log stream goes on: the calls use
\* the context of the streamer.
Answers(g) == dockerUp /\ ~Stopped(g)

\* The result of containerRunning: false as well when inspect fails.
ContainerRunning(g) == Answers(g) /\ cstate[g[1]] # "exited"

Go(g, to) == pc' = [pc EXCEPT ![g] = to]

\* The goroutine returns and closes done; its variables are gone.
Exit(g) ==
    /\ Go(g, "exited")
    /\ cancelled' = [cancelled EXCEPT ![g] = FALSE]
    /\ since' = [since EXCEPT ![g] = 0]
    /\ next' = [next EXCEPT ![g] = 0]
    /\ gotData' = [gotData EXCEPT ![g] = FALSE]
    /\ born' = [born EXCEPT ![g] = 0]
    /\ last' = [last EXCEPT ![g] = 0]

\* lastTimestamp := time.Now()
Start(g) ==
    /\ pc[g] = "start"
    /\ Go(g, "open")
    /\ since' = [since EXCEPT ![g] = written[g[1]] + 1]
    /\ born' = [born EXCEPT ![g] = written[g[1]] + 1]
    /\ last' = [last EXCEPT ![g] = written[g[1]]]
    /\ UNCHANGED <<dockerVars, ctxDone, mgrVars, cancelled, next, gotData, submitted>>

\* Docker delivers the lines from since on, the line at since included.
OpenAnswers(g) ==
    /\ pc[g] = "open"
    /\ Answers(g)
    /\ Go(g, "reading")
    /\ next' = [next EXCEPT ![g] = since[g]]
    /\ gotData' = [gotData EXCEPT ![g] = FALSE]
    /\ UNCHANGED <<dockerVars, ctxDone, mgrVars, cancelled, since, born, last, submitted>>

OpenFails(g) ==
    /\ pc[g] = "open"
    /\ ~Answers(g)
    /\ Go(g, "openFailed")
    /\ UNCHANGED <<dockerVars, ctxDone, mgrVars, cancelled, streamVars, submitted>>

\* After a failed open: sleep and try again while the container runs.
AfterOpenFailed(g) ==
    /\ pc[g] = "openFailed"
    /\ IF ContainerRunning(g)
       THEN Go(g, "sleep") /\ UNCHANGED <<cancelled, streamVars>>
       ELSE Exit(g)
    /\ UNCHANGED <<dockerVars, ctxDone, mgrVars, submitted>>

\* Mutant: the timestamp of the line is not remembered.
ReadForgetsTimestamp(g) ==
    /\ pc[g] = "reading"
    /\ next[g] <= written[g[1]]
    /\ submitted' = [submitted EXCEPT ![g[1]] = @ \cup {next[g]}]
    /\ last' = [last EXCEPT ![g] = next[g]]
    /\ next' = [next EXCEPT ![g] = @ + 1]
    /\ gotData' = [gotData EXCEPT ![g] = TRUE]
    /\ UNCHANGED <<dockerVars, ctxDone, mgrVars, pc, cancelled, since, born>>

\* One line: remember its timestamp, hand it to Send.  What the socket has
\* buffered can be read after a cancel and after the daemon went away.
Read(g) ==
    /\ pc[g] = "reading"
    /\ next[g] <= written[g[1]]
    /\ submitted' = [submitted EXCEPT ![g[1]] = @ \cup {next[g]}]
    /\ since' = [since EXCEPT ![g] = next[g]]
    /\ last' = [last EXCEPT ![g] = next[g]]
    /\ next' = [next EXCEPT ![g] = @ + 1]
    /\ gotData' = [gotData EXCEPT ![g] = TRUE]
    /\ UNCHANGED <<dockerVars, ctxDone, mgrVars, pc, cancelled, born>>

\* The log stream ends when the daemon goes, the context is cancelled, or the
\* container does not run any more and its lines are read.
StreamEnds(g) ==
    /\ pc[g] = "reading"
    /\ \/ ~Answers(g)
       \/ cstate[g[1]] = "exited" /\ next[g] > written[g[1]]
    /\ Go(g, "ended")
    /\ UNCHANGED <<dockerVars, ctxDone, mgrVars, cancelled, streamVars, submitted>>

\* After a log stream: return when cancelled, or when the stream was empty and
\* the container does not run; sleep and connect again otherwise.
AfterStream(g) ==
    /\ pc[g] = "ended"
    /\ IF Stopped(g) \/ (~gotData[g] /\ ~ContainerRunning(g))
       THEN Exit(g)
       ELSE Go(g, "sleep") /\ UNCHANGED <<cancelled, streamVars>>
    /\ UNCHANGED <<dockerVars, ctxDone, mgrVars, submitted>>

\* sleepCtx: the timer, or the context.
Wake(g) ==
    /\ pc[g] = "sleep"
    /\ Go(g, "open")
    /\ UNCHANGED <<dockerVars, ctxDone, mgrVars, cancelled, streamVars, submitted>>

SleepCancelled(g) ==
    /\ pc[g] = "sleep"
    /\ Stopped(g)
    /\ Exit(g)
    /\ UNCHANGED <<dockerVars, ctxDone, mgrVars, submitted>>

Streamer(g) ==
    \/ Start(g)
    \/ OpenAnswers(g)
    \/ OpenFails(g)
    \/ AfterOpenFailed(g)
    \/ Read(g)
    \/ StreamEnds(g)
    \/ AfterStream(g)
    \/ Wake(g)
    \/ SleepCancelled(g)

Manager ==
    \/ ListFails
    \/ ListAnswers
    \/ Apply
    \/ Tick
    \/ Return

Environment ==
    \/ DockerGoesOrComes
    \/ \E c \in Containers : ContainerChanges(c) \/ ContainerWrites(c)
    \/ MainCancels

Next ==
    \/ Environment
    \/ Manager
    \/ \E g \in Goroutines : Streamer(g)

(***************************************************************************)
(* Fairness: the runtime schedules every goroutine, tickers and timers     *)
(* fire, calls to Docker return, and a select that finds ctx.Done ready    *)
(* again and again takes it in the end.  Nothing is assumed of Docker, of  *)
(* the containers, or of main.                                             *)
(***************************************************************************)
Fairness ==
    /\ WF_vars(Manager)
    /\ SF_vars(Return)
    /\ \A g \in Goroutines : WF_vars(Streamer(g))

Spec == Init /\ [][Next]_vars

FairSpec == Spec /\ Fairness

-----------------------------------------------------------------------------
(* Properties                                                              *)

\* Type correctness of the manager, the streamers and the history.
TypeOK ==
    /\ dockerUp \in BOOLEAN
    /\ cstate \in [Containers -> ContainerState]
    /\ written \in [Containers -> 0 .. MaxLines]
    /\ ctxDone \in BOOLEAN
    /\ mgr \in ManagerState
    /\ snapshot \in SUBSET Containers
    /\ streamers \in [Containers -> Goroutines \cup {NoStreamer}]
    /\ pc \in [Goroutines -> StreamerState]
    /\ cancelled \in [Goroutines -> BOOLEAN]
    /\ since \in [Goroutines -> 0 .. MaxLines + 1]
    /\ next \in [Goroutines -> 0 .. MaxLines + 1]
    /\ gotData \in [Goroutines -> BOOLEAN]
    /\ born \in [Goroutines -> 0 .. MaxLines + 1]
    /\ last \in [Goroutines -> 0 .. MaxLines]
    /\ submitted \in [Containers -> SUBSET (1 .. MaxLines)]

Alive(g) == pc[g] # "exited"

\* A goroutine that was not told to stop is the one the map has for its
\* container, so that the manager can still stop it and no container is ever
\* collected by two streamers, although streamers end by themselves, are
\* replaced while they still run, and containers come and go between the list
\* and the update.
NoOrphanStreamer ==
    \A g \in Goroutines : Alive(g) /\ ~cancelled[g] => streamers[g[1]] = g

\* The map never keeps a streamer that was told to stop, while Run runs: a
\* container that is back is not left without collection.
MapHoldsWorkingStreamers ==
    mgr # "returned" =>
        \A c \in Containers : Has(c) => ~cancelled[streamers[c]]

\* "When reconnecting to the Docker API, we continue from the last timestamp"
\* (stream.go:142): a streamer has handed over every line from its start to its
\* last one, and the connection it reads from, the first or a later one, is at
\* the line after it or repeats that one line and no other.
ContinuesFromLastLine ==
    \A g \in Goroutines : pc[g] = "reading" =>
        /\ born[g] .. last[g] \subseteq submitted[g[1]]
        /\ next[g] \in {last[g], last[g] + 1}
        /\ next[g] >= born[g]

\* A goroutine told to stop ends, wherever the cancel finds it.
CancelledStreamersEnd ==
    \A g \in Goroutines : (Alive(g) /\ Stopped(g)) ~> ~Alive(g)

\* When main cancels the context, Run returns and no streamer is left.
RunWindsUp ==
    ctxDone ~> (mgr = "returned" /\ \A g \in Goroutines : ~Alive(g))

Current(c) == streamers[c]

\* While Docker answers and a container keeps running, it ends up with a
\* streamer for good, and that streamer hands over all it wrote since: neither
\* a lost connection nor a failed inspect leaves it without collection.
RunningContainersAreCollected ==
    \A c \in Containers :
        <>[](dockerUp /\ cstate[c] = "running" /\ ~ctxDone)
            => <>[](/\ Has(c)
                    /\ pc[Current(c)] = "reading"
                    /\ born[Current(c)] .. written[c] \subseteq submitted[c])

\* A container that stays down loses its streamer, although the streamer keeps
\* getting the last line on every connection and would go on by itself.
StoppedContainersAreLeft ==
    \A c \in Containers :
        <>[](dockerUp /\ cstate[c] = "exited")
            => <>[](\A s \in Slots : ~Alive(<<c, s>>))

=============================================================================
