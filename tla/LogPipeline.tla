---------------------------- MODULE LogPipeline -----------------------------
(***************************************************************************)
(* Log collection from the container to Loki, as main.go composes it: the  *)
(* manager and the streamers of LogStreams hand every line they read to    *)
(* Send of the one LokiClient, and the shutdown of main cancels the former *)
(* and stops the latter without waiting for the streamers.                 *)
(*                                                                         *)
(* Each component keeps its own variables.  Reading a line and sending it  *)
(* is one step of both; every other step belongs to one of them.           *)
(***************************************************************************)
EXTENDS Integers, FiniteSets, SequencesExt

CONSTANTS
    Containers, Slots, NoStreamer, MaxLines,   \* of LogStreams
    BufferSize, BatchSize, MaxSends,           \* of LokiClient
    ErrLines,      \* the numbers of the lines written to stderr
    MaxChanges     \* bound: times the daemon or a container changes

\* The assumptions of the two components.
ASSUME PartsAssumption ==
    /\ NoStreamer \notin Containers \X Slots
    /\ IsFiniteSet(Containers)
    /\ MaxLines \in Nat
    /\ BufferSize \in Nat \ {0}
    /\ BatchSize \in Nat \ {0}
    /\ MaxSends \in Nat

\* The bounds are numbers.
ASSUME BoundsAssumption ==
    /\ ErrLines \subseteq 1 .. MaxLines
    /\ MaxChanges \in Nat

VARIABLES
    \* of LogStreams
    dockerUp, cstate, written, ctxDone, mgr, snapshot, streamers, pc, cancelled,
    since, next, gotData, born, last, submitted,
    \* of LokiClient
    sent, entries, done, dropped, streams, order, size, tick, loop, stopped,
    received, failed, atStop,
    \* of main and of the composition
    main,        \* where main is
    changes,     \* changes of the environment so far
    spawned,     \* history: streamers started in each slot
    handed       \* history: the lines sent with each key, in order

streamsVars == <<dockerUp, cstate, written, ctxDone, mgr, snapshot, streamers, pc,
                 cancelled, since, next, gotData, born, last, submitted>>
lokiVars == <<sent, entries, done, dropped, streams, order, size, tick, loop,
              stopped, received, failed, atStop>>
historyVars == <<spawned, handed>>
vars == <<streamsVars, lokiVars, main, changes, historyVars>>

\* stdoutKey and stderrKey: the labels of a container with those of the output.
Keys == Containers \X {"stdout", "stderr"}

LabelsKey(c, line) == <<c, IF line \in ErrLines THEN "stderr" ELSE "stdout">>

Streams == INSTANCE LogStreams

Loki == INSTANCE LokiClient

MainState == {"serving",     \* in the select on stop and serverErr
              "shutdown",    \* has called lokiCancel, in httpServer.Shutdown
              "stopping",    \* in the deferred lokiClient.Stop
              "exited"}      \* returned: the process and its goroutines are gone

Init ==
    /\ Streams!Init
    /\ Loki!Init
    /\ main = "serving"
    /\ changes = 0
    /\ spawned = [g \in Streams!Goroutines |-> 0]
    /\ handed = [k \in Keys |-> <<>>]

-----------------------------------------------------------------------------

\* A step of the components while the process lives.
StreamsStep(A) == A /\ main # "exited" /\ UNCHANGED <<lokiVars, main>>

LokiStep(A) == A /\ main # "exited" /\ UNCHANGED <<streamsVars, main, changes, historyVars>>

EnvironmentChanges ==
    /\ changes < MaxChanges
    /\ changes' = changes + 1
    /\ StreamsStep(\/ Streams!DockerGoesOrComes
                   \/ \E c \in Containers : Streams!ContainerChanges(c))
    /\ UNCHANGED historyVars

ContainerWrites(c) ==
    StreamsStep(Streams!ContainerWrites(c)) /\ UNCHANGED <<changes, historyVars>>

Manager == StreamsStep(Streams!Manager) /\ UNCHANGED <<changes, historyVars>>

StreamerStarts(g) ==
    /\ StreamsStep(Streams!Start(g))
    /\ spawned' = [spawned EXCEPT ![g] = @ + 1]
    /\ UNCHANGED <<changes, handed>>

\* The steps of a streamer that do not touch the Loki client.
StreamerAlone(g) ==
    /\ StreamsStep(\/ Streams!OpenAnswers(g)
                   \/ Streams!OpenFails(g)
                   \/ Streams!AfterOpenFailed(g)
                   \/ Streams!StreamEnds(g)
                   \/ Streams!AfterStream(g)
                   \/ Streams!Wake(g)
                   \/ Streams!SleepCancelled(g))
    /\ UNCHANGED <<changes, historyVars>>

\* A line as it was handed over: its number, the streamer, and whether it was
\* the first of its connection.
HandedOver(g) == [line |-> next[g], by |-> <<g, spawned[g]>>, first |-> ~gotData[g]]

\* The callback of streamParseLogs: key and labels by output, then Send.
ReadAndSend(g) ==
    LET k == LabelsKey(g[1], next[g])
    IN  /\ main # "exited"
        /\ Streams!Read(g)
        /\ Loki!Send(k)
        /\ handed' = [handed EXCEPT ![k] = Append(@, HandedOver(g))]
        /\ UNCHANGED <<main, changes, spawned>>

Streamer(g) == StreamerStarts(g) \/ StreamerAlone(g) \/ ReadAndSend(g)

PushReturns == \E stored \in BOOLEAN : Loki!PushReturns(stored)

BatchLoop ==
    LokiStep(\/ Loki!TakeEntry
             \/ Loki!TakeTick
             \/ Loki!TakeDone
             \/ PushReturns)

TickFires == LokiStep(Loki!TickFires)

\* A signal, or a server that cannot start: lokiCancel.  The second way skips
\* httpServer.Shutdown, which only makes the next step come sooner.
MainCancels ==
    /\ main = "serving"
    /\ Streams!MainCancels
    /\ main' = "shutdown"
    /\ UNCHANGED <<lokiVars, changes, historyVars>>

\* httpServer.Shutdown has returned, main returns: the deferred Stop.
MainStops ==
    /\ main = "shutdown"
    /\ Loki!StopCloses
    /\ main' = "stopping"
    /\ UNCHANGED <<streamsVars, changes, historyVars>>

MainExits ==
    /\ main = "stopping"
    /\ Loki!StopReturns
    /\ main' = "exited"
    /\ UNCHANGED <<streamsVars, changes, historyVars>>

Main == MainCancels \/ MainStops \/ MainExits

Next ==
    \/ EnvironmentChanges
    \/ \E c \in Containers : ContainerWrites(c)
    \/ Manager
    \/ \E g \in Streams!Goroutines : Streamer(g)
    \/ BatchLoop
    \/ TickFires
    \/ Main

Spec == Init /\ [][Next]_vars

(***************************************************************************)
(* Fairness: that of the components, for the composed steps.  Nothing is   *)
(* assumed of main: the property below is about the time while it serves.  *)
(***************************************************************************)
Fairness ==
    /\ WF_vars(Manager)
    /\ SF_vars(LokiStep(Loki!TakeEntry))
    /\ SF_vars(LokiStep(Loki!TakeTick))
    /\ SF_vars(LokiStep(Loki!TakeDone))
    /\ WF_vars(LokiStep(PushReturns))
    /\ WF_vars(TickFires)
    /\ \A g \in Streams!Goroutines : WF_vars(Streamer(g))

FairSpec == Spec /\ Fairness

-----------------------------------------------------------------------------
(* Properties                                                              *)

\* What Loki has stored with a key: the lines as they were handed over.
Stored(k) == [i \in DOMAIN received[k] |-> handed[k][received[k][i]]]

\* From the container to Loki, across reconnections, failed pushes and a full
\* channel: the lines one streamer has collected are stored in the order they
\* were written, and a line comes again only as the first of a new connection
\* (stream.go:142).
StoredAsWritten ==
    \A k \in Keys : \A i, j \in DOMAIN received[k] :
        LET a == Stored(k)[i]
            b == Stored(k)[j]
        IN  i < j /\ a.by = b.by => a.line < b.line \/ (a.line = b.line /\ b.first)

\* The lines of a container that are in Loki or on their way.
Reached(c) ==
    UNION {{handed[k][n].line :
               n \in {n \in DOMAIN handed[k] : n \in Range(received[k]) \/ Loki!HoldsLine(k, n)}} :
           k \in {k \in Keys : k[1] = c}}

\* A line that a streamer has read and that neither is in Loki nor on its way
\* there was counted, as dropped or in a failed push, until Stop is called.
LossIsCounted ==
    ~done => \A c \in Containers :
                 Cardinality(submitted[c] \ Reached(c)) <= dropped + failed

\* A reconnection loses nothing and repeats at most one line, although the
\* lines now pass through Send.
ContinuesFromLastLine == Streams!ContinuesFromLastLine

\* The line that a streamer reads next is not held back by the bound on sends.
BoundNotFelt ==
    \A g \in Streams!Goroutines :
        pc[g] = "reading" /\ next[g] <= written[g[1]]
            => sent[LabelsKey(g[1], next[g])] < MaxSends

StoredLines(c) ==
    UNION {{Stored(k)[i].line : i \in DOMAIN received[k]} : k \in {k \in Keys : k[1] = c}}

\* While Docker answers, Loki accepts, and the channel has room, what a running
\* container writes from the start of its streamer on arrives in Loki, the last
\* lines too, although they do not fill a batch.
LinesArrive ==
    \A c \in Containers :
        <>[](/\ dockerUp /\ cstate[c] = "running" /\ main = "serving"
             /\ dropped + failed = 0
             /\ BoundNotFelt)
            => <>[](/\ Streams!Has(c)
                    /\ born[streamers[c]] .. written[c] \subseteq StoredLines(c))

=============================================================================
