------------------------------ MODULE LiveLogs ------------------------------
(***************************************************************************)
(* The log viewer of the dashboard and the server behind it: the sessions  *)
(* of internal/dashboard/dashboard.js (open, loadHistory, startStream,     *)
(* pollTick, closeStream, close), the endpoint /api/containers/{id}/logs   *)
(* of main.go, and StreamSSE of internal/logs/sse.go.                      *)
(*                                                                         *)
(* The viewer asks for the last lines and, when they have arrived, follows *)
(* the log: through an EventSource, which reconnects by itself to the URL  *)
(* it was made with, or by polling.  Requests are never cancelled: their   *)
(* answers arrive whatever has been opened, cleared or closed since.       *)
(*                                                                         *)
(* A line is a container and a number, which is also its time; two lines   *)
(* are written in every second, and since is sent in whole seconds.        *)
(***************************************************************************)
EXTENDS Integers, FiniteSets, Sequences, SequencesExt

CONSTANTS
    Containers,
    NoContainer,
    Requests,       \* history and poll requests on their way
    Handlers,       \* StreamSSE calls at the server
    NoHandler,
    HistoryLines,   \* tail of a history request
    MaxLines,       \* bound on the lines a container writes
    MaxSessions,    \* bound on the resets of the view
    MaxShown        \* bound on the lines in the view

\* "None" is not a member, and the bounds are numbers.
ASSUME NoneAssumption == NoContainer \notin Containers /\ NoHandler \notin Handlers
ASSUME LinesAssumption == HistoryLines \in Nat \ {0} /\ MaxLines \in Nat

VARIABLES
    written,    \* how many lines Docker has of every container
    ssemode,    \* the browser has EventSource
    cur,        \* the container in the view, NoContainer when it is hidden
    follow,
    selected,   \* stdout or stderr is checked
    logs,
    es,         \* the EventSource
    pollTimer,
    request,
    handler,
    session,    \* how often the view has been reset
    late        \* a request of another view has added lines (ghost)

viewVars == <<cur, follow, selected, logs, session, late>>
vars == <<written, ssemode, viewVars, es, pollTimer, request, handler>>

Second(n) == (n + 1) \div 2

Line == [c : Containers, n : 1 .. MaxLines]

NoSource == [state |-> "none", c |-> NoContainer, since |-> 0, h |-> NoHandler]

NoRequest == [kind |-> "none", c |-> NoContainer, session |-> 0, blank |-> FALSE,
              since |-> 0, lines |-> <<>>]

NoStream == [state |-> "free", c |-> NoContainer, last |-> 0, at |-> 0,
             client |-> FALSE]

Init ==
    /\ written = [c \in Containers |-> 0]
    /\ ssemode \in BOOLEAN
    /\ cur = NoContainer
    /\ follow = TRUE
    /\ selected = TRUE
    /\ logs = <<>>
    /\ es = NoSource
    /\ pollTimer = FALSE
    /\ request = [r \in Requests |-> NoRequest]
    /\ handler = [h \in Handlers |-> NoStream]
    /\ session = 0
    /\ late = FALSE

ContainerWrites(c) ==
    /\ written[c] < MaxLines
    /\ written' = [written EXCEPT ![c] = @ + 1]
    /\ UNCHANGED <<ssemode, viewVars, es, pollTimer, request, handler>>

----------------------------------------------------------------------------
(* What Docker answers.                                                    *)

\* The first of the last tail lines that are not before the second since.
First(c, since, tail) == Max({2 * since - 1, written[c] - tail + 1, 1})

LinesFrom(c, first) ==
    [i \in 1 .. written[c] - first + 1 |-> [c |-> c, n |-> first + i - 1]]

\* Mutant: what is there since then comes first.
FollowsSince(c, since) == Min({Max({2 * since - 2, 0}), written[c]})

\* A stream with tail 0 begins after the lines that are there, whatever since.
FollowsAfter(c, since) == written[c]

----------------------------------------------------------------------------
(* Parts of the handlers in dashboard.js.                                  *)

\* addLine leaves out a line that equals the one before.
WithLines(lines) ==
    IF lines # <<>> /\ logs # <<>> /\ Head(lines) = Last(logs)
    THEN logs \o Tail(lines)
    ELSE logs \o lines

\* Mutant: polls ask for what is after the last second.
SinceNextSecond(c, shown) ==
    IF shown = <<>>
    THEN {Second(written[c]), Second(written[c]) + 1}
    ELSE {Second(Last(shown).n) + 1}

\* lastTs || now.
SinceOf(c, shown) ==
    IF shown = <<>>
    THEN {Second(written[c]), Second(written[c]) + 1}
    ELSE {Second(Last(shown).n)}

Reset == session' = session + 1 /\ late' = FALSE /\ logs' = <<>>

\* ES.close(): the server sees the connection go.
Disconnected(h) ==
    IF h = NoHandler THEN handler ELSE [handler EXCEPT ![h].client = FALSE]

CloseStream ==
    /\ es' = NoSource
    /\ pollTimer' = FALSE
    /\ handler' = Disconnected(es.h)

Poll(c, shown) ==
    {[kind |-> "poll", c |-> c, session |-> session', blank |-> shown = <<>>,
      since |-> s, lines |-> <<>>] : s \in SinceOf(c, shown)}

\* Mutant: the view may have been closed since the history was asked for.
StartsAnyway(r, c, shown) ==
    IF follow' /\ selected' /\ ssemode
    THEN /\ \E s \in SinceOf(IF c = NoContainer THEN CHOOSE d \in Containers : TRUE ELSE c, <<>>) :
               es' = [state |-> "connecting", c |-> c, since |-> s, h |-> NoHandler]
         /\ pollTimer' = FALSE
         /\ handler' = Disconnected(es.h)
         /\ request' = [request EXCEPT ![r] = NoRequest]
    ELSE CloseStream /\ request' = [request EXCEPT ![r] = NoRequest]

\* startStream on container c with the lines shown; a first poll takes the
\* place of request r.
StartStream(r, c, shown) ==
    IF c = NoContainer \/ ~follow' \/ ~selected'
    THEN CloseStream /\ request' = [request EXCEPT ![r] = NoRequest]
    ELSE
    /\ handler' = Disconnected(es.h)
    /\ IF ssemode
       THEN /\ \E s \in SinceOf(c, shown) :
                  es' = [state |-> "connecting", c |-> c, since |-> s, h |-> NoHandler]
            /\ pollTimer' = FALSE
            /\ request' = [request EXCEPT ![r] = NoRequest]
       ELSE /\ es' = NoSource
            /\ pollTimer' = TRUE
            /\ \E p \in Poll(c, shown) : request' = [request EXCEPT ![r] = p]

\* loadHistory: with no stream selected or no lines wanted, straight on.
LoadHistory(r, c) ==
    \/ StartStream(r, c, <<>>)
    \/ /\ selected'
       /\ CloseStream
       /\ request' = [request EXCEPT ![r] =
             [kind |-> "history", c |-> c, session |-> session', blank |-> TRUE,
              since |-> 0, lines |-> <<>>]]

Free(r) == request[r].kind = "none"

----------------------------------------------------------------------------
(* What the user does.                                                     *)

Open(r, c) ==
    /\ cur = NoContainer
    /\ session < MaxSessions
    /\ Free(r)
    /\ cur' = c
    /\ Reset
    /\ UNCHANGED <<follow, selected>>
    /\ LoadHistory(r, c)
    /\ UNCHANGED <<written, ssemode>>

CloseView ==
    /\ CloseStream
    /\ cur' = NoContainer
    /\ Reset
    /\ UNCHANGED <<follow, selected>>

Close ==
    /\ cur # NoContainer
    /\ CloseView
    /\ UNCHANGED <<written, ssemode, request>>

\* The clear button, or another period, number of lines or stream.
Reload(r) ==
    /\ cur # NoContainer
    /\ session < MaxSessions
    /\ Free(r)
    /\ Reset
    /\ selected' \in BOOLEAN
    /\ UNCHANGED <<cur, follow>>
    /\ LoadHistory(r, cur)
    /\ UNCHANGED <<written, ssemode>>

FollowOff ==
    /\ cur # NoContainer
    /\ follow
    /\ follow' = FALSE
    /\ CloseStream
    /\ UNCHANGED <<written, ssemode, cur, selected, logs, session, late, request>>

\* With lines to go on from, the stream; with none, the history again.
FollowOn(r) ==
    /\ cur # NoContainer
    /\ ~follow
    /\ Free(r)
    /\ Len(logs) < MaxShown
    /\ follow' = TRUE
    /\ UNCHANGED <<cur, selected>>
    /\ IF logs # <<>>
       THEN UNCHANGED <<logs, session, late>> /\ StartStream(r, cur, logs)
       ELSE session < MaxSessions /\ Reset /\ LoadHistory(r, cur)
    /\ UNCHANGED <<written, ssemode>>

----------------------------------------------------------------------------
(* History and polls.                                                      *)

PollTick(r) ==
    /\ pollTimer
    /\ Free(r)
    /\ Len(logs) < MaxShown
    /\ UNCHANGED viewVars
    /\ \E p \in Poll(cur, logs) : request' = [request EXCEPT ![r] = p]
    /\ UNCHANGED <<written, ssemode, es, pollTimer, handler>>

\* ReadContainerLogs at the server: the answer is on its way.
ServerReads(r) ==
    /\ request[r].kind \in {"history", "poll"}
    /\ LET q == request[r]
           tail == IF q.kind = "history" THEN HistoryLines ELSE MaxLines
       IN request' = [request EXCEPT
             ![r].kind = IF q.kind = "history" THEN "historyLines" ELSE "pollLines",
             ![r].lines = LinesFrom(q.c, First(q.c, q.since, tail))]
    /\ UNCHANGED <<written, ssemode, viewVars, es, pollTimer, handler>>

\* The view has been reset, or has got its first lines, since the request.
OfAnotherView(r) ==
    request[r].session # session \/ (request[r].blank /\ logs # <<>>)

Adds(r) ==
    /\ logs' = WithLines(request[r].lines)
    /\ late' = (late \/ (request[r].lines # <<>> /\ OfAnotherView(r)))
    /\ UNCHANGED <<cur, follow, selected, session>>

HistoryArrives(r) ==
    /\ request[r].kind = "historyLines"
    /\ Adds(r)
    /\ StartStream(r, cur, logs')
    /\ UNCHANGED <<written, ssemode>>

\* The server says why it failed: the stream starts nevertheless.
HistoryFails(r) ==
    /\ request[r].kind = "history"
    /\ UNCHANGED viewVars
    /\ StartStream(r, cur, logs)
    /\ UNCHANGED <<written, ssemode>>

\* The container is gone: the view closes, whatever it shows by now.
HistoryNotFound(r) ==
    /\ request[r].kind = "history"
    /\ CloseView
    /\ request' = [request EXCEPT ![r] = NoRequest]
    /\ UNCHANGED <<written, ssemode>>

\* The network fails, or any answer of a poll but its lines.
RequestLost(r) ==
    /\ ~Free(r)
    /\ request' = [request EXCEPT ![r] = NoRequest]
    /\ UNCHANGED <<written, ssemode, viewVars, es, pollTimer, handler>>

PollArrives(r) ==
    /\ request[r].kind = "pollLines"
    /\ Adds(r)
    /\ request' = [request EXCEPT ![r] = NoRequest]
    /\ UNCHANGED <<written, ssemode, es, pollTimer, handler>>

----------------------------------------------------------------------------
(* The EventSource and StreamSSE.                                          *)

\* The EventSource connects, for the first time or again, to its URL.
Connects(h) ==
    /\ es.state = "connecting"
    /\ handler[h].state = "free"
    /\ handler' = [handler EXCEPT ![h] =
          [state |-> "opening", c |-> es.c, last |-> es.since, at |-> 0,
           client |-> TRUE]]
    /\ es' = [es EXCEPT !.state = "open", !.h = h]
    /\ UNCHANGED <<written, ssemode, viewVars, pollTimer, request>>

\* es when handler h has gone: the browser will reconnect.
WithoutHandler(h) ==
    IF es.h = h THEN [es EXCEPT !.state = "connecting", !.h = NoHandler] ELSE es

ConnectionLost ==
    /\ es.state = "open"
    /\ handler' = Disconnected(es.h)
    /\ es' = WithoutHandler(es.h)
    /\ UNCHANGED <<written, ssemode, viewVars, pollTimer, request>>

OpenAnswers(h) ==
    /\ handler[h].state = "opening"
    /\ handler[h].client
    /\ handler' = [handler EXCEPT ![h].state = "reading",
                      ![h].at = FollowsAfter(handler[h].c, handler[h].last)]
    /\ UNCHANGED <<written, ssemode, viewVars, es, pollTimer, request>>

Returns(h) ==
    /\ handler' = [handler EXCEPT ![h] = NoStream]
    /\ es' = WithoutHandler(h)

GoesTo(h, state) ==
    /\ handler' = [handler EXCEPT ![h].state = state]
    /\ UNCHANGED es

OpenFails(h) ==
    /\ handler[h].state = "opening"
    /\ IF handler[h].client THEN GoesTo(h, "sleeping") ELSE Returns(h)
    /\ UNCHANGED <<written, ssemode, viewVars, pollTimer, request>>

\* A line goes from Docker to the view.
SendsLine(h) ==
    LET line == [c |-> handler[h].c, n |-> handler[h].at + 1] IN
    /\ handler[h].state = "reading"
    /\ handler[h].client
    /\ handler[h].at < written[handler[h].c]
    /\ Len(logs) < MaxShown
    /\ handler' = [handler EXCEPT ![h].at = @ + 1, ![h].last = Second(line.n)]
    /\ logs' = WithLines(<<line>>)
    /\ UNCHANGED <<written, ssemode, cur, follow, selected, session, late, es,
                   pollTimer, request>>

\* Docker's answer ends: the container has stopped, Docker has gone, or the
\* client has.
StreamEnds(h) ==
    /\ handler[h].state = "reading"
    /\ IF handler[h].client THEN GoesTo(h, "checking") ELSE Returns(h)
    /\ UNCHANGED <<written, ssemode, viewVars, pollTimer, request>>

Checks(h) ==
    /\ handler[h].state = "checking"
    /\ Returns(h) \/ (handler[h].client /\ GoesTo(h, "sleeping"))
    /\ UNCHANGED <<written, ssemode, viewVars, pollTimer, request>>

Wakes(h) ==
    /\ handler[h].state = "sleeping"
    /\ IF handler[h].client THEN GoesTo(h, "opening") ELSE Returns(h)
    /\ UNCHANGED <<written, ssemode, viewVars, pollTimer, request>>

Handler(h) ==
    \/ OpenAnswers(h)
    \/ OpenFails(h)
    \/ SendsLine(h)
    \/ StreamEnds(h)
    \/ Checks(h)
    \/ Wakes(h)

User ==
    \/ \E r \in Requests, c \in Containers : Open(r, c)
    \/ \E r \in Requests : Reload(r) \/ FollowOn(r)
    \/ Close
    \/ FollowOff

Request(r) ==
    \/ PollTick(r)
    \/ ServerReads(r)
    \/ HistoryArrives(r)
    \/ HistoryFails(r)
    \/ HistoryNotFound(r)
    \/ RequestLost(r)
    \/ PollArrives(r)

Next ==
    \/ \E c \in Containers : ContainerWrites(c)
    \/ User
    \/ \E r \in Requests : Request(r)
    \/ \E h \in Handlers : Connects(h) \/ Handler(h)
    \/ ConnectionLost

Spec == Init /\ [][Next]_vars

----------------------------------------------------------------------------

\* Whatever answers arrive late, there is at most one stream, it is of the
\* container in the view, and only while the view is open and follows
\* (dashboard.js 972-1016); no handler has a client that nobody reads.
StreamFitsView ==
    /\ es.state # "none" => ssemode /\ follow /\ cur # NoContainer /\ es.c = cur
    /\ pollTimer => ~ssemode /\ follow /\ cur # NoContainer
    /\ \A h \in Handlers : handler[h].client <=> es.h = h

ShownNumbers == {logs[i].n : i \in DOMAIN logs}

Between(S) == \A n \in 1 .. MaxLines :
    (\E m \in S : m <= n) /\ (\E m \in S : m >= n) => n \in S

\* Unless a late answer has come in, the lines in the view are of its container,
\* and an EventSource shows them in order and none twice: the stream begins where
\* the history ends or after it, also after a reconnection (sse.go 57-67).
InOrderOnce ==
    ~late => /\ \A i \in DOMAIN logs : logs[i].c = cur
             /\ ssemode => \A i, j \in DOMAIN logs : i < j => logs[i].n < logs[j].n

\* Polling leaves nothing out: what is shown up to the last line has no gap,
\* whatever order the polls are answered in (dashboard.js 1018-1043).
PollingHasNoGap ==
    ~ssemode /\ ~late /\ logs # <<>> =>
        Between({n \in ShownNumbers : n <= Last(logs).n})

\* "want 0 because since already bounds the stream" (logs_test.go:544): the
\* stream continues from since, so that nothing is left out.
FollowHasNoGap == ssemode /\ ~late => Between(ShownNumbers)

=============================================================================
