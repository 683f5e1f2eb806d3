----------------------------- MODULE PartsProofs -----------------------------
(***************************************************************************)
(* Theorems about the parts that MCParts checks together, for every value  *)
(* of their constants.  Each is proved of the part by itself and carried   *)
(* over to PartsSpec, whose steps are steps of one part.                   *)
(***************************************************************************)
EXTENDS MCParts, Sums, SequenceTheorems, FiniteSetTheorems, TLAPS

-----------------------------------------------------------------------------
(* Followed lines (LiveLogs): types                                         *)

\* What the viewer may be open for, the types of a source of events, of a
\* request and of a stream, and those of all variables.
Views == Containers \cup {NoContainer}

Source == [state : {"none", "connecting", "open"}, c : Views, since : Nat,
           h : Handlers \cup {NoHandler}]

RequestType == [kind : {"none", "history", "historyLines", "poll", "pollLines"}, c : Views,
                session : Nat, blank : BOOLEAN, since : Nat, lines : Seq(Line)]

StreamType == [state : {"free", "opening", "reading", "sleeping", "checking"}, c : Views,
               last : Nat, at : Nat, client : BOOLEAN]

LiveTypeOK ==
    /\ written \in [Containers -> 0 .. MaxLines]
    /\ ssemode \in BOOLEAN
    /\ cur \in Views
    /\ follow \in BOOLEAN
    /\ selected \in BOOLEAN
    /\ logs \in Seq(Line)
    /\ es \in Source
    /\ pollTimer \in BOOLEAN
    /\ request \in [Requests -> RequestType]
    /\ handler \in [Handlers -> StreamType]
    /\ session \in Nat
    /\ late \in BOOLEAN

(* What is on its way has a container; a request is of this view or an      *)
(* earlier one, and those of this view are for its container; an            *)
(* EventSource excludes polls.                                              *)
LiveInv ==
    /\ LiveTypeOK
    /\ StreamFitsView
    /\ es.state # "open" => es.h = NoHandler
    /\ \A h \in Handlers : handler[h].state # "free" => handler[h].c \in Containers
    /\ \A h \in Handlers : handler[h].client => handler[h].state # "free" /\ handler[h].c = es.c
    /\ \A r \in Requests : request[r].kind # "none" =>
          /\ request[r].c \in Containers
          /\ request[r].session <= session
          /\ request[r].session = session => request[r].c = cur
          /\ request[r].kind \in {"poll", "pollLines"} => ~ssemode
          /\ request[r].kind \in {"history", "historyLines"} => request[r].blank

\* It holds at first.
LEMMA InitLiveInv == Init => LiveInv
<1> SUFFICES ASSUME Init PROVE LiveInv
  OBVIOUS
<1>1. NoRequest \in RequestType
  BY EmptySeq DEF NoRequest, RequestType, Views
<1>2. NoStream \in StreamType /\ NoSource \in Source
  BY DEF NoStream, StreamType, NoSource, Source, Views
<1>3. LiveTypeOK
  <2>1. written \in [Containers -> 0 .. MaxLines] /\ logs \in Seq(Line)
    BY EmptySeq, LinesAssumption DEF Init
  <2>2. request \in [Requests -> RequestType] /\ handler \in [Handlers -> StreamType] /\ es \in Source
    BY <1>1, <1>2 DEF Init
  <2> QED
    BY <2>1, <2>2 DEF Init, LiveTypeOK, Views
<1>4. StreamFitsView
  BY NoneAssumption DEF Init, StreamFitsView, NoSource, NoStream
<1> QED
  BY <1>3, <1>4 DEF Init, LiveInv, NoSource, NoStream, NoRequest

\* What SinceOf gives is a second.
LEMMA SinceIsNatural ==
  ASSUME written \in [Containers -> 0 .. MaxLines], NEW c \in Containers, NEW shown \in Seq(Line),
         NEW s \in SinceOf(c, shown)
  PROVE  s \in Nat
<1>1. \A n \in Nat : Second(n) \in Nat
  BY DEF Second
<1>2. written[c] \in Nat
  BY LinesAssumption
<1>3. CASE shown = <<>>
  BY <1>1, <1>2, <1>3 DEF SinceOf
<1>4. CASE shown # <<>>
  <2>1. Last(shown) = shown[Len(shown)] /\ shown[Len(shown)] \in Line
    BY <1>4, EmptySeq, LenProperties, ElementOfSeq DEF Last
  <2>2. Last(shown).n \in Nat
    BY <2>1, LinesAssumption DEF Line
  <2> QED
    BY <1>1, <1>4, <2>2 DEF SinceOf
<1> QED
  BY <1>3, <1>4

\* After CloseStream there is no stream.
LEMMA CloseStreamEnds ==
  ASSUME LiveInv, CloseStream
  PROVE  /\ es' = NoSource /\ pollTimer' = FALSE
         /\ handler' \in [Handlers -> StreamType]
         /\ \A h \in Handlers : ~handler'[h].client
         /\ \A h \in Handlers : handler'[h].state = handler[h].state /\ handler'[h].c = handler[h].c
<1>1. /\ es' = NoSource /\ pollTimer' = FALSE /\ handler' = Disconnected(es.h)
      /\ es.h \in Handlers \cup {NoHandler} /\ handler \in [Handlers -> StreamType]
  BY DEF CloseStream, LiveInv, LiveTypeOK, Source
<1>2. \A h \in Handlers : handler[h].client <=> es.h = h
  BY DEF LiveInv, StreamFitsView
<1> QED
  BY <1>1, <1>2, NoneAssumption, ZenonT(30) DEF Disconnected, StreamType

\* A request of the view that is being built.
OfNewView(q) ==
    /\ cur' \in Containers /\ q.c = cur' /\ q.session = session'
    /\ q.kind \in {"poll", "pollLines"} => ~ssemode
    /\ q.kind \in {"history", "historyLines"} => q.blank

\* A view that is rebuilt: no client is left at the server, what was on its way
\* still is, is over, or is replaced by a request of the new view, and a new
\* stream waits to connect.
LEMMA RebuiltLiveInv ==
  ASSUME LiveInv,
         UNCHANGED <<written, ssemode>>,
         cur' \in Views, follow' \in BOOLEAN, selected' \in BOOLEAN, logs' \in Seq(Line),
         session' \in Nat, late' \in BOOLEAN,
         session <= session', session' = session => cur' = cur,
         request' \in [Requests -> RequestType],
         \A p \in Requests :
             request'[p] = request[p] \/ request'[p].kind = "none" \/ OfNewView(request'[p]),
         handler' \in [Handlers -> StreamType],
         \A h \in Handlers : ~handler'[h].client,
         \A h \in Handlers : handler'[h].state = handler[h].state /\ handler'[h].c = handler[h].c,
         es' \in Source, pollTimer' \in BOOLEAN,
         es'.h = NoHandler, es'.state # "open",
         es'.state # "none" => ssemode /\ follow' /\ cur' # NoContainer /\ es'.c = cur',
         pollTimer' => ~ssemode /\ follow' /\ cur' # NoContainer
  PROVE  LiveInv'
<1>2. LiveTypeOK'
  BY DEF LiveInv, LiveTypeOK, Views
<1>3. StreamFitsView'
  BY NoneAssumption DEF StreamFitsView
<1>4. \A h \in Handlers : handler'[h].state # "free" => handler'[h].c \in Containers
  BY DEF LiveInv
<1>5. ASSUME NEW p \in Requests, request'[p].kind # "none"
      PROVE  /\ request'[p].c \in Containers
             /\ request'[p].session <= session'
             /\ request'[p].session = session' => request'[p].c = cur'
             /\ request'[p].kind \in {"poll", "pollLines"} => ~ssemode
             /\ request'[p].kind \in {"history", "historyLines"} => request'[p].blank
  <2>1. CASE request'[p] = request[p]
    <3>1. request[p].session \in Nat /\ session \in Nat
      BY DEF LiveInv, LiveTypeOK, RequestType
    <3> QED
      BY <1>5, <2>1, <3>1 DEF LiveInv
  <2>2. CASE OfNewView(request'[p])
    <3>1. session' <= session'
      OBVIOUS
    <3> QED
      BY <1>5, <2>2, <3>1 DEF OfNewView
  <2> QED
    BY <1>5, <2>1, <2>2
<1> QED
  BY <1>2, <1>3, <1>4, <1>5 DEF LiveInv

\* Steps that begin to follow keep the invariant.
LEMMA StartStreamLiveInv ==
  ASSUME LiveInv, NEW r \in Requests, NEW c \in Views, NEW shown \in Seq(Line),
         StartStream(r, c, shown),
         UNCHANGED <<written, ssemode>>,
         cur' = c, follow' \in BOOLEAN, selected' \in BOOLEAN, logs' \in Seq(Line),
         session' \in Nat, late' \in BOOLEAN,
         session <= session', session' = session => cur' = cur
  PROVE  LiveInv'
<1>1. NoRequest \in RequestType /\ NoRequest.kind = "none" /\ NoSource \in Source
      /\ NoSource.state = "none" /\ NoSource.h = NoHandler
  BY EmptySeq DEF NoRequest, RequestType, Views, NoSource, Source
<1>2. CASE CloseStream /\ request' = [request EXCEPT ![r] = NoRequest]
  <2>1. request' \in [Requests -> RequestType]
    BY <1>1, <1>2 DEF LiveInv, LiveTypeOK
  <2>2. \A p \in Requests : request'[p] = request[p] \/ request'[p].kind = "none"
    BY <1>1, <1>2 DEF LiveInv, LiveTypeOK
  <2> QED
    BY <1>1, <1>2, <2>1, <2>2, CloseStreamEnds, RebuiltLiveInv
<1>3. CASE ~(c = NoContainer \/ ~follow' \/ ~selected')
  <2>1. /\ handler' = Disconnected(es.h) /\ handler \in [Handlers -> StreamType]
        /\ es.h \in Handlers \cup {NoHandler} /\ c \in Containers
        /\ written \in [Containers -> 0 .. MaxLines] /\ ssemode \in BOOLEAN
    BY <1>3 DEF StartStream, LiveInv, LiveTypeOK, Source, Views
  <2>2. \A h \in Handlers : handler[h].client <=> es.h = h
    BY DEF LiveInv, StreamFitsView
  <2>3. /\ handler' \in [Handlers -> StreamType]
        /\ \A h \in Handlers : ~handler'[h].client
        /\ \A h \in Handlers : handler'[h].state = handler[h].state /\ handler'[h].c = handler[h].c
    BY <2>1, <2>2, NoneAssumption, ZenonT(30) DEF Disconnected, StreamType
  <2>4. CASE ssemode
    <3>1. PICK s \in SinceOf(c, shown) :
            es' = [state |-> "connecting", c |-> c, since |-> s, h |-> NoHandler]
      BY <1>3, <2>4 DEF StartStream
    <3>2. s \in Nat
      BY <2>1, SinceIsNatural
    <3>3. es' \in Source /\ es'.state = "connecting" /\ es'.h = NoHandler /\ es'.c = c
      BY <3>1, <3>2 DEF Source
    <3>4. pollTimer' = FALSE /\ request' = [request EXCEPT ![r] = NoRequest]
      BY <1>3, <2>4 DEF StartStream
    <3>5. /\ request' \in [Requests -> RequestType]
          /\ \A p \in Requests : request'[p] = request[p] \/ request'[p].kind = "none"
      BY <1>1, <3>4 DEF LiveInv, LiveTypeOK
    <3> QED
      BY <1>1, <1>3, <2>3, <2>4, <3>3, <3>4, <3>5, RebuiltLiveInv
  <2>5. CASE ~ssemode
    <3>1. es' = NoSource /\ pollTimer' = TRUE
      BY <1>3, <2>5 DEF StartStream
    <3>2. PICK p \in Poll(c, shown) : request' = [request EXCEPT ![r] = p]
      BY <1>3, <2>5 DEF StartStream
    <3>3. PICK s \in SinceOf(c, shown) :
            p = [kind |-> "poll", c |-> c, session |-> session', blank |-> shown = <<>>,
                 since |-> s, lines |-> <<>>]
      BY <3>2 DEF Poll
    <3>4. s \in Nat
      BY <2>1, SinceIsNatural
    <3>5. p \in RequestType /\ p.kind = "poll" /\ p.c = c /\ p.session = session'
      BY <3>3, <3>4, EmptySeq DEF RequestType
    <3>6. OfNewView(p)
      BY <2>1, <2>5, <3>5 DEF OfNewView
    <3>7. /\ request' \in [Requests -> RequestType]
          /\ \A x \in Requests : request'[x] = request[x] \/ OfNewView(request'[x])
      BY <3>2, <3>5, <3>6 DEF LiveInv, LiveTypeOK
    <3> QED
      BY <1>1, <1>3, <2>1, <2>3, <2>5, <3>1, <3>7, RebuiltLiveInv
  <2> QED
    BY <2>1, <2>4, <2>5
<1> QED
  BY <1>2, <1>3 DEF StartStream

\* A history that is asked for keeps the invariant.
LEMMA LoadHistoryLiveInv ==
  ASSUME LiveInv, NEW r \in Requests, NEW c \in Containers,
         LoadHistory(r, c),
         UNCHANGED <<written, ssemode>>,
         cur' = c, follow' \in BOOLEAN, selected' \in BOOLEAN, Reset
  PROVE  LiveInv'
<1>1. /\ logs' = <<>> /\ logs' \in Seq(Line) /\ late' = FALSE
      /\ session' \in Nat /\ session <= session' /\ session' # session /\ c \in Views
  BY EmptySeq DEF Reset, LiveInv, LiveTypeOK, Views
<1>2. CASE StartStream(r, c, <<>>)
  BY <1>1, <1>2, StartStreamLiveInv
<1>3. CASE ~StartStream(r, c, <<>>)
  <2> DEFINE q == [kind |-> "history", c |-> c, session |-> session', blank |-> TRUE,
                   since |-> 0, lines |-> <<>>]
  <2>1. CloseStream /\ request' = [request EXCEPT ![r] = q]
    BY <1>3 DEF LoadHistory
  <2>2. q \in RequestType /\ q.kind = "history" /\ q.c = c /\ q.session = session' /\ q.blank
    BY <1>1, EmptySeq DEF RequestType
  <2>3. NoSource \in Source /\ NoSource.state = "none" /\ NoSource.h = NoHandler
    BY DEF NoSource, Source, Views
  <2>4. OfNewView(q)
    BY <2>2 DEF OfNewView
  <2> HIDE DEF q
  <2>5. /\ request' \in [Requests -> RequestType]
        /\ \A p \in Requests : request'[p] = request[p] \/ OfNewView(request'[p])
    BY <2>1, <2>2, <2>4 DEF LiveInv, LiveTypeOK
  <2> QED
    BY <1>1, <2>1, <2>3, <2>5, CloseStreamEnds, RebuiltLiveInv
<1> QED
  BY <1>2, <1>3

\* Closing the view.
LEMMA CloseViewLiveInv ==
  ASSUME LiveInv, CloseView, UNCHANGED <<written, ssemode>>,
         request' \in [Requests -> RequestType],
         \A p \in Requests : request'[p] = request[p] \/ request'[p].kind = "none"
  PROVE  LiveInv'
<1>1. NoSource \in Source /\ NoSource.state = "none" /\ NoSource.h = NoHandler
  BY DEF Views, NoSource, Source
<1>2. /\ logs' = <<>> /\ logs' \in Seq(Line) /\ late' = FALSE /\ cur' = NoContainer /\ cur' \in Views
      /\ session' \in Nat /\ session <= session' /\ session' # session
      /\ follow' \in BOOLEAN /\ selected' \in BOOLEAN /\ CloseStream
  BY EmptySeq DEF CloseView, Reset, LiveInv, LiveTypeOK, Views
<1> QED
  BY <1>1, <1>2, CloseStreamEnds, RebuiltLiveInv

\* Whatever the user does keeps the invariant.
LEMMA UserLiveInv ==
  ASSUME LiveInv, User
  PROVE  LiveInv'
<1>1. ASSUME NEW r \in Requests, NEW c \in Containers, Open(r, c)
      PROVE  LiveInv'
  BY <1>1, LoadHistoryLiveInv DEF Open, LiveInv, LiveTypeOK
<1>2. ASSUME NEW r \in Requests, Reload(r)
      PROVE  LiveInv'
  BY <1>2, LoadHistoryLiveInv DEF Reload, LiveInv, LiveTypeOK, Views
<1>3. ASSUME NEW r \in Requests, FollowOn(r)
      PROVE  LiveInv'
  <2>1. /\ cur \in Containers /\ cur' = cur /\ follow' \in BOOLEAN /\ selected' \in BOOLEAN
        /\ UNCHANGED <<written, ssemode>> /\ logs \in Seq(Line) /\ cur \in Views
        /\ session \in Nat /\ session <= session /\ late \in BOOLEAN
    BY <1>3 DEF FollowOn, LiveInv, LiveTypeOK, Views
  <2>2. CASE logs # <<>>
    <3>1. UNCHANGED <<logs, session, late>> /\ StartStream(r, cur, logs)
      BY <1>3, <2>2 DEF FollowOn
    <3> QED
      BY <2>1, <3>1, StartStreamLiveInv
  <2>3. CASE logs = <<>>
    <3>1. Reset /\ LoadHistory(r, cur)
      BY <1>3, <2>3 DEF FollowOn
    <3> QED
      BY <2>1, <3>1, LoadHistoryLiveInv
  <2> QED
    BY <2>2, <2>3
<1>4. CASE Close
  <2>1. CloseView /\ UNCHANGED <<written, ssemode, request>>
    BY <1>4 DEF Close
  <2> QED
    BY <2>1, CloseViewLiveInv DEF LiveInv, LiveTypeOK
<1>5. CASE FollowOff
  <2>1. /\ UNCHANGED <<written, ssemode, cur, selected, logs, session, late, request>>
        /\ follow' = FALSE /\ CloseStream
    BY <1>5 DEF FollowOff
  <2>2. NoSource \in Source /\ NoSource.state = "none" /\ NoSource.h = NoHandler
    BY DEF Views, NoSource, Source
  <2>3. /\ request' \in [Requests -> RequestType] /\ cur' \in Views /\ selected' \in BOOLEAN /\ logs' \in Seq(Line)
        /\ session' \in Nat /\ session <= session' /\ late' \in BOOLEAN
    BY <2>1 DEF LiveInv, LiveTypeOK
  <2> QED
    BY <2>1, <2>2, <2>3, CloseStreamEnds, RebuiltLiveInv
<1> QED
  BY <1>1, <1>2, <1>3, <1>4, <1>5 DEF User

\* What Docker answers begins with a line of the container.
LEMMA FirstIsLargest ==
  ASSUME written \in [Containers -> 0 .. MaxLines], NEW c \in Containers,
         NEW since \in Nat, NEW tail \in Nat
  PROVE  /\ First(c, since, tail) \in Nat \ {0}
         /\ First(c, since, tail) \in {2 * since - 1, written[c] - tail + 1, 1}
         /\ First(c, since, tail) >= 2 * since - 1
         /\ First(c, since, tail) >= written[c] - tail + 1
<1>1. written[c] \in Nat
  BY LinesAssumption
<1> DEFINE S == {2 * since - 1, written[c] - tail + 1, 1}
<1>2. \E x \in S : \A y \in S : x >= y
  BY <1>1
<1>3. Max(S) \in S /\ \A y \in S : Max(S) >= y
  BY <1>2 DEF Max
<1>4. S \subseteq Int
  BY <1>1
<1>5. First(c, since, tail) = Max(S)
  BY DEF First
<1> QED
  BY <1>3, <1>4, <1>5

\* The lines that Docker returns are consecutive, from the first that was asked for.
LEMMA LinesFromTyped ==
  ASSUME written \in [Containers -> 0 .. MaxLines], NEW c \in Containers, NEW first \in Nat \ {0}
  PROVE  /\ LinesFrom(c, first) \in Seq(Line)
         /\ Len(LinesFrom(c, first)) =
               IF first <= written[c] THEN written[c] - first + 1 ELSE 0
         /\ \A i \in DOMAIN LinesFrom(c, first) :
               LinesFrom(c, first)[i].c = c /\ LinesFrom(c, first)[i].n = first + i - 1
<1>1. written[c] \in Nat /\ written[c] <= MaxLines /\ MaxLines \in Nat
  BY LinesAssumption
<1>2. \A i \in 1 .. written[c] - first + 1 : [c |-> c, n |-> first + i - 1] \in Line
  BY <1>1 DEF Line
<1>3. CASE first <= written[c]
  <2>1. PICK m \in Nat : m = written[c] - first + 1
    BY <1>1, <1>3
  <2>2. LinesFrom(c, first) = [i \in 1 .. m |-> [c |-> c, n |-> first + i - 1]]
    BY <2>1 DEF LinesFrom
  <2>3. \A i \in 1 .. m : [c |-> c, n |-> first + i - 1] \in Line
    BY <1>2, <2>1
  <2>4. LinesFrom(c, first) \in [1 .. m -> Line]
    BY <2>2, <2>3
  <2>5. LinesFrom(c, first) \in Seq(Line)
    BY <2>1, <2>4
  <2>6. Len(LinesFrom(c, first)) = m
    BY <2>1, <2>4, <2>5, LenProperties
  <2> QED
    BY <1>3, <2>1, <2>2, <2>5, <2>6
<1>4. CASE ~(first <= written[c])
  <2>1. 1 .. written[c] - first + 1 = {}
    BY <1>1, <1>4
  <2>2. LinesFrom(c, first) = <<>>
    BY <2>1 DEF LinesFrom
  <2> QED
    BY <1>4, <2>2, EmptySeq
<1> QED
  BY <1>3, <1>4

\* Lines that are added to the view are lines.
LEMMA WithLinesTyped ==
  ASSUME logs \in Seq(Line), NEW new \in Seq(Line)
  PROVE  WithLines(new) \in Seq(Line)
<1>1. new # <<>> => Tail(new) \in Seq(Line)
  BY HeadTailProperties
<1> QED
  BY <1>1, ConcatProperties DEF WithLines

\* A request that changes while the view and the stream stay.
LEMMA RequestLiveInv ==
  ASSUME LiveInv, NEW r \in Requests, NEW q \in RequestType,
         UNCHANGED <<written, ssemode, cur, follow, selected, session, es, pollTimer, handler>>,
         logs' \in Seq(Line), late' \in BOOLEAN,
         request' = [request EXCEPT ![r] = q],
         q.kind # "none" =>
             /\ q.c \in Containers /\ q.session <= session /\ (q.session = session => q.c = cur)
             /\ q.kind \in {"poll", "pollLines"} => ~ssemode
             /\ q.kind \in {"history", "historyLines"} => q.blank
  PROVE  LiveInv'
<1>1. request' \in [Requests -> RequestType]
  BY DEF LiveInv, LiveTypeOK
<1>2. LiveTypeOK' /\ StreamFitsView'
  BY <1>1 DEF LiveInv, LiveTypeOK, StreamFitsView
<1>3. \A p \in Requests : request'[p] = request[p] \/ (p = r /\ request'[p] = q)
  BY DEF LiveInv, LiveTypeOK
<1> QED
  BY <1>2, <1>3 DEF LiveInv

\* Answers to requests keep the invariant.
LEMMA RequestsLiveInv ==
  ASSUME LiveInv, NEW r \in Requests, Request(r)
  PROVE  LiveInv'
<1>0. NoRequest \in RequestType /\ NoRequest.kind = "none"
  BY EmptySeq DEF NoRequest, RequestType, Views
<1>t. /\ written \in [Containers -> 0 .. MaxLines] /\ ssemode \in BOOLEAN
      /\ cur \in Views /\ follow \in BOOLEAN /\ selected \in BOOLEAN /\ logs \in Seq(Line)
      /\ session \in Nat /\ session <= session /\ late \in BOOLEAN
      /\ request \in [Requests -> RequestType] /\ request[r] \in RequestType
  BY DEF LiveInv, LiveTypeOK
<1>1. CASE PollTick(r)
  <2>1. PICK p \in Poll(cur, logs) : request' = [request EXCEPT ![r] = p]
    BY <1>1 DEF PollTick
  <2>2. /\ UNCHANGED <<written, ssemode, cur, follow, selected, session, logs, late, es, pollTimer, handler>>
        /\ ~ssemode /\ cur \in Containers
    BY <1>1 DEF PollTick, viewVars, LiveInv, LiveTypeOK, StreamFitsView, Views
  <2>3. PICK s \in SinceOf(cur, logs) :
          p = [kind |-> "poll", c |-> cur, session |-> session', blank |-> logs = <<>>,
               since |-> s, lines |-> <<>>]
    BY <2>1 DEF Poll
  <2>4. s \in Nat
    BY <1>t, <2>2, SinceIsNatural
  <2>5. p \in RequestType /\ p.kind = "poll" /\ p.c = cur /\ p.session = session
    BY <1>t, <2>2, <2>3, <2>4, EmptySeq DEF RequestType
  <2> QED
    BY <1>t, <2>1, <2>2, <2>5, RequestLiveInv
<1>2. CASE ServerReads(r)
  <2> DEFINE q == request[r]
             tail == IF q.kind = "history" THEN HistoryLines ELSE MaxLines
             new == LinesFrom(q.c, First(q.c, q.since, tail))
             p == [q EXCEPT !.kind = IF q.kind = "history" THEN "historyLines" ELSE "pollLines",
                            !.lines = new]
  <2>1. q \in RequestType /\ q.kind \in {"history", "poll"} /\ tail \in Nat
    BY <1>2, <1>t, LinesAssumption DEF ServerReads
  <2>2. /\ q.c \in Containers /\ q.session <= session /\ (q.session = session => q.c = cur)
        /\ (q.kind = "poll" => ~ssemode) /\ (q.kind = "history" => q.blank) /\ q.since \in Nat
    BY <2>1 DEF LiveInv, RequestType
  <2>3. new \in Seq(Line)
    <3>1. First(q.c, q.since, tail) \in Nat \ {0}
      BY <1>t, <2>1, <2>2, FirstIsLargest
    <3> QED
      BY <1>t, <2>2, <3>1, LinesFromTyped
  <2>4. request' = [request EXCEPT ![r] = p]
    BY <1>2, <1>t DEF ServerReads
  <2>5. UNCHANGED <<written, ssemode, cur, follow, selected, session, logs, late, es, pollTimer, handler>>
    BY <1>2 DEF ServerReads, viewVars
  <2> HIDE DEF new, tail
  <2>6. p \in RequestType /\ p.c = q.c /\ p.session = q.session /\ p.blank = q.blank
        /\ p.kind = IF q.kind = "history" THEN "historyLines" ELSE "pollLines"
    BY <2>1, <2>3 DEF RequestType
  <2> HIDE DEF p, q
  <2> QED
    BY <1>t, <2>1, <2>2, <2>4, <2>5, <2>6, RequestLiveInv
<1>3. CASE HistoryArrives(r)
  <2>1. /\ logs' = WithLines(request[r].lines) /\ UNCHANGED <<cur, follow, selected, session>>
        /\ UNCHANGED <<written, ssemode>> /\ StartStream(r, cur, logs')
        /\ late' \in BOOLEAN
    BY <1>3, <1>t DEF HistoryArrives, Adds, OfAnotherView
  <2>2. logs' \in Seq(Line)
    BY <1>t, <2>1, WithLinesTyped DEF RequestType
  <2> QED
    BY <1>t, <2>1, <2>2, StartStreamLiveInv
<1>4. CASE HistoryFails(r)
  <2>1. /\ UNCHANGED <<written, ssemode, cur, follow, selected, logs, session, late>>
        /\ StartStream(r, cur, logs)
    BY <1>4 DEF HistoryFails, viewVars
  <2> QED
    BY <1>t, <2>1, StartStreamLiveInv
<1>5. CASE HistoryNotFound(r)
  <2>1. CloseView /\ UNCHANGED <<written, ssemode>> /\ request' = [request EXCEPT ![r] = NoRequest]
    BY <1>5 DEF HistoryNotFound
  <2> QED
    BY <1>0, <1>t, <2>1, CloseViewLiveInv
<1>6. CASE RequestLost(r)
  BY <1>0, <1>6, <1>t, RequestLiveInv DEF RequestLost, viewVars
<1>7. CASE PollArrives(r)
  <2>1. /\ logs' = WithLines(request[r].lines) /\ UNCHANGED <<cur, follow, selected, session>>
        /\ UNCHANGED <<written, ssemode, es, pollTimer, handler>>
        /\ request' = [request EXCEPT ![r] = NoRequest]
        /\ late' \in BOOLEAN
    BY <1>7, <1>t DEF PollArrives, Adds, OfAnotherView
  <2>2. logs' \in Seq(Line)
    BY <1>t, <2>1, WithLinesTyped DEF RequestType
  <2> QED
    BY <1>0, <1>t, <2>1, <2>2, RequestLiveInv
<1> QED
  BY <1>1, <1>2, <1>3, <1>4, <1>5, <1>6, <1>7 DEF Request

\* A step of the stream: the handler h changes, and the EventSource keeps its
\* container; h has a client exactly when the EventSource has h.
LEMMA HandlerLiveInv ==
  ASSUME LiveInv, NEW h \in Handlers, NEW s \in StreamType,
         UNCHANGED <<written, ssemode, cur, follow, selected, session, late, pollTimer, request>>,
         logs' \in Seq(Line),
         handler' = [handler EXCEPT ![h] = s],
         s.state # "free" => s.c \in Containers,
         s.client => s.state # "free" /\ s.c = es.c,
         es' \in Source, es'.c = es.c,
         es'.state = "none" <=> es.state = "none",
         es'.state # "open" => es'.h = NoHandler,
         s.client <=> es'.h = h,
         \A g \in Handlers : g # h => (es'.h = g <=> es.h = g)
  PROVE  LiveInv'
<1>1. /\ handler \in [Handlers -> StreamType]
      /\ \A g \in Handlers : g # h => handler'[g] = handler[g]
      /\ handler'[h] = s
  BY DEF LiveInv, LiveTypeOK
<1>2. LiveTypeOK'
  BY <1>1 DEF LiveInv, LiveTypeOK
<1>3. StreamFitsView'
  BY <1>1 DEF LiveInv, StreamFitsView
<1> QED
  BY <1>1, <1>2, <1>3 DEF LiveInv

\* Steps of the handlers of streams keep the invariant.
LEMMA HandlersLiveInv ==
  ASSUME LiveInv, NEW h \in Handlers, Connects(h) \/ Handler(h)
  PROVE  LiveInv'
<1>t. /\ handler \in [Handlers -> StreamType] /\ handler[h] \in StreamType
      /\ es \in Source /\ logs \in Seq(Line) /\ written \in [Containers -> 0 .. MaxLines]
      /\ (handler[h].client <=> es.h = h)
      /\ es.state # "open" => es.h = NoHandler
      /\ handler[h].state # "free" => handler[h].c \in Containers
      /\ handler[h].client => handler[h].state # "free" /\ handler[h].c = es.c
      /\ h # NoHandler
  BY NoneAssumption DEF LiveInv, LiveTypeOK, StreamFitsView
<1>1. CASE Connects(h)
  <2> DEFINE s == [state |-> "opening", c |-> es.c, last |-> es.since, at |-> 0, client |-> TRUE]
  <2>1. /\ es.state = "connecting" /\ handler[h].state = "free"
        /\ handler' = [handler EXCEPT ![h] = s]
        /\ es' = [es EXCEPT !.state = "open", !.h = h]
        /\ UNCHANGED <<written, ssemode, cur, follow, selected, session, late, logs, pollTimer, request>>
    BY <1>1 DEF Connects, viewVars
  <2>2. es.c \in Containers
    BY <2>1 DEF LiveInv, LiveTypeOK, StreamFitsView, Views
  <2>3. s \in StreamType /\ s.state = "opening" /\ s.c = es.c /\ s.client
    BY <1>t, <2>2 DEF StreamType, Source
  <2>4. es' \in Source /\ es'.c = es.c /\ es'.state = "open" /\ es'.h = h
    BY <1>t, <2>1 DEF Source
  <2> HIDE DEF s
  <2>5. \A g \in Handlers : g # h => (es'.h = g <=> es.h = g)
    BY <1>t, <2>1, <2>4, NoneAssumption
  <2> QED
    BY <1>t, <2>1, <2>2, <2>3, <2>4, <2>5, HandlerLiveInv
<1>2. ASSUME NEW to \in {"opening", "sleeping", "checking"}, GoesTo(h, to), handler[h].state # "free",
             UNCHANGED <<written, ssemode, viewVars, pollTimer, request>>
      PROVE  LiveInv'
  <2> DEFINE s == [handler[h] EXCEPT !.state = to]
  <2>1. handler' = [handler EXCEPT ![h] = s] /\ es' = es
    BY <1>2, <1>t DEF GoesTo
  <2>2. s \in StreamType /\ s.state = to /\ s.c = handler[h].c /\ s.client = handler[h].client
    BY <1>t DEF StreamType
  <2> HIDE DEF s
  <2> QED
    BY <1>t, <1>2, <2>1, <2>2, HandlerLiveInv DEF viewVars
<1>3. ASSUME Returns(h), UNCHANGED <<written, ssemode, viewVars, pollTimer, request>>
      PROVE  LiveInv'
  <2>1. NoStream \in StreamType /\ NoStream.state = "free" /\ ~NoStream.client
    BY DEF NoStream, StreamType, Views
  <2>2. handler' = [handler EXCEPT ![h] = NoStream] /\ es' = WithoutHandler(h)
    BY <1>3 DEF Returns
  <2>3. CASE es.h = h
    <3>1. es' = [es EXCEPT !.state = "connecting", !.h = NoHandler] /\ es.state = "open"
      BY <1>t, <2>2, <2>3 DEF WithoutHandler
    <3>2. es' \in Source /\ es'.c = es.c /\ es'.state = "connecting" /\ es'.h = NoHandler
      BY <1>t, <3>1 DEF Source
    <3> QED
      BY <1>t, <1>3, <2>1, <2>2, <2>3, <3>1, <3>2, HandlerLiveInv, NoneAssumption DEF viewVars
  <2>4. CASE es.h # h
    BY <1>t, <1>3, <2>1, <2>2, <2>4, HandlerLiveInv DEF viewVars, WithoutHandler
  <2> QED
    BY <2>3, <2>4
<1>4. CASE OpenAnswers(h)
  <2> DEFINE s == [handler[h] EXCEPT !.state = "reading", !.at = FollowsAfter(handler[h].c, handler[h].last)]
  <2>1. handler' = [handler EXCEPT ![h] = s] /\ es' = es /\ handler[h].state = "opening"
        /\ UNCHANGED <<written, ssemode, cur, follow, selected, session, late, logs, pollTimer, request>>
    BY <1>4, <1>t DEF OpenAnswers, viewVars
  <2>2. FollowsAfter(handler[h].c, handler[h].last) \in Nat
    BY <1>t, <2>1, LinesAssumption DEF FollowsAfter
  <2>3. s \in StreamType /\ s.state = "reading" /\ s.c = handler[h].c /\ s.client = handler[h].client
    BY <1>t, <2>2 DEF StreamType
  <2> HIDE DEF s
  <2> QED
    BY <1>t, <2>1, <2>3, HandlerLiveInv
<1>5. CASE OpenFails(h)
  <2>1. UNCHANGED <<written, ssemode, viewVars, pollTimer, request>> /\ handler[h].state # "free"
        /\ (GoesTo(h, "sleeping") \/ Returns(h))
    BY <1>5 DEF OpenFails
  <2> QED
    BY <1>2, <1>3, <2>1
<1>6. CASE SendsLine(h)
  <2> DEFINE ln == [c |-> handler[h].c, n |-> handler[h].at + 1]
             s == [handler[h] EXCEPT !.at = @ + 1, !.last = Second(ln.n)]
  <2>1. handler' = [handler EXCEPT ![h] = s] /\ es' = es /\ handler[h].state = "reading"
        /\ handler[h].at < written[handler[h].c] /\ logs' = WithLines(<<ln>>)
        /\ UNCHANGED <<written, ssemode, cur, follow, selected, session, late, pollTimer, request>>
    BY <1>6, <1>t DEF SendsLine
  <2>2. handler[h].at \in Nat /\ handler[h].at + 1 \in 1 .. MaxLines /\ handler[h].c \in Containers
    BY <1>t, <2>1, LinesAssumption DEF StreamType
  <2>3. ln \in Line /\ Second(ln.n) \in Nat
    BY <2>2 DEF Line, Second
  <2> HIDE DEF ln
  <2>4. logs' \in Seq(Line)
    <3>1. <<ln>> \in Seq(Line)
      BY <2>3
    <3> QED
      BY <1>t, <2>1, <3>1, WithLinesTyped
  <2>5. s \in StreamType /\ s.state = "reading" /\ s.c = handler[h].c /\ s.client = handler[h].client
    <3>1. PICK a \in Nat, b \in Nat : a = handler[h].at + 1 /\ b = Second(ln.n)
      BY <2>2, <2>3
    <3>2. s = [handler[h] EXCEPT !.at = a, !.last = b]
      BY <3>1
    <3> HIDE DEF s
    <3> QED
      BY <1>t, <2>1, <3>1, <3>2 DEF StreamType
  <2> HIDE DEF s
  <2> QED
    BY <1>t, <2>1, <2>4, <2>5, HandlerLiveInv
<1>7. CASE StreamEnds(h)
  <2>1. UNCHANGED <<written, ssemode, viewVars, pollTimer, request>> /\ handler[h].state # "free"
        /\ (GoesTo(h, "checking") \/ Returns(h))
    BY <1>7 DEF StreamEnds
  <2> QED
    BY <1>2, <1>3, <2>1
<1>8. CASE Checks(h)
  <2>1. UNCHANGED <<written, ssemode, viewVars, pollTimer, request>> /\ handler[h].state # "free"
        /\ (GoesTo(h, "sleeping") \/ Returns(h))
    BY <1>8 DEF Checks
  <2> QED
    BY <1>2, <1>3, <2>1
<1>9. CASE Wakes(h)
  <2>1. UNCHANGED <<written, ssemode, viewVars, pollTimer, request>> /\ handler[h].state # "free"
        /\ (GoesTo(h, "opening") \/ Returns(h))
    BY <1>9 DEF Wakes
  <2> QED
    BY <1>2, <1>3, <2>1
<1> QED
  BY <1>1, <1>4, <1>5, <1>6, <1>7, <1>8, <1>9 DEF Handler

\* A connection that is lost keeps the invariant.
LEMMA ConnectionLostLiveInv ==
  ASSUME LiveInv, ConnectionLost
  PROVE  LiveInv'
<1>1. /\ es.state = "open" /\ handler' = Disconnected(es.h) /\ es \in Source
      /\ es' = [es EXCEPT !.state = "connecting", !.h = NoHandler]
      /\ UNCHANGED <<written, ssemode, cur, follow, selected, session, late, logs, pollTimer, request>>
      /\ handler \in [Handlers -> StreamType] /\ es.h \in Handlers \cup {NoHandler}
      /\ \A h \in Handlers : handler[h].client <=> es.h = h
  BY DEF ConnectionLost, WithoutHandler, viewVars, LiveInv, LiveTypeOK, StreamFitsView, Source
<1>2. es' \in Source /\ es'.c = es.c /\ es'.state = "connecting" /\ es'.h = NoHandler
  BY <1>1 DEF Source
<1>3. CASE es.h \in Handlers
  <2> DEFINE s == [handler[es.h] EXCEPT !.client = FALSE]
  <2>1. handler' = [handler EXCEPT ![es.h] = s]
    BY <1>1, <1>3, NoneAssumption DEF Disconnected
  <2>2. s \in StreamType /\ s.state = handler[es.h].state /\ s.c = handler[es.h].c /\ ~s.client
    BY <1>1, <1>3, ZenonT(30) DEF StreamType
  <2> HIDE DEF s
  <2>3. s.state # "free" => s.c \in Containers
    BY <1>3, <2>2 DEF LiveInv
  <2>4. logs' \in Seq(Line) /\ es.h # NoHandler
    BY <1>1, <1>3, NoneAssumption DEF LiveInv, LiveTypeOK
  <2>5. \A g \in Handlers : g # es.h => (es'.h = g <=> es.h = g)
    BY <1>2, NoneAssumption
  <2> QED
    BY <1>1, <1>2, <1>3, <2>1, <2>2, <2>3, <2>4, <2>5, HandlerLiveInv
<1>4. CASE es.h = NoHandler
  <2>1. handler' = handler
    BY <1>1, <1>4 DEF Disconnected
  <2>2. LiveTypeOK' /\ StreamFitsView'
    BY <1>1, <1>2, <1>4, <2>1 DEF LiveInv, LiveTypeOK, StreamFitsView
  <2> QED
    BY <1>1, <1>2, <2>1, <2>2 DEF LiveInv
<1> QED
  BY <1>1, <1>3, <1>4

\* Each step keeps it.
LEMMA NextLiveInv == LiveInv /\ [Next]_vars => LiveInv'
<1> SUFFICES ASSUME LiveInv, [Next]_vars PROVE LiveInv'
  OBVIOUS
<1>1. ASSUME NEW c \in Containers, ContainerWrites(c)
      PROVE  LiveInv'
  <2>1. written' \in [Containers -> 0 .. MaxLines]
    BY <1>1, LinesAssumption DEF ContainerWrites, LiveInv, LiveTypeOK
  <2> QED
    BY <1>1, <2>1 DEF ContainerWrites, viewVars, LiveInv, LiveTypeOK, StreamFitsView
<1>2. CASE UNCHANGED vars
  BY <1>2 DEF vars, viewVars, LiveInv, LiveTypeOK, StreamFitsView
<1> QED
  BY <1>1, <1>2, UserLiveInv, RequestsLiveInv, HandlersLiveInv, ConnectionLostLiveInv DEF Next

\* Whatever answers arrive late and however often the view is opened, cleared
\* and closed meanwhile, there is at most one stream, it is of the container in
\* the view, and no handler at the server has a client that nobody reads.
THEOREM OneStream == Spec => []StreamFitsView
<1>1. LiveInv => StreamFitsView
  BY DEF LiveInv
<1> QED
  BY <1>1, InitLiveInv, NextLiveInv, PTL DEF Spec

\* The same, of the behaviours that the run checks.
THEOREM OneStreamInParts == PartsSpec => []OneStreamOfView
<1> DEFINE Inv == part = "live" => LiveInv
<1>1. PartsInit => Inv
  BY InitLiveInv DEF PartsInit
<1>2. Inv /\ [PartsNext]_partsVars => Inv'
  <2> SUFFICES ASSUME part = "live" => LiveInv, [PartsNext]_partsVars, part' = "live" PROVE LiveInv'
    OBVIOUS
  <2>1. LiveInv /\ [Next]_vars
    BY DEF PartsNext, partsVars
  <2> QED
    BY <2>1, NextLiveInv
<1>3. Inv => OneStreamOfView
  BY DEF OneStreamOfView, LiveInv
<1> QED
  BY <1>1, <1>2, <1>3, PTL DEF PartsSpec

-----------------------------------------------------------------------------
(* Followed lines: which lines the view shows                               *)

\* The numbers of lines.
Numbers(s) == {s[i].n : i \in DOMAIN s}

\* Lines of container c one after the other, as Docker has them.
Run(s, c) ==
    \A i \in DOMAIN s : s[i].c = c /\ s[i].n <= written[c] /\ s[i].n = s[1].n + i - 1

\* A client that reads gets lines after those in the view.
ReaderIsBehind ==
    \A h \in Handlers : handler[h].state = "reading" /\ handler[h].client =>
        \A i \in DOMAIN logs : logs[i].n <= handler[h].at

\* A poll of this view that goes on from its lines begins with a line of it.
PollGoesOn(q) ==
    q.kind # "none" /\ q.session = session /\ ~q.blank =>
        /\ q.kind = "poll" => \E n \in ShownNumbers : q.since = Second(n)
        /\ q.kind = "pollLines" => \E n \in ShownNumbers : n \in Numbers(q.lines)

(* The inductive invariant of what is shown.                                *)
ContentInv ==
    /\ \A r \in Requests :
          request[r].kind \in {"historyLines", "pollLines"} => Run(request[r].lines, request[r].c)
    /\ ~late =>
          /\ \A i \in DOMAIN logs : logs[i].c = cur /\ logs[i].n <= written[cur]
          /\ ssemode => \A i, j \in DOMAIN logs : i < j => logs[i].n < logs[j].n
          /\ ReaderIsBehind
          /\ ~ssemode => Between(ShownNumbers)
          /\ \A r \in Requests : PollGoesOn(request[r])

\* An element of a sequence of lines is a line.
LEMMA LineElement ==
  ASSUME NEW s \in Seq(Line), NEW i \in DOMAIN s
  PROVE  s[i] \in Line /\ s[i].c \in Containers /\ s[i].n \in Nat /\ s[i].n \in 1 .. MaxLines
<1>1. s[i] \in Line
  BY ElementOfSeq, LenProperties
<1> QED
  BY <1>1, LinesAssumption DEF Line

\* It holds at first.
LEMMA InitContentInv == Init => ContentInv
<1> SUFFICES ASSUME Init PROVE ContentInv
  OBVIOUS
<1>1. DOMAIN logs = {} /\ ShownNumbers = {}
  BY DEF Init, ShownNumbers
<1>2. Between({})
  BY DEF Between
<1> QED
  BY <1>1, <1>2 DEF Init, ContentInv, NoRequest, ReaderIsBehind, NoStream, PollGoesOn

\* What StartStream, LoadHistory and a poll ask for when the view shows shown.
AskFor(shown) ==
    \A p \in Requests :
        \/ request'[p] = request[p]
        \/ request'[p].kind = "none"
        \/ request'[p].kind \in {"history", "poll"} /\ request'[p].blank
        \/ /\ request'[p].kind = "poll"
           /\ \E n \in Numbers(shown) : request'[p].since = Second(n)

\* Nobody listens to a stream.
NoClients == \A h \in Handlers : ~handler'[h].client

\* A poll asks from the second of a line that is shown, or for everything.
LEMMA PollAsks ==
  ASSUME NEW c, NEW shown \in Seq(Line), NEW p \in Poll(c, shown)
  PROVE  /\ p.kind = "poll" /\ p.session = session'
         /\ p.blank \/ \E n \in Numbers(shown) : p.since = Second(n)
<1>1. PICK s \in SinceOf(c, shown) :
        p = [kind |-> "poll", c |-> c, session |-> session', blank |-> shown = <<>>,
             since |-> s, lines |-> <<>>]
  BY DEF Poll
<1>2. p.kind = "poll" /\ p.session = session' /\ p.since = s /\ p.blank = (shown = <<>>)
  BY <1>1
<1>3. CASE shown = <<>>
  BY <1>2, <1>3
<1>4. CASE shown # <<>>
  <2>1. Len(shown) \in DOMAIN shown /\ Last(shown) = shown[Len(shown)]
    BY <1>4, EmptySeq, LenProperties DEF Last
  <2>2. s = Second(Last(shown).n)
    BY <1>4 DEF SinceOf
  <2> QED
    BY <1>2, <2>1, <2>2 DEF Numbers
<1> QED
  BY <1>3, <1>4

\* To follow without events asks from what is shown.
LEMMA StartStreamAsks ==
  ASSUME LiveInv, NEW r \in Requests, NEW c, NEW shown \in Seq(Line), StartStream(r, c, shown)
  PROVE  AskFor(shown) /\ NoClients
<1>1. request \in [Requests -> RequestType] /\ NoRequest.kind = "none"
  BY DEF LiveInv, LiveTypeOK, NoRequest
<1>2. request' = [request EXCEPT ![r] = NoRequest] => AskFor(shown)
  BY <1>1 DEF AskFor
<1>3. ASSUME NEW p \in Poll(c, shown), request' = [request EXCEPT ![r] = p]
      PROVE  AskFor(shown)
  <2>1. p.kind = "poll" /\ (p.blank \/ \E n \in Numbers(shown) : p.since = Second(n))
    BY PollAsks
  <2> QED
    BY <1>1, <1>3, <2>1 DEF AskFor
<1>4. handler' = Disconnected(es.h) /\ es.h \in Handlers \cup {NoHandler}
  BY DEF StartStream, CloseStream, LiveInv, LiveTypeOK, Source
<1>5. \A h \in Handlers : handler[h].client <=> es.h = h
  BY DEF LiveInv, StreamFitsView
<1>6. NoClients
  BY <1>4, <1>5, NoneAssumption DEF NoClients, Disconnected, LiveInv, LiveTypeOK, StreamType
<1> QED
  BY <1>2, <1>3, <1>6 DEF StartStream

\* A history is asked for with an empty view.
LEMMA LoadHistoryAsks ==
  ASSUME LiveInv, NEW r \in Requests, NEW c, LoadHistory(r, c)
  PROVE  AskFor(<<>>) /\ NoClients
<1>1. CASE StartStream(r, c, <<>>)
  BY <1>1, EmptySeq, StartStreamAsks
<1>2. CASE ~StartStream(r, c, <<>>)
  <2> DEFINE q == [kind |-> "history", c |-> c, session |-> session', blank |-> TRUE,
                   since |-> 0, lines |-> <<>>]
  <2>1. CloseStream /\ request' = [request EXCEPT ![r] = q]
    BY <1>2 DEF LoadHistory
  <2>2. q.kind = "history" /\ q.blank
    OBVIOUS
  <2> HIDE DEF q
  <2>3. AskFor(<<>>)
    BY <2>1, <2>2 DEF AskFor, LiveInv, LiveTypeOK
  <2> QED
    BY <2>1, <2>3, CloseStreamEnds DEF NoClients
<1> QED
  BY <1>1, <1>2

\* A view that is reset shows nothing, and what was asked for before is of an
\* earlier view.
LEMMA ResetContent ==
  ASSUME LiveInv, LiveInv', ContentInv, AskFor(<<>>), NoClients, Reset, UNCHANGED <<written, ssemode>>
  PROVE  ContentInv'
<1>1. DOMAIN logs' = {} /\ ShownNumbers' = {} /\ session' = session + 1 /\ session \in Nat
  BY DEF Reset, ShownNumbers, LiveInv, LiveTypeOK
<1>2. Between({})
  BY DEF Between
<1>3. Numbers(<<>>) = {}
  BY DEF Numbers
<1>4. ASSUME NEW p \in Requests
      PROVE  /\ request'[p].kind \in {"historyLines", "pollLines"}
                => Run(request'[p].lines, request'[p].c)
             /\ request'[p].kind = "none" \/ request'[p].session # session' \/ request'[p].blank
  <2>1. CASE request'[p] = request[p]
    <3>1. request[p].kind # "none" => request[p].session <= session /\ request[p].session \in Nat
      BY DEF LiveInv, LiveTypeOK, RequestType
    <3> QED
      BY <1>1, <2>1, <3>1 DEF ContentInv
  <2>2. CASE request'[p] # request[p]
    BY <1>3, <2>2 DEF AskFor
  <2> QED
    BY <2>1, <2>2
<1>5. \A p \in Requests :
         request'[p].kind \in {"historyLines", "pollLines"} => Run(request[p].lines, request[p].c)'
  BY <1>4 DEF Run
<1>6. ReaderIsBehind' /\ \A p \in Requests : PollGoesOn(request[p])'
  BY <1>1, <1>4 DEF ReaderIsBehind, PollGoesOn
<1> QED
  BY <1>1, <1>2, <1>5, <1>6 DEF ContentInv

\* The lines stay as they are.
LEMMA SameLinesContent ==
  ASSUME LiveInv, ContentInv, AskFor(logs),
         UNCHANGED <<ssemode, cur, logs, session, late>>,
         written' \in [Containers -> Nat], \A c \in Containers : written[c] <= written'[c],
         \A h \in Handlers : handler'[h].state = "reading" /\ handler'[h].client =>
             handler[h].state = "reading" /\ handler[h].client /\ handler'[h].at = handler[h].at
  PROVE  ContentInv'
<1>t. /\ logs \in Seq(Line) /\ \A c \in Containers : written[c] \in Nat
      /\ MaxLines \in Nat
  BY LinesAssumption DEF LiveInv, LiveTypeOK
<1>1. ShownNumbers' = ShownNumbers /\ ShownNumbers = Numbers(logs)
  BY DEF ShownNumbers, Numbers
<1>2. ASSUME NEW i \in DOMAIN logs
      PROVE  logs[i] \in Line /\ logs[i].n \in Nat /\ logs[i].c \in Containers
  BY <1>t, LineElement
<1>3. ASSUME NEW c \in Containers, NEW s \in Seq(Line), Run(s, c)
      PROVE  \A i \in DOMAIN s : s[i].c = c /\ s[i].n <= written'[c] /\ s[i].n = s[1].n + i - 1
  <2> TAKE i \in DOMAIN s
  <2>1. s[i].n \in Nat
    BY LineElement
  <2> QED
    BY <1>t, <1>3, <2>1 DEF Run
<1>4. ASSUME NEW p \in Requests, request'[p].kind \in {"historyLines", "pollLines"}
      PROVE  Run(request[p].lines, request[p].c)'
  <2>1. request'[p] = request[p] /\ request[p].lines \in Seq(Line) /\ request[p].c \in Containers
    BY <1>4 DEF AskFor, LiveInv, LiveTypeOK, RequestType
  <2>2. Run(request[p].lines, request[p].c)
    BY <1>4, <2>1 DEF ContentInv
  <2>3. PICK s \in Seq(Line), c \in Containers : s = request[p].lines /\ c = request[p].c
    BY <2>1
  <2>4. \A i \in DOMAIN s : s[i].c = c /\ s[i].n <= written'[c] /\ s[i].n = s[1].n + i - 1
    BY <1>3, <2>2, <2>3
  <2>5. request'[p].lines = s /\ request'[p].c = c
    BY <2>1, <2>3
  <2> QED
    BY <2>4, <2>5 DEF Run
<1>5. ASSUME NEW p \in Requests, ~late
      PROVE  PollGoesOn(request[p])'
  <2>1. CASE request'[p] = request[p]
    BY <1>1, <1>5, <2>1 DEF PollGoesOn, ContentInv, Numbers
  <2>2. CASE request'[p] # request[p]
    BY <1>1, <2>2 DEF PollGoesOn, AskFor
  <2> QED
    BY <2>1, <2>2
<1>6. ~late => ReaderIsBehind'
  BY DEF ContentInv, ReaderIsBehind
<1>7. ~late => \A i \in DOMAIN logs : logs[i].c = cur /\ logs[i].n <= written'[cur]
  BY <1>t, <1>2 DEF ContentInv
<1> QED
  BY <1>1, <1>4, <1>5, <1>6, <1>7 DEF ContentInv, Between

\* The view has its lines and the new ones, whether or not addLine leaves the
\* first of these out.
LEMMA WithLinesRange ==
  ASSUME logs \in Seq(Line), NEW new \in Seq(Line)
  PROVE  /\ Range(WithLines(new)) = Range(logs) \cup Range(new)
         /\ new = <<>> => WithLines(new) = logs
         /\ logs = <<>> => WithLines(new) = new
<1>1. CASE new # <<>> /\ logs # <<>> /\ Head(new) = Last(logs)
  <2>1. WithLines(new) = logs \o Tail(new) /\ Tail(new) \in Seq(Line)
    BY <1>1, HeadTailProperties DEF WithLines
  <2>2. Range(WithLines(new)) = Range(logs) \cup Range(Tail(new))
    BY <2>1, RangeConcatenation
  <2>3. Range(new) = {Head(new)} \cup Range(Tail(new))
    <3>1. /\ Len(new) \in Nat /\ Len(new) >= 1 /\ DOMAIN new = 1 .. Len(new)
          /\ DOMAIN Tail(new) = 1 .. Len(new) - 1
          /\ \A i \in 1 .. Len(new) - 1 : Tail(new)[i] = new[i + 1]
          /\ Head(new) = new[1]
      BY <1>1, HeadTailProperties, LenProperties, EmptySeq
    <3>2. ASSUME NEW i \in DOMAIN new
          PROVE  new[i] \in {Head(new)} \cup Range(Tail(new))
      <4>1. CASE i = 1
        BY <3>1, <4>1
      <4>2. CASE i # 1
        <5>1. i - 1 \in DOMAIN Tail(new) /\ Tail(new)[i - 1] = new[i]
          BY <3>1, <4>2
        <5> QED
          BY <5>1 DEF Range
      <4> QED
        BY <4>1, <4>2
    <3>3. Head(new) \in Range(new)
      BY <3>1 DEF Range
    <3>4. ASSUME NEW i \in DOMAIN Tail(new)
          PROVE  Tail(new)[i] \in Range(new)
      <4>1. i + 1 \in DOMAIN new /\ Tail(new)[i] = new[i + 1]
        BY <3>1
      <4> QED
        BY <4>1 DEF Range
    <3> QED
      BY <3>2, <3>3, <3>4 DEF Range
  <2>4. Head(new) \in Range(logs)
    <3>1. Len(logs) \in DOMAIN logs /\ Last(logs) = logs[Len(logs)]
      BY <1>1, LenProperties, EmptySeq DEF Last
    <3> QED
      BY <1>1, <3>1 DEF Range
  <2> QED
    BY <1>1, <2>2, <2>3, <2>4
<1>2. CASE ~(new # <<>> /\ logs # <<>> /\ Head(new) = Last(logs))
  <2>1. WithLines(new) = logs \o new
    BY <1>2 DEF WithLines
  <2>2. Range(logs \o new) = Range(logs) \cup Range(new)
    BY RangeConcatenation
  <2>3. logs \o <<>> = logs /\ <<>> \o new = new
    BY ConcatEmptySeq
  <2> QED
    BY <2>1, <2>2, <2>3
<1> QED
  BY <1>1, <1>2

\* A run of lines leaves out no number, and its numbers increase.
LEMMA RunIsBetween ==
  ASSUME NEW c \in Containers, NEW s \in Seq(Line), Run(s, c)
  PROVE  /\ Between(Numbers(s))
         /\ \A i, j \in DOMAIN s : i < j => s[i].n < s[j].n
<1>1. Len(s) \in Nat /\ DOMAIN s = 1 .. Len(s)
  BY LenProperties
<1>2. \A i \in DOMAIN s : s[i].n \in Nat /\ s[i].n = s[1].n + i - 1
  BY LineElement DEF Run
<1>3. ASSUME NEW i \in DOMAIN s
      PROVE  1 \in DOMAIN s /\ s[1].n \in Nat
  BY <1>1, <1>2
<1>4. ASSUME NEW n \in 1 .. MaxLines, NEW i \in DOMAIN s, NEW j \in DOMAIN s, s[i].n <= n, s[j].n >= n
      PROVE  n \in Numbers(s)
  <2>1. n - s[1].n + 1 \in DOMAIN s
    BY <1>1, <1>2, <1>3, <1>4
  <2>2. s[n - s[1].n + 1].n = n
    BY <1>2, <1>3, <2>1
  <2> QED
    BY <2>1, <2>2 DEF Numbers
<1>5. \A i, j \in DOMAIN s : i < j => s[i].n < s[j].n
  BY <1>1, <1>2, <1>3
<1> QED
  BY <1>4, <1>5 DEF Between, Numbers

\* Two ranges of numbers that share one are one range.
LEMMA BetweenUnion ==
  ASSUME NEW A \in SUBSET (1 .. MaxLines), NEW B \in SUBSET (1 .. MaxLines),
         Between(A), Between(B), NEW m \in A, m \in B
  PROVE  Between(A \cup B)
<1> SUFFICES ASSUME NEW n \in 1 .. MaxLines,
                    NEW x \in A \cup B, x <= n, NEW y \in A \cup B, y >= n
             PROVE  n \in A \cup B
  BY DEF Between
<1>1. CASE n <= m
  BY <1>1 DEF Between
<1>2. CASE n >= m
  BY <1>2 DEF Between
<1> QED
  BY <1>1, <1>2, LinesAssumption

\* An answer that adds lines keeps them in order, once, and without a gap.
LEMMA AddsContent ==
  ASSUME LiveInv, ContentInv, NEW r \in Requests,
         request[r].kind \in {"historyLines", "pollLines"}, Adds(r),
         AskFor(logs'), NoClients, UNCHANGED <<written, ssemode>>
  PROVE  ContentInv'
<1> DEFINE q == request[r]
           new == q.lines
<1>t. /\ logs \in Seq(Line) /\ q \in RequestType /\ new \in Seq(Line) /\ q.c \in Containers
      /\ q.session = session => q.c = cur
      /\ q.kind = "pollLines" => ~ssemode
      /\ q.kind = "historyLines" => q.blank
      /\ ssemode \in BOOLEAN /\ q.blank \in BOOLEAN
  BY DEF LiveInv, LiveTypeOK, RequestType
<1>a. /\ logs' = WithLines(new) /\ UNCHANGED <<cur, session>>
      /\ late' = (late \/ (new # <<>> /\ OfAnotherView(r)))
  BY DEF Adds
<1>v. OfAnotherView(r) <=> (q.session # session \/ (q.blank /\ logs # <<>>))
  BY DEF OfAnotherView
<1>n. Run(new, q.c)
  BY DEF ContentInv
<1>g. ~late => PollGoesOn(q)
  BY DEF ContentInv
<1>k. q.kind \in {"historyLines", "pollLines"}
  OBVIOUS
<1> HIDE DEF new, q
<1>1. /\ logs' \in Seq(Line) /\ Range(logs') = Range(logs) \cup Range(new)
      /\ new = <<>> => logs' = logs
      /\ logs = <<>> => logs' = new
  BY <1>t, <1>a, WithLinesTyped, WithLinesRange
<1>2. /\ ShownNumbers = Numbers(logs) /\ ShownNumbers' = Numbers(logs')
      /\ Numbers(logs') = Numbers(logs) \cup Numbers(new)
  <2>1. ASSUME NEW x
        PROVE  x \in Numbers(logs') <=> x \in Numbers(logs) \/ x \in Numbers(new)
    <3>1. x \in Numbers(logs') <=> \E l \in Range(logs') : x = l.n
      BY DEF Numbers, Range
    <3>2. x \in Numbers(logs) <=> \E l \in Range(logs) : x = l.n
      BY DEF Numbers, Range
    <3>3. x \in Numbers(new) <=> \E l \in Range(new) : x = l.n
      BY DEF Numbers, Range
    <3> QED
      BY <1>1, <3>1, <3>2, <3>3
  <2>2. Numbers(logs') = Numbers(logs) \cup Numbers(new)
    BY <2>1
  <2>3. ShownNumbers = Numbers(logs) /\ ShownNumbers' = Numbers(logs')
    BY DEF ShownNumbers, Numbers
  <2> QED
    BY <2>2, <2>3
<1>3. /\ Numbers(logs) \in SUBSET (1 .. MaxLines) /\ Numbers(new) \in SUBSET (1 .. MaxLines)
  BY <1>t, LineElement DEF Numbers
<1>4. ASSUME NEW p \in Requests, request'[p].kind \in {"historyLines", "pollLines"}
      PROVE  Run(request[p].lines, request[p].c)'
  <2>1. request'[p] = request[p] /\ written' = written
    BY <1>4 DEF AskFor
  <2> QED
    BY <1>4, <2>1 DEF ContentInv, Run
<1>5. ASSUME ~late'
      PROVE  /\ \A i \in DOMAIN logs' : logs'[i].c = cur' /\ logs'[i].n <= written'[cur']
             /\ ssemode' => \A i, j \in DOMAIN logs' : i < j => logs'[i].n < logs'[j].n
             /\ ReaderIsBehind'
             /\ ~ssemode' => Between(ShownNumbers)'
             /\ \A p \in Requests : PollGoesOn(request[p])'
  <2>1. ~late /\ (new = <<>> \/ (q.session = session /\ (~q.blank \/ logs = <<>>)))
    BY <1>5, <1>a, <1>v, <1>t
  <2>2. ASSUME NEW l \in Range(logs')
        PROVE  l.c = cur /\ l.n <= written[cur]
    <3>1. CASE l \in Range(logs)
      BY <2>1, <3>1 DEF ContentInv, Range
    <3>2. CASE l \in Range(new) /\ new # <<>>
      BY <1>t, <1>n, <2>1, <3>2 DEF Run, Range
    <3>3. new = <<>> => Range(new) = {}
      BY DEF Range
    <3> QED
      BY <1>1, <2>2, <3>1, <3>2, <3>3
  <2>3. \A i \in DOMAIN logs' : logs'[i].c = cur' /\ logs'[i].n <= written'[cur']
    BY <1>a, <2>2 DEF Range
  <2>4. ReaderIsBehind'
    BY DEF NoClients, ReaderIsBehind
  <2>5. ASSUME new = <<>>
        PROVE  /\ ssemode' => \A i, j \in DOMAIN logs' : i < j => logs'[i].n < logs'[j].n
               /\ ~ssemode' => Between(Numbers(logs'))
    <3>1. logs' = logs
      BY <1>1, <2>5
    <3>2. ~ssemode => Between(Numbers(logs))
      BY <1>2, <2>1 DEF ContentInv
    <3>3. ssemode => \A i, j \in DOMAIN logs : i < j => logs[i].n < logs[j].n
      BY <2>1 DEF ContentInv
    <3> QED
      BY <3>1, <3>2, <3>3
  <2>6. ASSUME new # <<>>, logs = <<>>
        PROVE  /\ ssemode' => \A i, j \in DOMAIN logs' : i < j => logs'[i].n < logs'[j].n
               /\ ~ssemode' => Between(Numbers(logs'))
    <3>1. logs' = new
      BY <1>1, <2>6
    <3>2. Between(Numbers(new)) /\ \A i, j \in DOMAIN new : i < j => new[i].n < new[j].n
      BY <1>t, <1>n, RunIsBetween
    <3> QED
      BY <3>1, <3>2
  <2>7. ASSUME new # <<>>, logs # <<>>
        PROVE  ~ssemode' /\ Between(Numbers(logs'))
    <3>1. ~q.blank /\ q.kind = "pollLines" /\ ~ssemode /\ q.session = session
      BY <1>t, <1>k, <2>1, <2>7
    <3>2. PICK m \in ShownNumbers : m \in Numbers(new)
      BY <1>g, <2>1, <3>1 DEF PollGoesOn, new
    <3>3. Between(Numbers(logs)) /\ Between(Numbers(new))
      BY <1>t, <1>n, <1>2, <2>1, <3>1, RunIsBetween DEF ContentInv
    <3>4. Between(Numbers(logs) \cup Numbers(new))
      BY <1>2, <1>3, <3>2, <3>3, BetweenUnion
    <3> QED
      BY <1>2, <3>1, <3>4
  <2>8. ~ssemode' => Between(ShownNumbers)'
    BY <1>2, <2>5, <2>6, <2>7 DEF Between
  <2>9. ASSUME NEW p \in Requests
        PROVE  PollGoesOn(request[p])'
    <3>1. ShownNumbers \subseteq ShownNumbers' /\ session' = session
      BY <1>a, <1>2
    <3>2. CASE request'[p] = request[p]
      BY <2>1, <3>1, <3>2 DEF PollGoesOn, ContentInv, Numbers
    <3>3. CASE request'[p] # request[p]
      BY <1>2, <3>3 DEF PollGoesOn, AskFor
    <3> QED
      BY <3>2, <3>3
  <2> QED
    BY <2>3, <2>4, <2>5, <2>6, <2>7, <2>8, <2>9
<1> QED
  BY <1>4, <1>5 DEF ContentInv

\* The answer to a request is a run of lines of its container, and the answer to
\* a poll that goes on from a line has this line.
LEMMA ServerReadsContent ==
  ASSUME LiveInv, ContentInv, NEW r \in Requests, ServerReads(r)
  PROVE  ContentInv'
<1> DEFINE q == request[r]
           tail == IF q.kind = "history" THEN HistoryLines ELSE MaxLines
           first == First(q.c, q.since, tail)
           new == LinesFrom(q.c, first)
           kind == IF q.kind = "history" THEN "historyLines" ELSE "pollLines"
           p == [q EXCEPT !.kind = kind, !.lines = new]
<1>t. /\ written \in [Containers -> 0 .. MaxLines] /\ logs \in Seq(Line) /\ q \in RequestType
      /\ request \in [Requests -> RequestType]
      /\ q.kind \in {"history", "poll"} /\ q.c \in Containers /\ q.since \in Nat
      /\ (q.session = session => q.c = cur) /\ (q.kind = "history" => q.blank)
      /\ tail \in Nat /\ (q.kind = "poll" => tail = MaxLines)
      /\ MaxLines \in Nat /\ written[q.c] \in Nat /\ written[q.c] <= MaxLines
  BY LinesAssumption DEF ServerReads, LiveInv, LiveTypeOK, RequestType
<1>1. /\ request' = [request EXCEPT ![r] = p]
      /\ UNCHANGED <<written, ssemode, cur, follow, selected, logs, session, late, handler>>
  BY <1>t DEF ServerReads, viewVars
<1>2. /\ first \in Nat \ {0}
      /\ first \in {2 * q.since - 1, written[q.c] - tail + 1, 1}
  BY <1>t, FirstIsLargest
<1> HIDE DEF first, tail
<1>3. /\ new \in Seq(Line)
      /\ Len(new) = IF first <= written[q.c] THEN written[q.c] - first + 1 ELSE 0
      /\ \A i \in DOMAIN new : new[i].c = q.c /\ new[i].n = first + i - 1
  <2>1. PICK c \in Containers, f \in Nat \ {0} : c = q.c /\ f = first
    BY <1>t, <1>2
  <2>2. written \in [Containers -> 0 .. MaxLines]
    BY <1>t
  <2>3. /\ LinesFrom(c, f) \in Seq(Line)
        /\ Len(LinesFrom(c, f)) = IF f <= written[c] THEN written[c] - f + 1 ELSE 0
        /\ \A i \in DOMAIN LinesFrom(c, f) :
              LinesFrom(c, f)[i].c = c /\ LinesFrom(c, f)[i].n = f + i - 1
    BY <2>2, LinesFromTyped
  <2>4. new = LinesFrom(c, f)
    BY <2>1
  <2> HIDE DEF new, q
  <2> QED
    BY <2>1, <2>3, <2>4
<1>4. p.kind = kind /\ p.lines = new /\ p.c = q.c /\ p.session = q.session /\ p.blank = q.blank
  BY <1>t DEF RequestType
<1> HIDE DEF p, new
<1>5. Len(new) \in Nat /\ DOMAIN new = 1 .. Len(new)
  BY <1>3, LenProperties
<1>6. Run(new, q.c)
  <2> SUFFICES ASSUME NEW i \in DOMAIN new
               PROVE  new[i].c = q.c /\ new[i].n <= written[q.c] /\ new[i].n = new[1].n + i - 1
    BY DEF Run
  <2>1. 1 \in DOMAIN new /\ i \in 1 .. Len(new)
    BY <1>5
  <2>2. new[1].n = first
    BY <1>2, <1>3, <2>1
  <2> QED
    BY <1>t, <1>2, <1>3, <1>5, <2>1, <2>2
<1>7. ASSUME ~late, p.session = session, ~p.blank
      PROVE  \E n \in ShownNumbers : n \in Numbers(p.lines)
  <2>1. q.kind = "poll" /\ q.session = session /\ ~q.blank /\ q.c = cur /\ tail = MaxLines
    BY <1>t, <1>4, <1>7 DEF tail
  <2>2. PICK n \in ShownNumbers : q.since = Second(n)
    BY <1>7, <2>1 DEF ContentInv, PollGoesOn
  <2>3. n \in Nat \ {0} /\ n <= written[q.c]
    <3>1. PICK i \in DOMAIN logs : n = logs[i].n
      BY DEF ShownNumbers
    <3>2. logs[i].n \in 1 .. MaxLines
      BY <1>t, LineElement
    <3> QED
      BY <1>t, <1>7, <2>1, <3>1, <3>2 DEF ContentInv
  <2>4. first <= n
    BY <1>t, <1>2, <2>1, <2>2, <2>3 DEF Second
  <2>5. n - first + 1 \in DOMAIN new
    BY <1>t, <1>2, <1>3, <1>5, <2>3, <2>4
  <2>6. new[n - first + 1].n = n
    BY <1>2, <1>3, <2>3, <2>5
  <2> QED
    BY <1>4, <2>5, <2>6 DEF Numbers
<1>8. ASSUME NEW x \in Requests
      PROVE  /\ request'[x].kind \in {"historyLines", "pollLines"}
                   => Run(request[x].lines, request[x].c)'
             /\ ~late => PollGoesOn(request[x])'
  <2>1. CASE x = r
    <3>1. request'[x] = p
      BY <1>t, <1>1, <2>1
    <3>2. Run(request[x].lines, request[x].c)'
      BY <1>1, <1>4, <1>6, <3>1 DEF Run
    <3>3. ShownNumbers' = ShownNumbers /\ p.kind # "poll"
      BY <1>1, <1>4 DEF ShownNumbers
    <3>4. ~late => PollGoesOn(request[x])'
      BY <1>1, <1>7, <3>1, <3>3 DEF PollGoesOn, Numbers
    <3> QED
      BY <3>2, <3>4
  <2>2. CASE x # r
    <3>1. request'[x] = request[x]
      BY <1>t, <1>1, <2>2
    <3>2. request'[x].kind \in {"historyLines", "pollLines"} => Run(request[x].lines, request[x].c)'
      BY <1>1, <3>1 DEF ContentInv, Run
    <3>3. ~late => PollGoesOn(request[x])'
      BY <1>1, <3>1 DEF ContentInv, PollGoesOn, ShownNumbers, Numbers
    <3> QED
      BY <3>2, <3>3
  <2> QED
    BY <2>1, <2>2
<1>9. ~late => ReaderIsBehind' /\ (~ssemode => Between(ShownNumbers)')
  BY <1>1 DEF ContentInv, ReaderIsBehind, ShownNumbers, Between
<1> QED
  BY <1>1, <1>8, <1>9 DEF ContentInv

\* A stream of this view begins after the lines there are, so after those shown.
LEMMA OpenAnswersContent ==
  ASSUME LiveInv, ContentInv, NEW h \in Handlers, OpenAnswers(h)
  PROVE  ContentInv'
<1>t. /\ handler \in [Handlers -> StreamType] /\ handler[h].client /\ handler[h].state = "opening"
      /\ UNCHANGED <<written, ssemode, cur, logs, session, late, request>>
      /\ handler' = [handler EXCEPT ![h].state = "reading",
                        ![h].at = FollowsAfter(handler[h].c, handler[h].last)]
  BY DEF OpenAnswers, viewVars, LiveInv, LiveTypeOK
<1>1. handler[h].c = cur /\ handler'[h].at = written[cur]
  <2>1. es.h = h /\ h # NoHandler
    BY <1>t, NoneAssumption DEF LiveInv, StreamFitsView
  <2>2. es.state = "open" /\ es.c = cur /\ handler[h].c = es.c
    BY <1>t, <2>1 DEF LiveInv, StreamFitsView
  <2> QED
    BY <1>t, <2>2 DEF FollowsAfter, StreamType
<1>2. ~late => ReaderIsBehind'
  <2> SUFFICES ASSUME ~late, NEW g \in Handlers, handler'[g].state = "reading", handler'[g].client,
                      NEW i \in DOMAIN logs
               PROVE  logs[i].n <= handler'[g].at
    BY <1>t DEF ReaderIsBehind
  <2>1. CASE g = h
    BY <1>1, <2>1 DEF ContentInv
  <2>2. CASE g # h
    BY <1>t, <2>2 DEF ContentInv, ReaderIsBehind
  <2> QED
    BY <2>1, <2>2
<1>3. \A x \in Requests :
         /\ request'[x].kind \in {"historyLines", "pollLines"} => Run(request[x].lines, request[x].c)'
         /\ ~late => PollGoesOn(request[x])'
  BY <1>t DEF ContentInv, Run, PollGoesOn, ShownNumbers, Numbers
<1>4. ~late => (~ssemode => Between(ShownNumbers)')
  BY <1>t DEF ContentInv, ShownNumbers, Between
<1> QED
  BY <1>t, <1>2, <1>3, <1>4 DEF ContentInv

\* A line of a stream of this view comes after those shown.
LEMMA SendsLineContent ==
  ASSUME LiveInv, ContentInv, NEW h \in Handlers, SendsLine(h)
  PROVE  ContentInv'
<1> DEFINE ln == [c |-> handler[h].c, n |-> handler[h].at + 1]
<1>t. /\ handler \in [Handlers -> StreamType] /\ handler[h] \in StreamType
      /\ handler[h].client /\ handler[h].state = "reading"
      /\ handler[h].at \in Nat /\ handler[h].at < written[handler[h].c]
      /\ UNCHANGED <<written, ssemode, cur, session, late, request>>
      /\ handler' = [handler EXCEPT ![h].at = @ + 1, ![h].last = Second(ln.n)]
      /\ logs' = WithLines(<<ln>>) /\ logs \in Seq(Line)
      /\ written \in [Containers -> 0 .. MaxLines] /\ MaxLines \in Nat
  BY LinesAssumption DEF SendsLine, LiveInv, LiveTypeOK, StreamType
<1>1. es.h = h /\ ssemode /\ cur \in Containers /\ handler[h].c = cur
  <2>1. es.h = h /\ h # NoHandler
    BY <1>t, NoneAssumption DEF LiveInv, StreamFitsView
  <2>2. es.state = "open" /\ es.c = cur /\ handler[h].c = es.c /\ ssemode /\ cur # NoContainer
    BY <1>t, <2>1 DEF LiveInv, StreamFitsView
  <2> QED
    BY <2>1, <2>2 DEF LiveInv, LiveTypeOK, Views
<1>2. \A x \in Requests :
         /\ request'[x].kind \in {"historyLines", "pollLines"} => Run(request[x].lines, request[x].c)'
         /\ request'[x].kind = "none" \/ request'[x].session # session' \/ request'[x].blank
  <2>1. \A x \in Requests :
           request'[x].kind = "none" \/ request'[x].session # session' \/ request'[x].blank
    BY <1>t, <1>1 DEF LiveInv, LiveTypeOK, RequestType
  <2>2. \A x \in Requests :
           request'[x].kind \in {"historyLines", "pollLines"} => Run(request[x].lines, request[x].c)'
    BY <1>t DEF ContentInv, Run
  <2> QED
    BY <2>1, <2>2
<1>3. ASSUME ~late
      PROVE  /\ \A i \in DOMAIN logs' : logs'[i].c = cur' /\ logs'[i].n <= written'[cur]
             /\ \A i, j \in DOMAIN logs' : i < j => logs'[i].n < logs'[j].n
             /\ ReaderIsBehind'
  <2>1. \A i \in DOMAIN logs : logs[i].n \in Nat /\ logs[i].n <= handler[h].at /\ logs[i].c = cur
    BY <1>t, <1>3, LineElement DEF ContentInv, ReaderIsBehind
  <2>2. ln.n = handler[h].at + 1 /\ ln.c = cur
    BY <1>1
  <2> HIDE DEF ln
  <2>3. logs # <<>> => Last(logs) # ln
    <3>1. logs # <<>> => Len(logs) \in DOMAIN logs /\ Last(logs) = logs[Len(logs)]
      BY <1>t, LenProperties, EmptySeq DEF Last
    <3> QED
      BY <1>t, <2>1, <2>2, <3>1
  <2>4. logs' = logs \o <<ln>>
    BY <1>t, <2>3 DEF WithLines
  <2>5. /\ Len(logs) \in Nat /\ DOMAIN logs = 1 .. Len(logs)
        /\ DOMAIN logs' = 1 .. Len(logs) + 1
        /\ \A i \in 1 .. Len(logs) : logs'[i] = logs[i]
        /\ logs'[Len(logs) + 1] = ln
    <3>1. ln \in Line
      BY <1>t, <1>1, <2>2 DEF Line, ln
    <3>2. <<ln>> \in Seq(Line) /\ Len(<<ln>>) = 1
      BY <3>1
    <3> QED
      BY <1>t, <2>4, <3>2, ConcatProperties, LenProperties
  <2>6. \A i \in DOMAIN logs' : i \in 1 .. Len(logs) \/ i = Len(logs) + 1
    BY <2>5
  <2>7. handler'[h].at = handler[h].at + 1 /\ \A g \in Handlers : g # h => ~handler'[g].client
    <3>1. \A g \in Handlers : g # h => handler'[g] = handler[g] /\ ~handler[g].client
      BY <1>t, <1>1 DEF LiveInv, StreamFitsView
    <3>2. handler'[h].at = handler[h].at + 1
      BY <1>t DEF StreamType
    <3> QED
      BY <3>1, <3>2
  <2>8. ASSUME NEW i \in DOMAIN logs'
        PROVE  logs'[i].c = cur' /\ logs'[i].n <= written'[cur] /\ logs'[i].n <= handler'[h].at
    BY <1>t, <1>1, <1>3, <2>1, <2>2, <2>5, <2>6, <2>7, SMTT(30) DEF ContentInv
  <2>9. \A i, j \in DOMAIN logs' : i < j => logs'[i].n < logs'[j].n
    <3> SUFFICES ASSUME NEW i \in DOMAIN logs', NEW j \in DOMAIN logs', i < j
                 PROVE  logs'[i].n < logs'[j].n
      OBVIOUS
    <3>1. i \in 1 .. Len(logs)
      BY <2>5, <2>6
    <3>2. CASE j = Len(logs) + 1
      BY <1>t, <2>1, <2>2, <2>5, <3>1, <3>2
    <3>3. CASE j \in 1 .. Len(logs)
      BY <1>1, <1>3, <2>5, <3>1, <3>3 DEF ContentInv
    <3> QED
      BY <2>6, <3>2, <3>3
  <2> QED
    BY <2>7, <2>8, <2>9 DEF ReaderIsBehind
<1>4. \A x \in Requests : PollGoesOn(request[x])'
  BY <1>2 DEF PollGoesOn
<1> QED
  BY <1>t, <1>1, <1>2, <1>3, <1>4 DEF ContentInv

\* Whatever the user does keeps the lines shown in order.
LEMMA UserContent ==
  ASSUME LiveInv, LiveInv', ContentInv, User
  PROVE  ContentInv'
<1>1. ASSUME NEW r \in Requests, NEW c \in Containers, Open(r, c)
      PROVE  ContentInv'
  BY <1>1, LoadHistoryAsks, ResetContent DEF Open
<1>2. ASSUME NEW r \in Requests, Reload(r)
      PROVE  ContentInv'
  BY <1>2, LoadHistoryAsks, ResetContent DEF Reload
<1>3. ASSUME NEW r \in Requests, FollowOn(r)
      PROVE  ContentInv'
  <2>1. CASE logs # <<>>
    <3>1. /\ UNCHANGED <<written, ssemode, cur, logs, session, late>> /\ StartStream(r, cur, logs)
          /\ logs \in Seq(Line)
      BY <1>3, <2>1 DEF FollowOn, LiveInv, LiveTypeOK
    <3>2. AskFor(logs) /\ NoClients
      BY <3>1, StartStreamAsks
    <3>3. /\ written' \in [Containers -> Nat] /\ \A c \in Containers : written[c] <= written'[c]
      BY <3>1, LinesAssumption DEF LiveInv, LiveTypeOK
    <3> QED
      BY <3>1, <3>2, <3>3, SameLinesContent DEF NoClients
  <2>2. CASE logs = <<>>
    BY <1>3, <2>2, LoadHistoryAsks, ResetContent DEF FollowOn
  <2> QED
    BY <2>1, <2>2
<1>4. CASE Close
  <2>1. CloseStream /\ Reset /\ UNCHANGED <<written, ssemode, request>>
    BY <1>4 DEF Close, CloseView
  <2>2. AskFor(<<>>) /\ NoClients
    BY <2>1, CloseStreamEnds DEF AskFor, NoClients
  <2> QED
    BY <2>1, <2>2, ResetContent
<1>5. CASE FollowOff
  <2>1. CloseStream /\ UNCHANGED <<written, ssemode, cur, logs, session, late, request>>
    BY <1>5 DEF FollowOff
  <2>2. AskFor(logs) /\ NoClients
    BY <2>1, CloseStreamEnds DEF AskFor, NoClients
  <2>3. /\ written' \in [Containers -> Nat] /\ \A c \in Containers : written[c] <= written'[c]
    BY <2>1, LinesAssumption DEF LiveInv, LiveTypeOK
  <2> QED
    BY <2>1, <2>2, <2>3, SameLinesContent DEF NoClients
<1> QED
  BY <1>1, <1>2, <1>3, <1>4, <1>5 DEF User

\* Answers to requests keep the lines shown in order.
LEMMA RequestsContent ==
  ASSUME LiveInv, LiveInv', ContentInv, NEW r \in Requests, Request(r)
  PROVE  ContentInv'
<1>t. /\ request \in [Requests -> RequestType] /\ logs \in Seq(Line) /\ logs' \in Seq(Line)
      /\ handler \in [Handlers -> StreamType] /\ NoRequest.kind = "none"
      /\ written \in [Containers -> Nat]
  BY LinesAssumption DEF LiveInv, LiveTypeOK, NoRequest
<1>1. CASE PollTick(r)
  <2>1. PICK p \in Poll(cur, logs) : request' = [request EXCEPT ![r] = p]
    BY <1>1 DEF PollTick
  <2>2. UNCHANGED <<written, ssemode, cur, logs, session, late, handler>>
    BY <1>1 DEF PollTick, viewVars
  <2>3. AskFor(logs)
    <3>1. p.kind = "poll" /\ (p.blank \/ \E n \in Numbers(logs) : p.since = Second(n))
      BY <1>t, PollAsks
    <3> QED
      BY <1>t, <2>1, <3>1 DEF AskFor
  <2>4. \A c \in Containers : written[c] <= written'[c]
    BY <1>t, <2>2
  <2> QED
    BY <1>t, <2>2, <2>3, <2>4, SameLinesContent
<1>2. CASE ServerReads(r)
  BY <1>2, ServerReadsContent
<1>3. CASE HistoryArrives(r)
  <2>1. /\ Adds(r) /\ StartStream(r, cur, logs') /\ UNCHANGED <<written, ssemode>>
        /\ request[r].kind = "historyLines"
    BY <1>3 DEF HistoryArrives
  <2>2. PICK shown \in Seq(Line) : shown = logs'
    BY <1>t
  <2>3. AskFor(shown) /\ NoClients
    BY <2>1, <2>2, StartStreamAsks
  <2>4. AskFor(logs')
    BY <2>2, <2>3
  <2> QED
    BY <2>1, <2>3, <2>4, AddsContent
<1>4. CASE HistoryFails(r)
  <2>1. UNCHANGED <<written, ssemode, cur, logs, session, late>> /\ StartStream(r, cur, logs)
    BY <1>4 DEF HistoryFails, viewVars
  <2>2. AskFor(logs) /\ NoClients
    BY <1>t, <2>1, StartStreamAsks
  <2>3. \A c \in Containers : written[c] <= written'[c]
    BY <1>t, <2>1
  <2> QED
    BY <1>t, <2>1, <2>2, <2>3, SameLinesContent DEF NoClients
<1>5. CASE HistoryNotFound(r)
  <2>1. CloseStream /\ Reset /\ UNCHANGED <<written, ssemode>> /\ request' = [request EXCEPT ![r] = NoRequest]
    BY <1>5 DEF HistoryNotFound, CloseView
  <2>2. AskFor(<<>>) /\ NoClients
    BY <1>t, <2>1, CloseStreamEnds DEF AskFor, NoClients
  <2> QED
    BY <2>1, <2>2, ResetContent
<1>6. CASE RequestLost(r)
  <2>1. UNCHANGED <<written, ssemode, cur, logs, session, late, handler>>
        /\ request' = [request EXCEPT ![r] = NoRequest]
    BY <1>6 DEF RequestLost, viewVars
  <2>2. AskFor(logs)
    BY <1>t, <2>1 DEF AskFor
  <2>3. \A c \in Containers : written[c] <= written'[c]
    BY <1>t, <2>1
  <2> QED
    BY <1>t, <2>1, <2>2, <2>3, SameLinesContent
<1>7. CASE PollArrives(r)
  <2>1. /\ Adds(r) /\ UNCHANGED <<written, ssemode, es, handler>> /\ request[r].kind = "pollLines"
        /\ request' = [request EXCEPT ![r] = NoRequest]
    BY <1>7 DEF PollArrives
  <2>2. AskFor(logs')
    BY <1>t, <2>1 DEF AskFor
  <2>3. NoClients
    <3>1. ~ssemode /\ es.state = "none" /\ es.h = NoHandler
      BY <2>1 DEF LiveInv, StreamFitsView
    <3> QED
      BY <2>1, <3>1, NoneAssumption DEF LiveInv, StreamFitsView, NoClients
  <2> QED
    BY <2>1, <2>2, <2>3, AddsContent
<1> QED
  BY <1>1, <1>2, <1>3, <1>4, <1>5, <1>6, <1>7 DEF Request

\* A step of the stream that neither reads nor begins to.
LEMMA HandlerSameContent ==
  ASSUME LiveInv, ContentInv, UNCHANGED <<written, ssemode, viewVars, request>>,
         NEW h, NEW s, handler' = [handler EXCEPT ![h] = s], s.state # "reading" \/ ~s.client
  PROVE  ContentInv'
<1>1. UNCHANGED <<written, ssemode, cur, logs, session, late, request>>
      /\ handler \in [Handlers -> StreamType] /\ written \in [Containers -> Nat]
  BY LinesAssumption DEF viewVars, LiveInv, LiveTypeOK
<1>2. AskFor(logs) /\ \A c \in Containers : written[c] <= written'[c]
  BY <1>1 DEF AskFor
<1>3. \A g \in Handlers : handler'[g].state = "reading" /\ handler'[g].client =>
          handler[g].state = "reading" /\ handler[g].client /\ handler'[g].at = handler[g].at
  BY <1>1
<1> QED
  BY <1>1, <1>2, <1>3, SameLinesContent

\* Events of a stream keep the lines shown in order.
LEMMA HandlersContent ==
  ASSUME LiveInv, ContentInv, NEW h \in Handlers, Connects(h) \/ Handler(h)
  PROVE  ContentInv'
<1>t. handler \in [Handlers -> StreamType] /\ handler[h] \in StreamType
  BY DEF LiveInv, LiveTypeOK
<1>1. CASE Connects(h)
  <2> DEFINE s == [state |-> "opening", c |-> es.c, last |-> es.since, at |-> 0, client |-> TRUE]
  <2>1. handler' = [handler EXCEPT ![h] = s] /\ s.state = "opening"
        /\ UNCHANGED <<written, ssemode, viewVars, request>>
    BY <1>1 DEF Connects
  <2> HIDE DEF s
  <2> QED
    BY <2>1, HandlerSameContent
<1>2. ASSUME NEW state \in {"sleeping", "checking", "opening"}, GoesTo(h, state),
             UNCHANGED <<written, ssemode, viewVars, request>>
      PROVE  ContentInv'
  <2> DEFINE s == [handler[h] EXCEPT !.state = state]
  <2>1. handler' = [handler EXCEPT ![h] = s] /\ s.state = state
    BY <1>2, <1>t DEF GoesTo, StreamType
  <2> HIDE DEF s
  <2> QED
    BY <1>2, <2>1, HandlerSameContent
<1>3. ASSUME Returns(h), UNCHANGED <<written, ssemode, viewVars, request>>
      PROVE  ContentInv'
  <2>1. NoStream.state = "free" /\ handler' = [handler EXCEPT ![h] = NoStream]
    BY <1>3 DEF Returns, NoStream
  <2> QED
    BY <1>3, <2>1, HandlerSameContent
<1>4. CASE OpenAnswers(h)
  BY <1>4, OpenAnswersContent
<1>5. CASE OpenFails(h)
  <2>1. UNCHANGED <<written, ssemode, viewVars, request>> /\ (GoesTo(h, "sleeping") \/ Returns(h))
    BY <1>5 DEF OpenFails
  <2> QED
    BY <1>2, <1>3, <2>1
<1>6. CASE SendsLine(h)
  BY <1>6, SendsLineContent
<1>7. CASE StreamEnds(h)
  <2>1. UNCHANGED <<written, ssemode, viewVars, request>> /\ (GoesTo(h, "checking") \/ Returns(h))
    BY <1>7 DEF StreamEnds
  <2> QED
    BY <1>2, <1>3, <2>1
<1>8. CASE Checks(h)
  <2>1. UNCHANGED <<written, ssemode, viewVars, request>> /\ (GoesTo(h, "sleeping") \/ Returns(h))
    BY <1>8 DEF Checks
  <2> QED
    BY <1>2, <1>3, <2>1
<1>9. CASE Wakes(h)
  <2>1. UNCHANGED <<written, ssemode, viewVars, request>> /\ (GoesTo(h, "opening") \/ Returns(h))
    BY <1>9 DEF Wakes
  <2> QED
    BY <1>2, <1>3, <2>1
<1> QED
  BY <1>1, <1>4, <1>5, <1>6, <1>7, <1>8, <1>9 DEF Handler

\* Each step keeps it.
LEMMA NextContentInv ==
  LiveInv /\ LiveInv' /\ ContentInv /\ [Next]_vars => ContentInv'
<1> SUFFICES ASSUME LiveInv, LiveInv', ContentInv, [Next]_vars PROVE ContentInv'
  OBVIOUS
<1>t. /\ handler \in [Handlers -> StreamType] /\ written \in [Containers -> 0 .. MaxLines]
      /\ MaxLines \in Nat
  BY LinesAssumption DEF LiveInv, LiveTypeOK
<1>1. ASSUME NEW c \in Containers, ContainerWrites(c)
      PROVE  ContentInv'
  <2>1. /\ UNCHANGED <<ssemode, cur, logs, session, late, request, handler>>
        /\ written' = [written EXCEPT ![c] = @ + 1]
    BY <1>1 DEF ContainerWrites, viewVars
  <2>2. written' \in [Containers -> Nat] /\ \A d \in Containers : written[d] <= written'[d]
    BY <1>t, <2>1
  <2>3. AskFor(logs)
    BY <2>1 DEF AskFor
  <2> QED
    BY <2>1, <2>2, <2>3, SameLinesContent
<1>2. CASE ConnectionLost
  <2>1. /\ UNCHANGED <<written, ssemode, viewVars, request>> /\ handler' = Disconnected(es.h)
        /\ UNCHANGED <<cur, logs, session, late>>
    BY <1>2 DEF ConnectionLost, viewVars
  <2>2. AskFor(logs) /\ written' \in [Containers -> Nat] /\ \A d \in Containers : written[d] <= written'[d]
    BY <1>t, <2>1 DEF AskFor
  <2>3. \A g \in Handlers : handler'[g].state = "reading" /\ handler'[g].client =>
            handler[g].state = "reading" /\ handler[g].client /\ handler'[g].at = handler[g].at
    BY <1>t, <2>1 DEF Disconnected, StreamType
  <2> QED
    BY <2>1, <2>2, <2>3, SameLinesContent
<1>3. CASE UNCHANGED vars
  <2>1. UNCHANGED <<written, ssemode, cur, logs, session, late, request, handler>>
    BY <1>3 DEF vars, viewVars
  <2>2. AskFor(logs) /\ written' \in [Containers -> Nat] /\ \A d \in Containers : written[d] <= written'[d]
    BY <1>t, <2>1 DEF AskFor
  <2> QED
    BY <2>1, <2>2, SameLinesContent
<1> QED
  BY <1>1, <1>2, <1>3, UserContent, RequestsContent, HandlersContent DEF Next

\* The invariant says what the properties say.
LEMMA ContentInvSays ==
  ASSUME LiveInv, ContentInv
  PROVE  InOrderOnce /\ PollingHasNoGap
<1>1. InOrderOnce
  BY DEF ContentInv, InOrderOnce
<1>2. ASSUME ~ssemode, ~late, logs # <<>>
      PROVE  Between({n \in ShownNumbers : n <= Last(logs).n})
  <2>1. Between(ShownNumbers)
    BY <1>2 DEF ContentInv
  <2>2. /\ \A n \in ShownNumbers : n \in Nat
        /\ Last(logs).n \in Nat /\ logs \in Seq(Line)
    <3>1. logs \in Seq(Line) /\ Len(logs) \in DOMAIN logs /\ Last(logs) = logs[Len(logs)]
      BY <1>2, LenProperties, EmptySeq DEF LiveInv, LiveTypeOK, Last
    <3> QED
      BY <3>1, LineElement DEF ShownNumbers
  <2>3. ASSUME NEW n \in 1 .. MaxLines,
               NEW a \in ShownNumbers, a <= n, NEW b \in ShownNumbers, b <= Last(logs).n, b >= n
        PROVE  n \in ShownNumbers /\ n <= Last(logs).n
    BY <2>1, <2>2, <2>3 DEF Between
  <2> QED
    BY <2>3 DEF Between
<1> QED
  BY <1>1, <1>2 DEF PollingHasNoGap

\* Unless a late answer has come in, an EventSource shows lines of the container
\* in the view, in their order and none twice, however often it reconnects.
THEOREM ShownOnce == Spec => []InOrderOnce
<1>1. Init => LiveInv /\ ContentInv
  BY InitLiveInv, InitContentInv
<1>2. LiveInv /\ ContentInv /\ [Next]_vars => LiveInv' /\ ContentInv'
  BY NextLiveInv, NextContentInv
<1>3. LiveInv /\ ContentInv => InOrderOnce
  BY ContentInvSays
<1> QED
  BY <1>1, <1>2, <1>3, PTL DEF Spec

\* Polling leaves out no line before the last one shown, in whatever order its
\* answers arrive.
THEOREM PollsGoOn == Spec => []PollingHasNoGap
<1>1. Init => LiveInv /\ ContentInv
  BY InitLiveInv, InitContentInv
<1>2. LiveInv /\ ContentInv /\ [Next]_vars => LiveInv' /\ ContentInv'
  BY NextLiveInv, NextContentInv
<1>3. LiveInv /\ ContentInv => PollingHasNoGap
  BY ContentInvSays
<1> QED
  BY <1>1, <1>2, <1>3, PTL DEF Spec

\* Both invariants hold in the behaviours that the run checks.
LEMMA ContentInParts == PartsSpec => [](part = "live" => LiveInv /\ ContentInv)
<1> DEFINE Inv == part = "live" => LiveInv /\ ContentInv
<1>1. PartsInit => Inv
  BY InitLiveInv, InitContentInv DEF PartsInit
<1>2. Inv /\ [PartsNext]_partsVars => Inv'
  <2> SUFFICES ASSUME part = "live" => LiveInv /\ ContentInv, [PartsNext]_partsVars, part' = "live"
               PROVE  LiveInv' /\ ContentInv'
    OBVIOUS
  <2>1. LiveInv /\ ContentInv /\ [Next]_vars
    BY DEF PartsNext, partsVars
  <2> QED
    BY <2>1, NextLiveInv, NextContentInv
<1> QED
  BY <1>1, <1>2, PTL DEF PartsSpec

\* ShownOnce, of the behaviours that the run checks.
THEOREM ShownOnceInParts == PartsSpec => []ShownInOrderOnce
<1>1. (part = "live" => LiveInv /\ ContentInv) => ShownInOrderOnce
  BY ContentInvSays DEF ShownInOrderOnce
<1> QED
  BY <1>1, ContentInParts, PTL

\* PollsGoOn, of the behaviours that the run checks.
THEOREM PollsGoOnInParts == PartsSpec => []PollsLeaveNoGap
<1>1. (part = "live" => LiveInv /\ ContentInv) => PollsLeaveNoGap
  BY ContentInvSays DEF PollsLeaveNoGap
<1> QED
  BY <1>1, ContentInParts, PTL

-----------------------------------------------------------------------------
(* Logins (Session)                                                         *)

\* How long the browser keeps the cookie of a login.
CookieAge == IF Login!MaxAge > 0 THEN Login!MaxAge ELSE PersistentAge

(* The inductive invariant.  What a reply of this process brings, and what   *)
(* the cookie of a session of this process says, is what the configuration   *)
(* makes of the time of the login; a process knows nothing of the cookies of *)
(* another, so nothing is said of these but whose they are.                  *)
LoginInv ==
    /\ now \in Nat /\ boot \in Nat \ {0} /\ lifetime \in Nat /\ enabled \in BOOLEAN
    /\ ttl = IF lifetime > 0 THEN Login!Signed(lifetime * SecondUnits) ELSE 0
    /\ \A r \in replies :
          /\ r.kind \in {"login", "logout"} /\ r.boot \in 1 .. boot /\ r.at \in Nat /\ r.at <= now
          /\ r.kind = "login" /\ r.boot = boot =>
                r.exp = Login!TokenExp(r.at) /\ r.age = Login!MaxAge
    /\ login # Login!NoSession =>
          /\ login.boot \in 1 .. boot /\ login.at \in Nat /\ login.got \in Nat
          /\ login.at <= login.got /\ login.got <= now
    /\ cookie # Login!NoCookie => login # Login!NoSession /\ cookie.boot = login.boot
    /\ Login!InSession =>
          \/ cookie = Login!NoCookie /\ (Login!Fits => login.got + CookieAge <= now)
          \/ cookie = [boot |-> boot, exp |-> Login!TokenExp(login.at),
                       until |-> login.got + CookieAge]

\* A product of natural numbers, divided by one of them.
LEMMA ProductDivided ==
  ASSUME NEW a \in Nat, NEW b \in Nat \ {0}
  PROVE  (a * b) \div b = a /\ a * b \in Nat /\ (a > 0 => a * b > 0) /\ (a = 0 => a * b = 0)
<1>1. a * b \in Nat /\ (a = 0 => a * b = 0)
  OBVIOUS
<1>2. a > 0 => a * b > 0
  OBVIOUS
<1>3. (a * b) \div b = a
  OBVIOUS
<1> QED
  BY <1>1, <1>2, <1>3

\* When the lifetime fits into a duration, token and cookie get what was
\* configured.
LEMMA FittingLifetime ==
  ASSUME LoginInv, Login!Fits
  PROVE  /\ \A at : Login!TokenExp(at) = IF lifetime > 0 THEN at + lifetime ELSE 0
         /\ CookieAge = IF lifetime > 0 THEN lifetime ELSE PersistentAge
<1>1. lifetime \in Nat /\ SecondUnits \in Nat \ {0} /\ PersistentAge \in Nat \ {0}
  BY SessionAssumption DEF LoginInv
<1>2. ttl = IF lifetime > 0 THEN lifetime * SecondUnits ELSE 0
  BY DEF LoginInv, Login!Fits
<1>3. lifetime > 0 => ttl > 0 /\ ttl \div SecondUnits = lifetime
  BY <1>1, <1>2, ProductDivided
<1>4. ~(lifetime > 0) => ttl = 0
  BY <1>2
<1> QED
  BY <1>1, <1>3, <1>4 DEF Login!TokenExp, Login!MaxAge, Login!Seconds, CookieAge

\* It holds at first.
LEMMA InitLoginInv == Login!Init => LoginInv
<1> SUFFICES ASSUME Login!Init PROVE LoginInv
  OBVIOUS
<1>1. ~Login!InSession
  BY DEF Login!Init, Login!InSession
<1> QED
  BY <1>1, SessionAssumption DEF Login!Init, LoginInv

\* Each step keeps it.
LEMMA NextLoginInv == LoginInv /\ [Login!Next]_(Login!vars) => LoginInv'
<1> SUFFICES ASSUME LoginInv, [Login!Next]_(Login!vars) PROVE LoginInv'
  OBVIOUS
<1> DEFINE Exp(at) == IF ttl > 0 THEN at + Login!Seconds(ttl) ELSE 0
<1>t. /\ now \in Nat /\ boot \in Nat \ {0} /\ PersistentAge \in Nat \ {0}
      /\ Lifetimes \subseteq Nat
  BY SessionAssumption DEF LoginInv
<1>e. /\ \A at : Login!TokenExp(at) = Exp(at)
      /\ Login!TokenExp(now) = Exp(now) /\ Login!TokenExp(login.at) = Exp(login.at)
  BY DEF Login!TokenExp
<1>c. ASSUME UNCHANGED <<lifetime, ttl>>
      PROVE  /\ \A r : Login!TokenExp(r.at)' = Exp(r'.at)
             /\ Login!TokenExp(login.at)' = Exp(login'.at)
             /\ Login!MaxAge' = Login!MaxAge /\ CookieAge' = CookieAge
             /\ Login!Fits' = Login!Fits
  BY <1>c DEF Login!TokenExp, Login!Seconds, Login!MaxAge, CookieAge, Login!Fits
<1>a. Login!Fits => CookieAge \in Nat \ {0}
  BY <1>t, FittingLifetime DEF LoginInv
<1> HIDE DEF Exp
<1>1. ASSUME Login!Login \/ Login!Logout
      PROVE  LoginInv'
  <2>1. UNCHANGED <<now, boot, enabled, lifetime, ttl, cookie, login>>
    BY <1>1 DEF Login!Login, Login!Logout, Login!configVars, Login!browserVars
  <2>2. PICK r : /\ replies' = replies \cup {r} /\ r.kind \in {"login", "logout"}
                 /\ r.boot = boot /\ r.at = now
                 /\ r.kind = "login" => r.exp = Exp(r.at) /\ r.age = Login!MaxAge
    <3>1. CASE Login!Login
      <4> DEFINE r == [kind |-> "login", boot |-> boot, at |-> now, exp |-> Login!TokenExp(now),
                       age |-> Login!MaxAge]
      <4>1. replies' = replies \cup {r}
        BY <3>1 DEF Login!Login
      <4>2. /\ r.kind = "login" /\ r.boot = boot /\ r.at = now
            /\ r.exp = Exp(now) /\ r.age = Login!MaxAge
        BY <1>e
      <4> QED
        BY <4>1, <4>2
    <3>2. CASE Login!Logout
      <4> DEFINE r == [kind |-> "logout", boot |-> boot, at |-> now, exp |-> 0, age |-> -1]
      <4>1. replies' = replies \cup {r}
        BY <3>2 DEF Login!Logout
      <4>2. r.kind = "logout" /\ r.boot = boot /\ r.at = now
        OBVIOUS
      <4> QED
        BY <4>1, <4>2
    <3> QED
      BY <1>1, <3>1, <3>2
  <2>3. now <= now /\ boot \in 1 .. boot
    BY <1>t
  <2>4. \A x \in replies' :
           /\ x.kind \in {"login", "logout"} /\ x.boot \in 1 .. boot /\ x.at \in Nat /\ x.at <= now
           /\ x.kind = "login" /\ x.boot = boot => x.exp = Exp(x.at) /\ x.age = Login!MaxAge
    BY <1>t, <1>e, <2>2, <2>3 DEF LoginInv
  <2>5. \A x \in replies' : x.kind = "login" /\ x.boot = boot =>
           x.exp = Login!TokenExp(x.at)' /\ x.age = Login!MaxAge'
    BY <2>1, <2>4 DEF Login!TokenExp, Login!Seconds, Login!MaxAge, Exp
  <2>6. Login!InSession' = Login!InSession
    BY <2>1 DEF Login!InSession
  <2> QED
    BY <1>c, <1>e, <2>1, <2>4, <2>5, <2>6 DEF LoginInv
<1>2. ASSUME NEW r \in replies, Login!ReplyArrives(r)
      PROVE  LoginInv'
  <2>1. /\ UNCHANGED <<now, boot, enabled, lifetime, ttl>> /\ replies' \subseteq replies
        /\ cookie' = Login!Stored(r)
        /\ login' = IF r.kind = "login" THEN [boot |-> r.boot, at |-> r.at, got |-> now]
                    ELSE Login!NoSession
    BY <1>2 DEF Login!ReplyArrives, Login!configVars
  <2>2. /\ r.kind \in {"login", "logout"} /\ r.boot \in 1 .. boot /\ r.at \in Nat /\ r.at <= now
        /\ r.kind = "login" /\ r.boot = boot => r.exp = Exp(r.at) /\ r.age = Login!MaxAge
    BY <1>e DEF LoginInv
  <2>3. \A x \in replies' : x.kind = "login" /\ x.boot = boot =>
           x.exp = Login!TokenExp(x.at)' /\ x.age = Login!MaxAge'
    BY <2>1 DEF LoginInv, Login!TokenExp, Login!Seconds, Login!MaxAge
  <2>4. CASE r.kind = "logout"
    <3>1. cookie' = Login!NoCookie /\ login' = Login!NoSession
      BY <2>1, <2>4 DEF Login!Stored
    <3>2. ~Login!InSession'
      BY <3>1 DEF Login!InSession, Login!NoSession
    <3> QED
      BY <2>1, <2>3, <3>1, <3>2 DEF LoginInv, Login!NoCookie, Login!NoSession
  <2>5. CASE r.kind = "login"
    <3> DEFINE age == IF r.age > 0 THEN r.age ELSE PersistentAge
    <3>1. /\ cookie' = [boot |-> r.boot, exp |-> r.exp, until |-> now + age]
          /\ login' = [boot |-> r.boot, at |-> r.at, got |-> now]
      BY <2>1, <2>5 DEF Login!Stored
    <3>2. r.boot = boot => age = CookieAge /\ r.exp = Exp(r.at)
      BY <2>2, <2>5 DEF CookieAge
    <3> HIDE DEF age
    <3>3. /\ login'.boot = r.boot /\ login'.at = r.at /\ login'.got = now /\ cookie'.boot = r.boot
          /\ now <= now
      BY <1>t, <3>1
    <3>4. login' # Login!NoSession
      BY <2>2, <3>3 DEF Login!NoSession
    <3>5. Login!InSession' =>
            cookie' = [boot |-> boot', exp |-> Login!TokenExp(login.at)',
                       until |-> login'.got + CookieAge']
      BY <1>c, <2>1, <3>1, <3>2, <3>3 DEF Login!InSession
    <3> QED
      BY <1>t, <2>1, <2>2, <2>3, <3>3, <3>4, <3>5 DEF LoginInv, Login!NoSession
  <2> QED
    BY <2>2, <2>4, <2>5
<1>3. ASSUME Login!Tick
      PROVE  LoginInv'
  <2>1. /\ UNCHANGED <<boot, enabled, lifetime, ttl, replies, login>> /\ now' = now + 1
        /\ cookie' = IF cookie.until <= now' THEN Login!NoCookie ELSE cookie
    BY <1>3 DEF Login!Tick, Login!configVars
  <2>2. \A x \in replies' : x.kind = "login" /\ x.boot = boot =>
           x.exp = Login!TokenExp(x.at)' /\ x.age = Login!MaxAge'
    BY <2>1 DEF LoginInv, Login!TokenExp, Login!Seconds, Login!MaxAge
  <2>3. \A x \in replies' : x.at \in Nat /\ x.at <= now'
    BY <1>t, <2>1 DEF LoginInv
  <2>4. login # Login!NoSession => login.got \in Nat /\ login.got <= now'
    BY <1>t, <2>1 DEF LoginInv
  <2>5. ASSUME Login!InSession'
        PROVE  \/ cookie' = Login!NoCookie /\ (Login!Fits' => login'.got + CookieAge' <= now')
               \/ cookie' = [boot |-> boot', exp |-> Login!TokenExp(login.at)',
                             until |-> login'.got + CookieAge']
    <3>1. Login!InSession /\ login # Login!NoSession /\ login.got \in Nat
      BY <2>1, <2>4, <2>5 DEF Login!InSession
    <3>2. CASE cookie = Login!NoCookie /\ (Login!Fits => login.got + CookieAge <= now)
      <4>1. cookie' = Login!NoCookie
        BY <2>1, <3>2
      <4>2. Login!Fits => login.got + CookieAge <= now'
        BY <1>t, <1>a, <2>1, <3>1, <3>2
      <4> QED
        BY <1>c, <2>1, <4>1, <4>2
    <3>3. CASE cookie = [boot |-> boot, exp |-> Login!TokenExp(login.at),
                         until |-> login.got + CookieAge]
      <4>1. cookie.until = login.got + CookieAge
        BY <3>3
      <4>2. cookie' = cookie \/ (cookie' = Login!NoCookie /\ login.got + CookieAge <= now')
        BY <2>1, <4>1
      <4> QED
        BY <1>c, <1>e, <2>1, <3>3, <4>2
    <3> QED
      BY <3>1, <3>2, <3>3 DEF LoginInv
  <2>6. now' \in Nat
    BY <1>t, <2>1
  <2>7. cookie' = cookie \/ cookie' = Login!NoCookie
    BY <2>1
  <2> QED
    BY <2>1, <2>2, <2>3, <2>4, <2>5, <2>6, <2>7 DEF LoginInv, Login!NoCookie, Login!NoSession
<1>4. ASSUME Login!Restart
      PROVE  LoginInv'
  <2>1. UNCHANGED <<now, cookie, login, replies>> /\ boot' = boot + 1
    BY <1>4 DEF Login!Restart, Login!browserVars
  <2>2. /\ lifetime' \in Nat /\ enabled' \in BOOLEAN
        /\ ttl' = IF lifetime' > 0 THEN Login!Signed(lifetime' * SecondUnits) ELSE 0
    BY <1>4, <1>t DEF Login!Restart, Login!Configured
  <2>3. \A x \in replies' : x.boot \in 1 .. boot' /\ x.boot # boot'
    BY <1>t, <2>1 DEF LoginInv
  <2>4. ~Login!InSession' /\ (login # Login!NoSession => login.boot \in 1 .. boot')
    BY <1>t, <2>1 DEF LoginInv, Login!InSession, Login!NoSession
  <2>5. Login!Signed(lifetime * SecondUnits)' = Login!Signed(lifetime' * SecondUnits)
    BY DEF Login!Signed
  <2> QED
    BY <1>t, <2>1, <2>2, <2>3, <2>4, <2>5 DEF LoginInv, Login!NoCookie, Login!NoSession
<1>5. CASE UNCHANGED Login!vars
  <2>1. UNCHANGED <<now, boot, enabled, lifetime, ttl, cookie, replies, login>>
    BY <1>5 DEF Login!vars, Login!configVars, Login!browserVars
  <2> QED
    BY <2>1 DEF LoginInv, Login!NoCookie, Login!NoSession, Login!InSession, Login!Fits,
                Login!TokenExp, Login!Seconds, Login!MaxAge, Login!Signed, CookieAge
<1> QED
  BY <1>1, <1>2, <1>3, <1>4, <1>5 DEF Login!Next

\* The invariant says what the properties say.
LEMMA LoginInvSays ==
  ASSUME LoginInv
  PROVE  Login!ServedOnlyInSession /\ Login!SessionLasts
<1>t. now \in Nat /\ lifetime \in Nat /\ PersistentAge \in Nat \ {0} /\ enabled \in BOOLEAN
  BY SessionAssumption DEF LoginInv
<1>f. Login!Fits =>
        /\ Login!TokenExp(login.at) = IF lifetime > 0 THEN login.at + lifetime ELSE 0
        /\ CookieAge = IF lifetime > 0 THEN lifetime ELSE PersistentAge
  BY FittingLifetime
<1>s. Login!InSession =>
        /\ login.at \in Nat /\ login.got \in Nat /\ login.at <= login.got
        /\ \/ cookie = Login!NoCookie /\ (Login!Fits => login.got + CookieAge <= now)
           \/ /\ cookie # Login!NoCookie /\ cookie.boot = boot
              /\ cookie.exp = Login!TokenExp(login.at)
  <2>1. boot # 0
    BY DEF LoginInv
  <2> QED
    BY <2>1 DEF LoginInv, Login!InSession, Login!NoCookie
<1>1. ASSUME enabled, Login!Fits, Login!Response("page") = "served"
      PROVE  Login!InSession /\ (lifetime > 0 => now <= login.at + lifetime)
  <2>1. /\ cookie # Login!NoCookie /\ cookie.boot = boot
        /\ ~(cookie.exp > 0 /\ now > cookie.exp)
    BY <1>1 DEF Login!Response, Login!Authorize, Login!SessionValid
  <2>2. Login!InSession
    BY <2>1 DEF LoginInv, Login!InSession
  <2>3. cookie.exp = Login!TokenExp(login.at) /\ login.at \in Nat
    BY <1>s, <2>1, <2>2
  <2> QED
    BY <1>t, <1>f, <1>1, <2>1, <2>2, <2>3
<1>2. ASSUME Login!InSession, Login!Fits, lifetime > 0 => now < login.at + lifetime,
             now < login.got + PersistentAge
      PROVE  Login!SessionValid(cookie)
  <2>1. ~(login.got + CookieAge <= now)
    BY <1>t, <1>f, <1>s, <1>2
  <2>2. cookie # Login!NoCookie /\ cookie.boot = boot /\ cookie.exp = Login!TokenExp(login.at)
    BY <1>s, <1>2, <2>1
  <2>3. ~(cookie.exp > 0 /\ now > cookie.exp)
    BY <1>t, <1>f, <1>s, <1>2, <2>2
  <2> QED
    BY <2>2, <2>3 DEF Login!SessionValid
<1>3. Login!ServedOnlyInSession
  BY <1>1 DEF Login!ServedOnlyInSession
<1>4. Login!SessionLasts
  BY <1>2 DEF Login!SessionLasts, Login!Response, Login!Authorize
<1> QED
  BY <1>3, <1>4

\* A page or an answer of the API goes only to a browser in a session of this
\* process that is not over, and goes to it until then, in whatever order the
\* answers to logins and logouts arrive and however often the process restarts.
THEOREM SessionsAreKept == Login!Spec => [](Login!ServedOnlyInSession /\ Login!SessionLasts)
<1>1. LoginInv => Login!ServedOnlyInSession /\ Login!SessionLasts
  BY LoginInvSays
<1> QED
  BY <1>1, InitLoginInv, NextLoginInv, PTL DEF Login!Spec

\* The invariant holds in the behaviours that the run checks.
LEMMA LoginInParts == PartsSpec => [](part = "login" => LoginInv)
<1> DEFINE Inv == part = "login" => LoginInv
<1>1. PartsInit => Inv
  BY InitLoginInv DEF PartsInit
<1>2. Inv /\ [PartsNext]_partsVars => Inv'
  <2> SUFFICES ASSUME part = "login" => LoginInv, [PartsNext]_partsVars, part' = "login"
               PROVE  LoginInv'
    OBVIOUS
  <2>1. LoginInv /\ [Login!Next]_(Login!vars)
    BY DEF PartsNext, partsVars, loginVars, Login!vars, Login!configVars, Login!browserVars
  <2> QED
    BY <2>1, NextLoginInv
<1> QED
  BY <1>1, <1>2, PTL DEF PartsSpec

\* Only browsers in a session are served, in the behaviours that the run checks.
THEOREM OnlySessionsInParts == PartsSpec => []OnlySessionsAreServed
<1>1. (part = "login" => LoginInv) => OnlySessionsAreServed
  BY LoginInvSays DEF OnlySessionsAreServed
<1> QED
  BY <1>1, LoginInParts, PTL

\* Sessions last as configured, in the behaviours that the run checks.
THEOREM SessionsLastInParts == PartsSpec => []SessionsLast
<1>1. (part = "login" => LoginInv) => SessionsLast
  BY LoginInvSays DEF SessionsLast
<1> QED
  BY <1>1, LoginInParts, PTL

-----------------------------------------------------------------------------
(* The frames of a log (LogFrames)                                          *)

\* The length of each frame, and what a log is.
FrameLens == [i \in 1 .. Len(frames) |-> Frames!FrameLen(i)]

\* The log is a sequence of frames.
IsLog == frames \in Seq([out : Frames!Outputs, content : Contents])

\* The lengths of frames are natural numbers.
LEMMA FrameLensTyped == IsLog => FrameLens \in [1 .. Len(frames) -> Nat]
<1> SUFFICES ASSUME IsLog, NEW i \in 1 .. Len(frames)
             PROVE  Frames!FrameLen(i) \in Nat
  BY DEF FrameLens
<1>1. frames[i] \in [out : Frames!Outputs, content : Contents]
  BY ElementOfSeq DEF IsLog
<1>2. frames[i].content \in Seq({"text", "newline"})
  BY <1>1, FramesAssumption
<1>3. Len(frames[i].content) \in Nat
  BY <1>2, LenProperties
<1> QED
  BY <1>3 DEF Frames!FrameLen, Frames!HeaderLen

\* Where a frame begins is the sum of the lengths of those before it.
LEMMA StartIsSum ==
  ASSUME IsLog, NEW i \in 1 .. Len(frames) + 1
  PROVE  Frames!FrameStart(i) = SumOf(FrameLens, 1 .. i - 1)
<1> DEFINE K == 1 .. i - 1
<1>n. Len(frames) \in Nat
  BY LenProperties DEF IsLog
<1>1. K \in SUBSET (1 .. Len(frames)) /\ IsFiniteSet(K)
  <2>1. i - 1 \in Int /\ 1 \in Int /\ K \in SUBSET (1 .. Len(frames))
    BY <1>n
  <2>2. IsFiniteSet(K)
    BY <2>1, FS_Interval
  <2> QED
    BY <2>1, <2>2
<1>2. \A s \in SUBSET K : s # {} => FrameLens[Elem(s)] = Frames!FrameLen(Elem(s))
  BY <1>1, ElemIn DEF FrameLens
<1> HIDE DEF K
<1>3. PICK a : IsSums(a, FrameLens, K)
  BY <1>1, SumsExist
<1>4. a = [s \in SUBSET K |->
             IF s = {} THEN 0 ELSE Frames!FrameLen(Elem(s)) + a[s \ {Elem(s)}]]
  BY <1>2, <1>3 DEF IsSums
<1>5. \E b : /\ b = [s \in SUBSET K |->
                       IF s = {} THEN 0 ELSE Frames!FrameLen(Elem(s)) + b[s \ {Elem(s)}]]
             /\ Frames!FrameStart(i) = b[K]
  BY <1>4 DEF K, Elem, Frames!FrameStart, Frames!MapThenSumSet, Frames!MapThenFoldSet
<1>6. PICK b : IsSums(b, FrameLens, K) /\ Frames!FrameStart(i) = b[K]
  BY <1>2, <1>5 DEF IsSums
<1>7. SumOf(FrameLens, K) = b[K]
  BY <1>1, <1>6, SumOfIsSum
<1> QED
  BY <1>6, <1>7 DEF K

\* Each frame begins where the one before it ends.
LEMMA FrameStarts ==
  ASSUME IsLog
  PROVE  /\ Frames!FrameStart(1) = 0
         /\ \A i \in 1 .. Len(frames) :
                /\ Frames!FrameStart(i) \in Nat /\ Frames!FrameLen(i) \in Nat
                /\ Frames!FrameStart(i + 1) = Frames!FrameStart(i) + Frames!FrameLen(i)
<1>n. Len(frames) \in Nat
  BY LenProperties DEF IsLog
<1>1. Frames!FrameStart(1) = 0
  <2>1. 1 .. 1 - 1 = {} /\ 1 \in 1 .. Len(frames) + 1
    BY <1>n
  <2> QED
    BY <2>1, StartIsSum, SumEmpty
<1>2. ASSUME NEW i \in 1 .. Len(frames)
      PROVE  /\ Frames!FrameStart(i) \in Nat /\ Frames!FrameLen(i) \in Nat
             /\ Frames!FrameStart(i + 1) = Frames!FrameStart(i) + Frames!FrameLen(i)
  <2>1. /\ i \in 1 .. Len(frames) + 1 /\ i + 1 \in 1 .. Len(frames) + 1
        /\ i + 1 - 1 = i /\ i - 1 \in 0 .. Len(frames)
    BY <1>n
  <2>2. /\ SumOf(FrameLens, 1 .. i) = SumOf(FrameLens, 1 .. i - 1) + FrameLens[i]
        /\ SumOf(FrameLens, 1 .. i - 1) \in Nat
    BY <1>n, <2>1, FrameLensTyped, SumInterval
  <2>3. FrameLens[i] = Frames!FrameLen(i) /\ FrameLens[i] \in Nat
    BY FrameLensTyped DEF FrameLens
  <2>4. Frames!FrameStart(i) = SumOf(FrameLens, 1 .. i - 1)
    BY <2>1, StartIsSum
  <2>5. Frames!FrameStart(i + 1) = SumOf(FrameLens, 1 .. i + 1 - 1)
    BY <2>1, StartIsSum
  <2> QED
    BY <2>1, <2>2, <2>3, <2>4, <2>5
<1> QED
  BY <1>1, <1>2


\* The inductive invariant: what has been read when a header, a content, the rest
\* of a content or the lines come next.
FramesInv ==
    /\ IsLog
    /\ pc = "open" => pos = 0
    /\ pc = "header" => \E i \in 1 .. Len(frames) + 1 : pos = Frames!FrameStart(i)
    /\ pc \in {"content", "discard", "lines"} => frame \in 1 .. Len(frames)
    /\ pc = "content" => pos = Frames!FrameStart(frame) + Frames!HeaderLen
    /\ pc = "discard" => pos = Frames!FrameStart(frame) + Frames!HeaderLen + Frames!ReadLen
    /\ pc = "lines" => pos = Frames!FrameStart(frame + 1)

\* It holds at first.
LEMMA InitFramesInv == Frames!Init => FramesInv
<1> SUFFICES ASSUME Frames!Init PROVE FramesInv
  OBVIOUS
<1>1. PICK n \in 0 .. MaxFrames : frames \in [1 .. n -> [out : Frames!Outputs, content : Contents]]
  BY DEF Frames!Init
<1>3. IsLog
  <2>1. n \in Nat
    OBVIOUS
  <2> QED
    BY <1>1, <2>1, SeqDef, ZenonT(30) DEF IsLog
<1> QED
  BY <1>3 DEF Frames!Init, FramesInv

\* What is kept of a content is no more than the content.
LEMMA ReadLenTyped ==
  ASSUME IsLog, frame \in 1 .. Len(frames)
  PROVE  /\ Len(frames[frame].content) \in Nat
         /\ Frames!ReadLen \in Nat
         /\ Frames!ReadLen <= Len(frames[frame].content)
<1> DEFINE n == Len(frames[frame].content)
<1>1. n \in Nat
  <2>1. frames[frame] \in [out : Frames!Outputs, content : Contents]
    BY ElementOfSeq DEF IsLog
  <2>2. frames[frame].content \in Seq({"text", "newline"})
    BY <2>1, FramesAssumption
  <2> QED
    BY <2>2, LenProperties
<1>2. PICK m \in {n, MaxFrameSize} : \A y \in {n, MaxFrameSize} : m <= y
  BY <1>1, FramesAssumption
<1>3. Frames!ReadLen \in {n, MaxFrameSize} /\ \A y \in {n, MaxFrameSize} : Frames!ReadLen <= y
  <2> HIDE DEF n
  <2>1. Frames!ReadLen = Frames!Min({n, MaxFrameSize})
    BY DEF n, Frames!ReadLen
  <2> QED
    BY <1>2, <2>1 DEF Frames!Min
<1> QED
  BY <1>1, <1>3, FramesAssumption

\* Frames stay where they are as long as the log is the same.
LEMMA SameStarts ==
  ASSUME UNCHANGED frames, NEW CONSTANT i
  PROVE  Frames!FrameStart(i)' = Frames!FrameStart(i)
BY DEF Frames!FrameStart, Frames!FrameLen, Frames!HeaderLen, Frames!MapThenSumSet, Frames!MapThenFoldSet

\* No step changes the log or the wanted output.
LEMMA LogStays ==
  ASSUME [Frames!Next]_(Frames!vars)
  PROVE  UNCHANGED <<frames, wanted>>
BY DEF Frames!Next, Frames!vars, Frames!sourceVars, Frames!Open, Frames!ReadHeader,
   Frames!ReadContent, Frames!Discard, Frames!TakeLine, Frames!FrameDone,
   Frames!DeadlinePasses, Frames!Answer

\* Each step keeps it.
LEMMA NextFramesInv == FramesInv /\ [Frames!Next]_(Frames!vars) => FramesInv'
<1> SUFFICES ASSUME FramesInv, [Frames!Next]_(Frames!vars)
             PROVE  FramesInv'
  OBVIOUS
<1>a. IsLog /\ Len(frames) \in Nat /\ frames' = frames
  BY LogStays, LenProperties DEF FramesInv, IsLog
<1>b. /\ Frames!FrameStart(1) = 0 /\ Frames!HeaderLen = 2
      /\ \A i \in 1 .. Len(frames) :
             /\ Frames!FrameStart(i) \in Nat
             /\ Frames!FrameStart(i + 1) = Frames!FrameStart(i) + (2 + Len(frames[i].content))
  <2>1. \A i : Frames!FrameLen(i) = 2 + Len(frames[i].content)
    BY DEF Frames!FrameLen, Frames!HeaderLen
  <2> QED
    BY <1>a, <2>1, FrameStarts DEF Frames!HeaderLen
<1>c. \A i : Frames!FrameStart(i)' = Frames!FrameStart(i')
  <2>1. ASSUME NEW CONSTANT i PROVE Frames!FrameStart(i)' = Frames!FrameStart(i)
    BY <1>a, SameStarts
  <2> QED
    BY <2>1
<1>d. frame \in 1 .. Len(frames) =>
        /\ Len(frames[frame].content) \in Nat
        /\ Frames!ReadLen \in Nat /\ Frames!ReadLen <= Len(frames[frame].content)
  BY <1>a, ReadLenTyped
<1>e. IsLog' /\ Len(frames') = Len(frames)
  BY <1>a DEF IsLog, Frames!Outputs
<1>1. CASE Frames!Open
  <2>1. pos' = pos /\ pc' \in {"header", "notFound", "failed"} /\ pos = 0
    BY <1>1 DEF Frames!Open, Frames!Go, FramesInv
  <2>2. pos' = Frames!FrameStart(1)' /\ 1 \in 1 .. Len(frames') + 1
    BY <1>a, <1>b, <1>c, <2>1
  <2> QED
    BY <1>e, <2>1, <2>2 DEF FramesInv
<1>2. CASE Frames!ReadHeader
  <2>1. CASE Frames!CanRead(Frames!HeaderLen)
    <3>1. PICK i \in DOMAIN frames :
             /\ Frames!FrameStart(i) = pos /\ frame' = i
             /\ pos' = pos + Frames!HeaderLen /\ pc' = "content"
      BY <1>2, <2>1 DEF Frames!ReadHeader, Frames!Go
    <3>2. i \in 1 .. Len(frames)
      BY <1>a, LenProperties DEF IsLog
    <3> QED
      BY <1>a, <1>b, <1>c, <1>e, <3>1, <3>2 DEF FramesInv, Frames!HeaderLen
  <2>2. CASE ~Frames!CanRead(Frames!HeaderLen)
    <3>1. pc' \in {"stopped", "failed"}
      BY <1>2, <2>2 DEF Frames!ReadHeader, Frames!Go
    <3> QED
      BY <1>e, <3>1 DEF FramesInv
  <2> QED
    BY <2>1, <2>2
<1>3. CASE Frames!ReadContent
  <2>1. CASE Frames!CanRead(Frames!ReadLen)
    <3>1. /\ frame' = frame /\ pos' = pos + Frames!ReadLen
          /\ pc' = IF Len(frames[frame].content) > Frames!ReadLen THEN "discard" ELSE "lines"
          /\ frame \in 1 .. Len(frames) /\ pos = Frames!FrameStart(frame) + 2
      BY <1>3, <1>b, <2>1 DEF Frames!ReadContent, Frames!Go, FramesInv
    <3>2. Frames!ReadLen' = Frames!ReadLen
      BY <1>a, <3>1 DEF Frames!ReadLen
    <3>3. Frames!FrameStart(frame)' = Frames!FrameStart(frame)
      BY <1>c, <3>1
    <3>4. Frames!FrameStart(frame + 1)' = Frames!FrameStart(frame + 1)
      BY <1>c, <3>1
    <3>5. PICK f \in 1 .. Len(frames) : f = frame
      BY <3>1
    <3>6. CASE pc' = "discard"
      BY <1>a, <1>b, <1>d, <1>e, <3>1, <3>2, <3>3, <3>6 DEF FramesInv, Frames!HeaderLen
    <3>7. CASE pc' = "lines"
      <4>1. Frames!ReadLen = Len(frames[frame].content)
        BY <1>d, <3>1, <3>7
      <4>a. /\ pos = Frames!FrameStart(f) + 2 /\ Frames!FrameStart(f) \in Nat
            /\ pos' = pos + Frames!ReadLen
            /\ Frames!ReadLen \in Nat /\ Len(frames[f].content) = Frames!ReadLen
            /\ Frames!FrameStart(f + 1) = Frames!FrameStart(f) + (2 + Len(frames[f].content))
        BY <1>b, <1>d, <3>1, <3>5, <4>1
      <4>b. pos' = Frames!FrameStart(f + 1)
        BY <4>a
      <4>2. pos' = Frames!FrameStart(frame + 1)
        BY <3>5, <4>b
      <4> QED
        BY <1>a, <1>e, <3>1, <3>4, <3>7, <4>2 DEF FramesInv
    <3> QED
      BY <3>1, <3>6, <3>7
  <2>2. CASE ~Frames!CanRead(Frames!ReadLen)
    <3>1. pc' = "failed"
      BY <1>3, <2>2 DEF Frames!ReadContent, Frames!Go
    <3> QED
      BY <1>e, <3>1 DEF FramesInv
  <2> QED
    BY <2>1, <2>2
<1>4. CASE Frames!Discard
  <2> DEFINE rest == Len(frames[frame].content) - Frames!ReadLen
  <2>1. CASE Frames!CanRead(rest)
    <3>1. /\ frame' = frame /\ pos' = pos + rest /\ pc' = "lines"
          /\ frame \in 1 .. Len(frames) /\ pos = Frames!FrameStart(frame) + 2 + Frames!ReadLen
      BY <1>4, <1>b, <2>1 DEF Frames!Discard, Frames!Go, FramesInv
    <3>2. Frames!FrameStart(frame + 1)' = Frames!FrameStart(frame + 1)
      BY <1>c, <3>1
    <3>3. PICK f \in 1 .. Len(frames) : f = frame
      BY <3>1
    <3>4. pos' = Frames!FrameStart(frame + 1)
      BY <1>b, <1>d, <3>1, <3>3, SMTT(30)
    <3> QED
      BY <1>a, <1>e, <3>1, <3>2, <3>4 DEF FramesInv
  <2>2. CASE ~Frames!CanRead(rest)
    <3>1. pc' = "failed"
      BY <1>4, <2>2 DEF Frames!Discard, Frames!Go
    <3> QED
      BY <1>e, <3>1 DEF FramesInv
  <2> QED
    BY <2>1, <2>2
<1>5. CASE Frames!TakeLine
  <2>1. pc = "lines" /\ pc' \in {"lines", "stopped"} /\ UNCHANGED <<pos, frame>>
    BY <1>5 DEF Frames!TakeLine, Frames!Go
  <2>2. Frames!FrameStart(frame + 1)' = Frames!FrameStart(frame + 1)
    BY <1>c, <2>1
  <2> QED
    BY <1>a, <1>e, <2>1, <2>2 DEF FramesInv
<1>6. CASE Frames!FrameDone
  <2>1. pc = "lines" /\ pc' = "header" /\ UNCHANGED <<pos, frame>>
    BY <1>6 DEF Frames!FrameDone, Frames!Go
  <2>2. PICK i \in 1 .. Len(frames) + 1 : i = frame + 1
    BY <1>a, <2>1 DEF FramesInv
  <2>3. pos' = Frames!FrameStart(i)'
    BY <1>c, <2>1, <2>2 DEF FramesInv
  <2> QED
    BY <1>e, <2>1, <2>3 DEF FramesInv
<1>7. CASE Frames!DeadlinePasses \/ UNCHANGED Frames!vars
  <2>1. UNCHANGED <<frames, pc, pos, frame>>
    BY <1>7 DEF Frames!DeadlinePasses, Frames!vars, Frames!sourceVars
  <2>2. /\ Frames!FrameStart(frame)' = Frames!FrameStart(frame)
        /\ Frames!FrameStart(frame + 1)' = Frames!FrameStart(frame + 1)
    BY <1>c, <2>1
  <2>3. Frames!ReadLen' = Frames!ReadLen
    BY <2>1 DEF Frames!ReadLen
  <2> QED
    BY <1>c, <1>e, <2>1, <2>2, <2>3 DEF FramesInv, Frames!HeaderLen
<1>8. CASE Frames!Answer
  <2>1. pc' = "answered"
    BY <1>8 DEF Frames!Answer, Frames!Go
  <2> QED
    BY <1>e, <2>1 DEF FramesInv
<1> QED
  BY <1>1, <1>2, <1>3, <1>4, <1>5, <1>6, <1>7, <1>8 DEF Frames!Next

\* Every header is read where a frame begins, whatever the sizes of the frames
\* before it, of which no more than maxFrameSize bytes are kept.
THEOREM HeadersFound == Frames!Spec => [](Frames!HeadersAreFound)
<1>1. FramesInv => Frames!HeadersAreFound
  BY DEF FramesInv, Frames!HeadersAreFound
<1> QED
  BY <1>1, InitFramesInv, NextFramesInv, PTL DEF Frames!Spec

\* The invariant holds in the behaviours that the run checks.
LEMMA FramesInParts == PartsSpec => [](part = "frames" => FramesInv)
<1> DEFINE Inv == part = "frames" => FramesInv
<1>1. PartsInit => Inv
  BY InitFramesInv DEF PartsInit
<1>2. Inv /\ [PartsNext]_partsVars => Inv'
  <2> SUFFICES ASSUME part = "frames" => FramesInv, [PartsNext]_partsVars, part' = "frames"
               PROVE  FramesInv'
    OBVIOUS
  <2>1. FramesInv /\ [Frames!Next]_(Frames!vars)
    BY DEF PartsNext, partsVars, framesVars, Frames!vars, Frames!sourceVars, Frames!resultVars
  <2> QED
    BY <2>1, NextFramesInv
<1> QED
  BY <1>1, <1>2, PTL DEF PartsSpec

\* Headers are found, in the behaviours that the run checks.
THEOREM HeadersFoundInParts == PartsSpec => []HeadersAreFound
<1>1. (part = "frames" => FramesInv) => HeadersAreFound
  BY DEF FramesInv, HeadersAreFound, Frames!HeadersAreFound
<1> QED
  BY <1>1, FramesInParts, PTL

-----------------------------------------------------------------------------
(* What is answered of a log (LogFrames)                                    *)

\* The lines of a content have lengths, one after the other.
LEMMA LengthsOfLines ==
  ASSUME NEW content, Len(content) \in Nat
  PROVE  Frames!LineLengths(content) \in Seq(Nat)
<1> DEFINE Rec(g, i) == IF i = 0 THEN [ended |-> <<>>, open |-> 0]
                        ELSE IF content[i] = "newline"
                        THEN [ended |-> Append(g[i - 1].ended, g[i - 1].open), open |-> 0]
                        ELSE [ended |-> g[i - 1].ended, open |-> g[i - 1].open + 1]
           Good == {n \in Nat : \E g : g = [i \in 0 .. n |-> Rec(g, i)]}
<1>1. 0 \in Good
  <2> DEFINE g == [i \in 0 .. 0 |-> [ended |-> <<>>, open |-> 0]]
  <2>1. g = [i \in 0 .. 0 |-> Rec(g, i)]
    OBVIOUS
  <2> HIDE DEF g, Rec
  <2> QED
    BY <2>1
<1>2. ASSUME NEW n \in Nat, n \in Good
      PROVE  n + 1 \in Good
  <2>1. PICK g : g = [i \in 0 .. n |-> Rec(g, i)]
    BY <1>2
  <2> DEFINE h == [i \in 0 .. n + 1 |-> Rec(g, i)]
  <2>2. \A i \in 0 .. n : h[i] = g[i]
    <3>1. \A i \in 0 .. n : i \in 0 .. n + 1
      OBVIOUS
    <3> HIDE DEF Rec
    <3> QED
      BY <2>1, <3>1
  <2>3. \A i \in 0 .. n + 1 : Rec(g, i) = Rec(h, i)
    <3>1. \A i \in 0 .. n + 1 : i # 0 => i - 1 \in 0 .. n
      OBVIOUS
    <3> HIDE DEF h
    <3> QED
      BY <2>2, <3>1
  <2>4. h = [i \in 0 .. n + 1 |-> Rec(h, i)]
    <3> HIDE DEF Rec
    <3> QED
      BY <2>3
  <2> HIDE DEF h, Rec
  <2> QED
    BY <2>4
<1>3. Len(content) \in Good
  <2> HIDE DEF Good
  <2> QED
    BY <1>1, <1>2, SetInduction
<1>4. PICK g : g = [i \in 0 .. Len(content) |-> Rec(g, i)]
  BY <1>3
<1> DEFINE f == CHOOSE f : f = [i \in 0 .. Len(content) |-> Rec(f, i)]
<1>5. f = [i \in 0 .. Len(content) |-> Rec(f, i)]
  <2> HIDE DEF Rec
  <2> QED
    BY <1>4
<1>6. Frames!LineLengths(content) =
          IF f[Len(content)].open = 0 THEN f[Len(content)].ended
          ELSE Append(f[Len(content)].ended, f[Len(content)].open)
  BY DEF Frames!LineLengths
<1> HIDE DEF f, Good
<1> DEFINE T == {n \in Nat : n <= Len(content) => f[n].ended \in Seq(Nat) /\ f[n].open \in Nat}
<1>7. 0 \in T
  <2>1. f[0] = [ended |-> <<>>, open |-> 0]
    BY <1>5
  <2>2. f[0].ended \in Seq(Nat) /\ f[0].open \in Nat
    BY <2>1, EmptySeq
  <2> QED
    BY <2>2
<1>8. ASSUME NEW n \in Nat, n \in T
      PROVE  n + 1 \in T
  <2> SUFFICES ASSUME n + 1 <= Len(content)
               PROVE  f[n + 1].ended \in Seq(Nat) /\ f[n + 1].open \in Nat
    OBVIOUS
  <2>1. n + 1 \in 0 .. Len(content) /\ n + 1 # 0 /\ n + 1 - 1 = n
    OBVIOUS
  <2>2. PICK e \in Seq(Nat), o \in Nat : e = f[n].ended /\ o = f[n].open
    BY <1>8
  <2>3. f[n + 1] = IF content[n + 1] = "newline" THEN [ended |-> Append(e, o), open |-> 0]
                   ELSE [ended |-> e, open |-> o + 1]
    <3>1. f[n + 1] = Rec(f, n + 1)
      <4> HIDE DEF Rec
      <4> QED
        BY <1>5, <2>1
    <3>2. Rec(f, n + 1) = IF content[n + 1] = "newline"
                          THEN [ended |-> Append(f[n].ended, f[n].open), open |-> 0]
                          ELSE [ended |-> f[n].ended, open |-> f[n].open + 1]
      BY <2>1
    <3> HIDE DEF Rec
    <3> QED
      BY <2>2, <3>1, <3>2
  <2>4. Append(e, o) \in Seq(Nat) /\ o + 1 \in Nat
    BY AppendProperties
  <2> QED
    BY <2>3, <2>4
<1>9. Nat \subseteq T
  <2> HIDE DEF T
  <2> QED
    BY <1>7, <1>8, SetInduction
<1>10. f[Len(content)].ended \in Seq(Nat) /\ f[Len(content)].open \in Nat
  BY <1>9
<1>11. Append(f[Len(content)].ended, f[Len(content)].open) \in Seq(Nat)
  BY <1>10, AppendProperties
<1> QED
  BY <1>6, <1>10, <1>11

\* A line of a frame, the lines of the wanted output in a frame, and those in
\* the first n frames.
FrameLine == [frame : Nat, part : Nat, len : Nat]

Wanted(i) == IF Frames!IsWanted(frames[i].out) THEN Frames!LinesOf(i) ELSE <<>>

FlatTo(n) == Frames!FlattenSeq([i \in 1 .. n |-> Wanted(i)])

\* The lines of a frame, wanted or not, are lines.
LEMMA LinesOfTyped ==
  ASSUME IsLog, NEW i \in 1 .. Len(frames)
  PROVE  /\ Frames!LinesOf(i) \in Seq(FrameLine)
         /\ Wanted(i) \in Seq(FrameLine)
<1>1. frames[i] \in [out : Frames!Outputs, content : Contents]
  BY ElementOfSeq DEF IsLog
<1>2. PICK content \in Seq({"text", "newline"}) : content = frames[i].content
  BY <1>1, FramesAssumption
<1>3. PICK n \in Nat : n = Len(content)
  BY LenProperties
<1>4. PICK m \in {n, MaxFrameSize} : \A y \in {n, MaxFrameSize} : m <= y
  BY FramesAssumption
<1>5. Frames!Min({n, MaxFrameSize}) \in {n, MaxFrameSize}
  BY <1>4 DEF Frames!Min
<1>6. PICK k \in Nat : k = Frames!Min({n, MaxFrameSize})
  BY <1>5, FramesAssumption
<1>7. Len(Frames!Kept(content)) \in Nat
  <2>1. Frames!Kept(content) = SubSeq(content, 1, k)
    BY <1>3, <1>6 DEF Frames!Kept
  <2>2. Len(SubSeq(content, 1, k)) = IF 1 <= k THEN k - 1 + 1 ELSE 0
    OBVIOUS
  <2> QED
    BY <2>1, <2>2
<1>8. PICK lengths \in Seq(Nat) : lengths = Frames!LineLengths(Frames!Kept(content))
  BY <1>7, LengthsOfLines
<1>9. Frames!LinesOf(i) = [j \in DOMAIN lengths |-> [frame |-> i, part |-> j, len |-> lengths[j]]]
  BY <1>2, <1>8 DEF Frames!LinesOf
<1>10. DOMAIN lengths = 1 .. Len(lengths) /\ Len(lengths) \in Nat /\ i \in Nat
  BY LenProperties DEF IsLog
<1>11. \A j \in DOMAIN lengths : [frame |-> i, part |-> j, len |-> lengths[j]] \in FrameLine
  <2>1. \A j \in DOMAIN lengths : lengths[j] \in Nat /\ j \in Nat
    BY <1>10, ElementOfSeq
  <2> QED
    BY <1>10, <2>1 DEF FrameLine
<1>12. Frames!LinesOf(i) \in [1 .. Len(lengths) -> FrameLine]
  BY <1>9, <1>10, <1>11
<1>13. Frames!LinesOf(i) \in Seq(FrameLine)
  BY <1>10, <1>12, SeqDef, SMTT(30)
<1> QED
  BY <1>13, EmptySeq DEF Wanted

\* The lines of one more frame follow those of the frames before it.
LEMMA FlatSteps ==
  ASSUME IsLog
  PROVE  /\ FlatTo(0) = <<>>
         /\ \A n \in 1 .. Len(frames) : FlatTo(n) = FlatTo(n - 1) \o Wanted(n)
         /\ \A n \in 0 .. Len(frames) : FlatTo(n) \in Seq(FrameLine)
<1>n. PICK N \in Nat : N = Len(frames)
  BY LenProperties DEF IsLog
<1>w. \A i \in 1 .. N : Wanted(i) \in Seq(FrameLine)
  BY <1>n, LinesOfTyped
<1> DEFINE Rec(g, i) == IF i = 0 THEN <<>> ELSE g[i - 1] \o Wanted(i)
           Good == {n \in Nat : \E g : g = [i \in 0 .. n |-> Rec(g, i)]}
<1>1. 0 \in Good
  <2> DEFINE g == [i \in 0 .. 0 |-> <<>>]
  <2>1. g = [i \in 0 .. 0 |-> Rec(g, i)]
    OBVIOUS
  <2> HIDE DEF g, Rec
  <2> QED
    BY <2>1
<1>2. ASSUME NEW n \in Nat, n \in Good
      PROVE  n + 1 \in Good
  <2>1. PICK g : g = [i \in 0 .. n |-> Rec(g, i)]
    BY <1>2
  <2> DEFINE h == [i \in 0 .. n + 1 |-> Rec(g, i)]
  <2>2. \A i \in 0 .. n : h[i] = g[i]
    <3>1. \A i \in 0 .. n : i \in 0 .. n + 1
      OBVIOUS
    <3> HIDE DEF Rec
    <3> QED
      BY <2>1, <3>1
  <2>3. \A i \in 0 .. n + 1 : Rec(g, i) = Rec(h, i)
    <3>1. \A i \in 0 .. n + 1 : i # 0 => i - 1 \in 0 .. n
      OBVIOUS
    <3> HIDE DEF h
    <3> QED
      BY <2>2, <3>1
  <2>4. h = [i \in 0 .. n + 1 |-> Rec(h, i)]
    <3> HIDE DEF Rec
    <3> QED
      BY <2>3
  <2> HIDE DEF h, Rec
  <2> QED
    BY <2>4
<1>3. N \in Good
  <2> HIDE DEF Good
  <2> QED
    BY <1>1, <1>2, SetInduction
<1>4. PICK all : all = [i \in 0 .. N |-> Rec(all, i)]
  BY <1>3
<1>5. /\ all[0] = <<>>
      /\ \A i \in 1 .. N : all[i] = all[i - 1] \o Wanted(i)
  <2>1. \A i \in 1 .. N : i \in 0 .. N /\ i # 0
    OBVIOUS
  <2>2. 0 \in 0 .. N
    OBVIOUS
  <2> QED
    BY <1>4, <2>1, <2>2
<1> HIDE DEF Rec, Good
<1>6. \A i \in 0 .. N : all[i] \in Seq(FrameLine)
  <2> DEFINE T == {n \in Nat : n <= N => all[n] \in Seq(FrameLine)}
  <2>1. 0 \in T
    BY <1>5, EmptySeq
  <2>2. ASSUME NEW n \in Nat, n \in T
        PROVE  n + 1 \in T
    <3> SUFFICES ASSUME n + 1 <= N
                 PROVE  all[n + 1] \in Seq(FrameLine)
      OBVIOUS
    <3>1. PICK m \in 1 .. N : m = n + 1
      OBVIOUS
    <3>2. m - 1 = n /\ all[n] \in Seq(FrameLine)
      BY <2>2, <3>1
    <3>3. all[m] = all[m - 1] \o Wanted(m) /\ Wanted(m) \in Seq(FrameLine)
      BY <1>5, <1>w
    <3> QED
      BY <3>1, <3>2, <3>3, ConcatProperties
  <2>3. Nat \subseteq T
    <3> HIDE DEF T
    <3> QED
      BY <2>1, <2>2, SetInduction
  <2> QED
    BY <2>3
<1>7. FlatTo(0) = all[0]
  <2>1. [i \in 1 .. 0 |-> Wanted(i)] = <<>>
    OBVIOUS
  <2>2. Len(<<>>) = 0
    OBVIOUS
  <2> QED
    BY <1>5, <2>1, <2>2 DEF FlatTo, Frames!FlattenSeq
<1>8. ASSUME NEW n \in 1 .. N
      PROVE  FlatTo(n) = all[n]
  <2>1. PICK w : w = [i \in 1 .. n |-> Wanted(i)]
    OBVIOUS
  <2>2. Len(w) = n /\ n \in Nat \ {0}
    BY <2>1
  <2> DEFINE part1 == [i \in 1 .. n |-> all[i]]
  <2>3. part1 = [i \in 1 .. n |-> IF i = 1 THEN w[i] ELSE part1[i - 1] \o w[i]]
    <3>1. ASSUME NEW i \in 1 .. n
          PROVE  all[i] = IF i = 1 THEN w[i] ELSE part1[i - 1] \o w[i]
      <4>1. all[i] = all[i - 1] \o Wanted(i) /\ w[i] = Wanted(i)
        BY <1>5, <2>1
      <4>2. CASE i = 1
        <5>1. all[i - 1] = <<>>
          BY <1>5, <4>2
        <5>2. Wanted(i) \in Seq(FrameLine)
          BY <1>w
        <5>3. <<>> \o Wanted(i) = Wanted(i)
          BY <5>2, ConcatEmptySeq
        <5> QED
          BY <4>1, <4>2, <5>1, <5>3
      <4>3. CASE i # 1
        <5>1. i - 1 \in 1 .. n
          BY <4>3
        <5> QED
          BY <4>1, <4>3, <5>1
      <4> QED
        BY <4>2, <4>3
    <3> QED
      BY <3>1
  <2>4. \E f : /\ f = [i \in 1 .. n |-> IF i = 1 THEN w[i] ELSE f[i - 1] \o w[i]]
               /\ FlatTo(n) = f[n]
    <3>1. \E f : f = [i \in 1 .. n |-> IF i = 1 THEN w[i] ELSE f[i - 1] \o w[i]]
      <4> HIDE DEF part1
      <4> QED
        BY <2>3
    <3> QED
      BY <2>1, <2>2, <3>1 DEF FlatTo, Frames!FlattenSeq
  <2>5. PICK f : /\ f = [i \in 1 .. n |-> IF i = 1 THEN w[i] ELSE f[i - 1] \o w[i]]
                 /\ FlatTo(n) = f[n]
    BY <2>4
  <2> DEFINE T == {k \in Nat : k + 1 <= n => f[k + 1] = all[k + 1]}
  <2>6. 0 \in T
    <3>1. 1 \in 1 .. n /\ 0 + 1 = 1
      BY <2>2
    <3>2. f[1] = w[1] /\ part1[1] = w[1] /\ part1[1] = all[1]
      BY <2>3, <2>5, <3>1
    <3> QED
      BY <3>1, <3>2
  <2>7. ASSUME NEW k \in Nat, k \in T
        PROVE  k + 1 \in T
    <3> SUFFICES ASSUME k + 1 + 1 <= n
                 PROVE  f[k + 1 + 1] = all[k + 1 + 1]
      OBVIOUS
    <3>1. PICK m \in 1 .. n : m = k + 1 + 1
      BY <2>2
    <3>2. m # 1 /\ m - 1 = k + 1 /\ m \in 1 .. N /\ f[m - 1] = all[m - 1]
      BY <2>2, <2>7, <3>1
    <3>3. f[m] = f[m - 1] \o w[m]
      BY <2>5, <3>2
    <3>4. all[m] = all[m - 1] \o Wanted(m) /\ w[m] = Wanted(m)
      BY <1>5, <2>1, <3>2
    <3> QED
      BY <3>1, <3>2, <3>3, <3>4
  <2>8. Nat \subseteq T
    <3> HIDE DEF T
    <3> QED
      BY <2>6, <2>7, SetInduction
  <2>9. n - 1 \in T /\ n - 1 + 1 = n
    BY <2>2, <2>8
  <2> QED
    BY <2>5, <2>9
<1>9. \A n \in 0 .. N : FlatTo(n) = all[n]
  BY <1>7, <1>8
<1>10. ASSUME NEW n \in 1 .. N
       PROVE  FlatTo(n) = FlatTo(n - 1) \o Wanted(n)
  <2>1. n \in 0 .. N /\ n - 1 \in 0 .. N
    OBVIOUS
  <2> QED
    BY <1>5, <1>9, <2>1
<1>11. FlatTo(0) = <<>>
  BY <1>5, <1>7
<1> QED
  BY <1>n, <1>6, <1>9, <1>10, <1>11

\* The lines of the first frames are a beginning of those of more frames.
LEMMA FlatGrows ==
  ASSUME IsLog, NEW i \in 0 .. Len(frames), NEW n \in i .. Len(frames)
  PROVE  \E rest \in Seq(FrameLine) : FlatTo(n) = FlatTo(i) \o rest
<1>n. PICK N \in Nat : N = Len(frames)
  BY LenProperties DEF IsLog
<1>a. FlatTo(i) \in Seq(FrameLine)
  BY FlatSteps
<1> DEFINE T == {k \in Nat : i + k <= N =>
                     \E rest \in Seq(FrameLine) : FlatTo(i + k) = FlatTo(i) \o rest}
<1>1. 0 \in T
  <2>1. i + 0 = i /\ <<>> \in Seq(FrameLine) /\ FlatTo(i) \o <<>> = FlatTo(i)
    BY <1>a, <1>n, ConcatEmptySeq
  <2> QED
    BY <2>1
<1>2. ASSUME NEW k \in Nat, k \in T
      PROVE  k + 1 \in T
  <2> SUFFICES ASSUME i + (k + 1) <= N
               PROVE  \E rest \in Seq(FrameLine) : FlatTo(i + (k + 1)) = FlatTo(i) \o rest
    OBVIOUS
  <2>1. PICK m \in 1 .. N : m = i + (k + 1)
    BY <1>n
  <2>2. m - 1 = i + k /\ i + k <= N
    BY <1>n, <2>1
  <2>3. PICK rest \in Seq(FrameLine) : FlatTo(m - 1) = FlatTo(i) \o rest
    BY <1>2, <2>2
  <2>4. FlatTo(m) = FlatTo(m - 1) \o Wanted(m)
    BY <1>n, FlatSteps
  <2>5. Wanted(m) \in Seq(FrameLine)
    BY <1>n, LinesOfTyped
  <2>6. (FlatTo(i) \o rest) \o Wanted(m) = FlatTo(i) \o (rest \o Wanted(m))
    BY <1>a, <2>5, ConcatAssociative
  <2>7. rest \o Wanted(m) \in Seq(FrameLine)
    BY <2>5, ConcatProperties
  <2> QED
    BY <2>1, <2>3, <2>4, <2>6, <2>7
<1>3. Nat \subseteq T
  <2> HIDE DEF T
  <2> QED
    BY <1>1, <1>2, SetInduction
<1>4. PICK k \in Nat : i + k = n /\ n <= N
  <2>1. n - i \in Nat /\ i + (n - i) = n /\ n <= N
    BY <1>n
  <2> QED
    BY <2>1
<1>5. k \in T
  BY <1>3
<1> QED
  BY <1>4, <1>5

\* Later frames begin later.
LEMMA StartsIncrease ==
  ASSUME IsLog, NEW i \in 1 .. Len(frames) + 1, NEW j \in 1 .. Len(frames) + 1
  PROVE  /\ Frames!FrameStart(i) \in Nat
         /\ i < j => Frames!FrameStart(i) < Frames!FrameStart(j)
<1>n. PICK N \in Nat : N = Len(frames)
  BY LenProperties DEF IsLog
<1>1. Frames!FrameStart(1) = 0
  BY FrameStarts
<1>2. ASSUME NEW k \in 1 .. N
      PROVE  /\ Frames!FrameStart(k) \in Nat /\ Frames!FrameStart(k + 1) \in Nat
             /\ Frames!FrameStart(k) < Frames!FrameStart(k + 1)
  <2>1. /\ Frames!FrameStart(k) \in Nat
        /\ Frames!FrameStart(k + 1) = Frames!FrameStart(k) + Frames!FrameLen(k)
    BY <1>n, FrameStarts
  <2>2. Len(frames[k].content) \in Nat
    <3>1. frames[k] \in [out : Frames!Outputs, content : Contents]
      BY <1>n, ElementOfSeq DEF IsLog
    <3>2. frames[k].content \in Seq({"text", "newline"})
      BY <3>1, FramesAssumption
    <3> QED
      BY <3>2, LenProperties
  <2>3. Frames!FrameLen(k) = 2 + Len(frames[k].content)
    BY DEF Frames!FrameLen, Frames!HeaderLen
  <2> QED
    BY <2>1, <2>2, <2>3, SMTT(30)
<1>3. \A k \in 1 .. N + 1 : Frames!FrameStart(k) \in Nat
  <2> SUFFICES ASSUME NEW k \in 1 .. N + 1
               PROVE  Frames!FrameStart(k) \in Nat
    OBVIOUS
  <2>1. CASE k = 1
    BY <1>1, <2>1
  <2>2. CASE k # 1
    <3>1. PICK p \in 1 .. N : k = p + 1
      BY <2>2
    <3> QED
      BY <1>2, <3>1
  <2> QED
    BY <2>1, <2>2
<1> DEFINE T == {k \in Nat : i + (k + 1) <= N + 1 =>
                     Frames!FrameStart(i) < Frames!FrameStart(i + (k + 1))}
<1>4. 0 \in T
  <2> SUFFICES ASSUME i + (0 + 1) <= N + 1
               PROVE  Frames!FrameStart(i) < Frames!FrameStart(i + (0 + 1))
    OBVIOUS
  <2>1. i \in 1 .. N /\ i + (0 + 1) = i + 1
    BY <1>n
  <2> QED
    BY <1>2, <2>1
<1>5. ASSUME NEW k \in Nat, k \in T
      PROVE  k + 1 \in T
  <2> SUFFICES ASSUME i + (k + 1 + 1) <= N + 1
               PROVE  Frames!FrameStart(i) < Frames!FrameStart(i + (k + 1 + 1))
    OBVIOUS
  <2>1. PICK m \in 1 .. N : m = i + (k + 1)
    BY <1>n
  <2>2. m + 1 = i + (k + 1 + 1) /\ i + (k + 1) <= N + 1 /\ i \in 1 .. N + 1
    BY <1>n, <2>1
  <2>3. Frames!FrameStart(i) < Frames!FrameStart(m)
    BY <1>5, <2>1, <2>2
  <2>4. /\ Frames!FrameStart(m) < Frames!FrameStart(m + 1) /\ Frames!FrameStart(m) \in Nat
        /\ Frames!FrameStart(m + 1) \in Nat /\ Frames!FrameStart(i) \in Nat
    BY <1>2, <1>3, <2>2
  <2> QED
    BY <2>2, <2>3, <2>4
<1>6. Nat \subseteq T
  <2> HIDE DEF T
  <2> QED
    BY <1>4, <1>5, SetInduction
<1>7. ASSUME i < j
      PROVE  Frames!FrameStart(i) < Frames!FrameStart(j)
  <2>1. j - i - 1 \in Nat /\ i + (j - i - 1 + 1) = j /\ j <= N + 1
    BY <1>n, <1>7
  <2>2. PICK k \in Nat : i + (k + 1) = j
    BY <2>1
  <2>3. k \in T
    BY <1>6
  <2> QED
    BY <2>1, <2>2, <2>3
<1> QED
  BY <1>3, <1>7, <1>n

\* The bytes of the lines, as ReadContainerLogs counts them.
LEMMA BytesOfLines ==
  /\ Frames!BytesOf(<<>>) = 0
  /\ \A ls \in Seq(FrameLine), l \in FrameLine :
        /\ Frames!BytesOf(ls) \in Nat
        /\ Frames!BytesOf(Append(ls, l)) = Frames!BytesOf(ls) + (l.len + 1)
<1> DEFINE Sizes(ls) == [i \in 1 .. Len(ls) |-> ls[i].len + 1]
<1>1. ASSUME NEW ls \in Seq(FrameLine)
      PROVE  /\ Sizes(ls) \in [1 .. Len(ls) -> Nat]
             /\ Len(ls) \in Nat
             /\ Frames!BytesOf(ls) = SumOf(Sizes(ls), 1 .. Len(ls))
  <2>1. PICK n \in Nat : n = Len(ls) /\ DOMAIN ls = 1 .. n
    BY LenProperties
  <2>e. \A i \in 1 .. n : ls[i] \in FrameLine
    BY <2>1, ElementOfSeq
  <2>2. \A i \in 1 .. n : ls[i].len \in Nat
    BY <2>e DEF FrameLine
  <2>3. Sizes(ls) \in [1 .. n -> Nat]
    BY <2>1, <2>2
  <2> DEFINE K == DOMAIN ls
  <2>4. IsFiniteSet(K)
    BY <2>1, FS_Interval
  <2>5. \A s \in SUBSET K : s # {} => Sizes(ls)[Elem(s)] = ls[Elem(s)].len + 1
    BY <2>1, ElemIn
  <2> HIDE DEF Sizes, K
  <2>6. PICK a : IsSums(a, Sizes(ls), K)
    BY <2>4, SumsExist
  <2>7. a = [s \in SUBSET K |-> IF s = {} THEN 0 ELSE ls[Elem(s)].len + 1 + a[s \ {Elem(s)}]]
    BY <2>5, <2>6 DEF IsSums
  <2>8. \E b : /\ b = [s \in SUBSET K |-> IF s = {} THEN 0 ELSE ls[Elem(s)].len + 1 + b[s \ {Elem(s)}]]
               /\ Frames!BytesOf(ls) = b[K]
    BY <2>7 DEF K, Elem, Frames!BytesOf, Frames!MapThenSumSet, Frames!MapThenFoldSet
  <2>9. PICK b : IsSums(b, Sizes(ls), K) /\ Frames!BytesOf(ls) = b[K]
    BY <2>5, <2>8 DEF IsSums
  <2>10. SumOf(Sizes(ls), K) = b[K]
    BY <2>4, <2>9, SumOfIsSum
  <2> QED
    BY <2>1, <2>3, <2>9, <2>10 DEF K
<1>2. Frames!BytesOf(<<>>) = 0
  <2>1. <<>> \in Seq(FrameLine) /\ 1 .. Len(<<>>) = {}
    BY EmptySeq
  <2> HIDE DEF Sizes
  <2> QED
    BY <1>1, <2>1, SumEmpty
<1>3. ASSUME NEW ls \in Seq(FrameLine), NEW l \in FrameLine
      PROVE  /\ Frames!BytesOf(ls) \in Nat
             /\ Frames!BytesOf(Append(ls, l)) = Frames!BytesOf(ls) + (l.len + 1)
  <2> DEFINE t == Append(ls, l)
  <2>1. /\ t \in Seq(FrameLine) /\ Len(t) = Len(ls) + 1 /\ Len(ls) \in Nat
        /\ \A i \in 1 .. Len(ls) : t[i] = ls[i]
        /\ t[Len(ls) + 1] = l
    BY AppendProperties, LenProperties
  <2> HIDE DEF t
  <2>2. PICK n \in Nat : n = Len(ls)
    BY <2>1
  <2>3. PICK f \in [1 .. n -> Nat] : f = Sizes(ls)
    BY <1>1, <2>2
  <2>m. PICK m \in Nat : m = n + 1 /\ m \in 1 .. m /\ m - 1 = n
    OBVIOUS
  <2>4. PICK g \in [1 .. m -> Nat] : g = Sizes(t)
    BY <1>1, <2>1, <2>2, <2>m
  <2>5. \A i \in 1 .. n : f[i] = g[i]
    BY <2>1, <2>2, <2>3, <2>4, <2>m
  <2>6. g[m] = l.len + 1
    BY <2>1, <2>2, <2>4, <2>m
  <2> HIDE DEF Sizes
  <2>8. SumOf(g, 1 .. m) = SumOf(g, 1 .. m - 1) + g[m]
    BY <2>m, SumInterval
  <2>9. SumOf(f, 1 .. n) \in Nat
    <3>1. n \in 0 .. n
      OBVIOUS
    <3> QED
      BY <3>1, SumInterval
  <2>10. IsFiniteSet(1 .. n)
    BY FS_Interval
  <2>11. SumOf(f, 1 .. n) = SumOf(g, 1 .. n)
    BY <2>5, <2>10, SumSame
  <2>12. /\ Frames!BytesOf(ls) = SumOf(f, 1 .. n)
         /\ Frames!BytesOf(t) = SumOf(g, 1 .. m)
    BY <1>1, <2>1, <2>2, <2>3, <2>4, <2>m
  <2> QED
    BY <2>6, <2>m, <2>8, <2>9, <2>11, <2>12 DEF t
<1> QED
  BY <1>2, <1>3

\* A sequence and one more element, at the front of a longer sequence.
LEMMA FrontOfLonger ==
  ASSUME NEW S, NEW s \in Seq(S), NEW x \in S, NEW r \in Seq(S),
         NEW t, t = Append(s, x) \o r
  PROVE  /\ Frames!IsStrictPrefix(s, t)
         /\ SubSeq(t, 1, Len(s) + 1) = Append(s, x)
<1>1. PICK n \in Nat : n = Len(s)
  BY LenProperties
<1>2. PICK u \in Seq(S) : u = Append(s, x)
  BY AppendProperties
<1>3. Len(u) = n + 1 /\ \A i \in 1 .. n : u[i] = s[i]
  BY <1>1, <1>2, AppendProperties
<1>4. t \in Seq(S) /\ Len(t) = n + 1 + Len(r) /\ Len(r) \in Nat
  <2>1. t = u \o r
    BY <1>2
  <2>2. t \in Seq(S) /\ Len(t) = Len(u) + Len(r)
    BY <2>1, ConcatProperties
  <2>3. Len(r) \in Nat
    BY LenProperties
  <2> QED
    BY <1>3, <2>2, <2>3
<1>5. ASSUME NEW i \in 1 .. n + 1
      PROVE  t[i] = u[i]
  <2>1. i \in 1 .. Len(u) + Len(r) /\ i <= Len(u)
    BY <1>3, <1>4
  <2>2. (u \o r)[i] = IF i <= Len(u) THEN u[i] ELSE r[i - Len(u)]
    BY <2>1, ConcatProperties
  <2> QED
    BY <1>2, <2>1, <2>2
<1>6. SubSeq(t, 1, n + 1) = u
  <2>1. /\ SubSeq(t, 1, n + 1) \in Seq(S)
        /\ Len(SubSeq(t, 1, n + 1)) = n + 1
        /\ \A i \in 1 .. n + 1 : SubSeq(t, 1, n + 1)[i] = t[i]
    BY <1>4
  <2> QED
    BY <1>3, <1>5, <2>1, SeqEqual
<1>7. SubSeq(t, 1, n) = SubSeq(s, 1, n)
  <2>1. /\ SubSeq(t, 1, n) \in Seq(S) /\ Len(SubSeq(t, 1, n)) = n
        /\ \A i \in 1 .. n : SubSeq(t, 1, n)[i] = t[i]
    BY <1>4
  <2>2. SubSeq(s, 1, n) = s
    BY <1>1, SubSeqFull
  <2>3. \A i \in 1 .. n : t[i] = s[i]
    <3>1. \A i \in 1 .. n : i \in 1 .. n + 1
      OBVIOUS
    <3> QED
      BY <1>3, <1>5, <3>1
  <2>4. SubSeq(t, 1, n) = s
    BY <1>1, <2>1, <2>3, SeqEqual
  <2> QED
    BY <2>2, <2>4
<1>8. s # t
  BY <1>1, <1>4
<1> QED
  BY <1>1, <1>2, <1>4, <1>6, <1>7, <1>8 DEF Frames!IsStrictPrefix, Frames!IsPrefix

\* What is read stays the same as long as the log and the wanted output do.
LEMMA SameLines ==
  ASSUME UNCHANGED <<frames, wanted>>, NEW CONSTANT i
  PROVE  /\ Frames!IsWanted(frames[i].out)' = Frames!IsWanted(frames[i].out)
         /\ Frames!LinesOf(i)' = Frames!LinesOf(i)
         /\ FlatTo(i)' = FlatTo(i)
<1>1. Frames!IsWanted(frames[i].out)' = Frames!IsWanted(frames[i].out)
  BY DEF Frames!IsWanted
<1>2. Frames!LinesOf(i)' = Frames!LinesOf(i)
  BY DEF Frames!LinesOf
<1>3. FlatTo(i)' = FlatTo(i)
  <2>1. \A j : Wanted(j)' = Wanted(j)
    <3>1. ASSUME NEW CONSTANT j PROVE Wanted(j)' = Wanted(j)
      <4>1. Frames!LinesOf(j)' = Frames!LinesOf(j)
        BY DEF Frames!LinesOf
      <4> QED
        BY <4>1 DEF Wanted, Frames!IsWanted
    <3> QED
      BY <3>1
  <2> QED
    BY <2>1 DEF FlatTo
<1> QED
  BY <1>1, <1>2, <1>3

\* The lines collected when line l of frame i is next.
LinesUpto(i, l) ==
    IF Frames!IsWanted(frames[i].out)
    THEN FlatTo(i - 1) \o SubSeq(Frames!LinesOf(i), 1, l - 1)
    ELSE FlatTo(i - 1)

\* Between two frames, all lines of those before are collected.
AtHeader == \E i \in 1 .. Len(frames) + 1 :
                pos = Frames!FrameStart(i) /\ lines = FlatTo(i - 1)

\* The log has ended in an orderly way, and all of its lines are collected.
IsWhole ==
    /\ orderly
    /\ \E i \in 1 .. Len(frames) + 1 : limit = Frames!FrameStart(i) /\ lines = FlatTo(i - 1)

\* The lines are collected up to one that has arrived and does not fit any more.
CutAt(i, l) ==
    /\ Frames!IsWanted(frames[i].out)
    /\ Frames!FrameStart(i + 1) <= limit
    /\ lines = FlatTo(i - 1) \o SubSeq(Frames!LinesOf(i), 1, l - 1)
    /\ Frames!BytesOf(lines) <= MaxBytes
    /\ Frames!BytesOf(lines) + (Frames!LinesOf(i)[l].len + 1) > MaxBytes

\* The list is cut at some line of some frame.
IsCut == \E i \in 1 .. Len(frames) : \E l \in 1 .. Len(Frames!LinesOf(i)) : CutAt(i, l)

\* The inductive invariant: what has been collected at each point of the loop.
AnswerInv ==
    /\ lines \in Seq(FrameLine) /\ size \in Nat /\ truncated \in BOOLEAN
    /\ orderly \in BOOLEAN /\ pc \in Frames!ReaderState
    /\ limit \in Nat /\ pos \in Nat /\ pos <= limit
    /\ status = 200 => pc = "answered"
    /\ pc = "open" => lines = <<>> /\ pos = 0
    /\ truncated => pc \in {"stopped", "answered"}
    /\ ~truncated => size = Frames!BytesOf(lines) /\ size <= MaxBytes
    /\ pc = "header" => AtHeader
    /\ pc \in {"content", "discard"} => lines = FlatTo(frame - 1)
    /\ pc = "discard" => line = 1
    /\ pc = "lines" => /\ line \in 1 .. Len(Frames!LinesOf(frame)) + 1
                       /\ lines = LinesUpto(frame, line)
    /\ pc = "stopped" \/ status = 200 => IF truncated THEN IsCut ELSE IsWhole

\* It holds at first.
LEMMA InitAnswerInv == Frames!Init => AnswerInv
<1> SUFFICES ASSUME Frames!Init PROVE AnswerInv
  OBVIOUS
<1>1. IsLog /\ Len(frames) \in Nat
  BY InitFramesInv, LenProperties DEF FramesInv, IsLog
<1>2. Frames!FrameStart(Len(frames) + 1) \in Nat
  <2>1. Len(frames) + 1 \in 1 .. Len(frames) + 1
    BY <1>1
  <2> QED
    BY <1>1, <2>1, StartsIncrease
<1>3. limit \in Nat /\ limit >= 0
  BY <1>2 DEF Frames!Init
<1>4. /\ lines = <<>> /\ lines \in Seq(FrameLine) /\ size = 0 /\ truncated = FALSE /\ pc = "open"
      /\ pos = 0 /\ status = 0 /\ orderly \in BOOLEAN
  BY EmptySeq DEF Frames!Init
<1>5. size = Frames!BytesOf(lines) /\ size <= MaxBytes
  BY <1>4, BytesOfLines, FramesAssumption
<1>6. limit \in Nat /\ pos \in Nat /\ pos <= limit /\ size \in Nat
  BY <1>3, <1>4
<1>7. /\ pc \in Frames!ReaderState
      /\ pc # "header" /\ pc # "content" /\ pc # "discard" /\ pc # "lines" /\ pc # "stopped"
  BY <1>4 DEF Frames!ReaderState
<1>8. status # 200
  BY <1>4
<1>9. ~truncated /\ truncated \in BOOLEAN
  BY <1>4
<1> QED
  BY <1>4, <1>5, <1>6, <1>7, <1>8, <1>9 DEF AnswerInv

\* The answer is as whole as before if nothing that it is made of changes.
LEMMA SameAnswer ==
  ASSUME UNCHANGED <<frames, wanted, limit, orderly, lines, pos>>
  PROVE  (IsWhole <=> IsWhole') /\ (IsCut <=> IsCut') /\ (AtHeader <=> AtHeader')
<1>c. \A i : /\ Frames!FrameStart(i)' = Frames!FrameStart(i)
             /\ Frames!IsWanted(frames[i].out)' = Frames!IsWanted(frames[i].out)
             /\ Frames!LinesOf(i)' = Frames!LinesOf(i)
             /\ FlatTo(i)' = FlatTo(i)
  <2>1. ASSUME NEW CONSTANT i
        PROVE  /\ Frames!FrameStart(i)' = Frames!FrameStart(i)
               /\ Frames!IsWanted(frames[i].out)' = Frames!IsWanted(frames[i].out)
               /\ Frames!LinesOf(i)' = Frames!LinesOf(i)
               /\ FlatTo(i)' = FlatTo(i)
    BY SameStarts, SameLines
  <2> QED
    BY <2>1
<1>1. IsWhole <=> IsWhole'
  BY <1>c DEF IsWhole
<1>2. IsCut <=> IsCut'
  <2>1. Frames!BytesOf(lines)' = Frames!BytesOf(lines)
    BY DEF Frames!BytesOf, Frames!MapThenSumSet, Frames!MapThenFoldSet
  <2>2. ASSUME NEW CONSTANT i, NEW CONSTANT l
        PROVE  CutAt(i, l)' <=> CutAt(i, l)
    BY <1>c, <2>1 DEF CutAt
  <2> QED
    BY <1>c, <2>2 DEF IsCut
<1>3. AtHeader <=> AtHeader'
  BY <1>c DEF AtHeader
<1> QED
  BY <1>1, <1>2, <1>3

\* What a step of the loop may use of the invariants.
AnswerFacts ==
    /\ IsLog /\ Len(frames) \in Nat
    /\ frames' = frames /\ wanted' = wanted
    /\ \A i : /\ Frames!FrameStart(i)' = Frames!FrameStart(i)
              /\ Frames!IsWanted(frames[i].out)' = Frames!IsWanted(frames[i].out)
              /\ Frames!LinesOf(i)' = Frames!LinesOf(i)
              /\ FlatTo(i)' = FlatTo(i)

\* They hold in every step.
LEMMA AnswerFactsHold == FramesInv /\ [Frames!Next]_(Frames!vars) => AnswerFacts
<1> SUFFICES ASSUME FramesInv, [Frames!Next]_(Frames!vars)
             PROVE  AnswerFacts
  OBVIOUS
<1>1. IsLog /\ Len(frames) \in Nat
  BY LenProperties DEF FramesInv, IsLog
<1>2. UNCHANGED <<frames, wanted>>
  BY LogStays
<1>3. ASSUME NEW CONSTANT i
      PROVE  /\ Frames!FrameStart(i)' = Frames!FrameStart(i)
             /\ Frames!IsWanted(frames[i].out)' = Frames!IsWanted(frames[i].out)
             /\ Frames!LinesOf(i)' = Frames!LinesOf(i)
             /\ FlatTo(i)' = FlatTo(i)
  BY <1>2, SameStarts, SameLines
<1> QED
  BY <1>1, <1>2, <1>3 DEF AnswerFacts

\* Before the first line of a frame, the lines are those of the frames before it.
LEMMA NoLinesYet ==
  ASSUME AnswerFacts, NEW CONSTANT i \in 1 .. Len(frames), lines = FlatTo(i - 1), UNCHANGED lines
  PROVE  /\ 1 \in 1 .. Len(Frames!LinesOf(i))' + 1
         /\ lines' = LinesUpto(i, 1)'
<1>1. IsLog
  BY DEF AnswerFacts
<1>2. PICK L \in Seq(FrameLine) : L = Frames!LinesOf(i)
  BY <1>1, LinesOfTyped
<1>3. Len(L) \in Nat /\ SubSeq(L, 1, 1 - 1) = <<>>
  BY LenProperties
<1>4. FlatTo(i - 1) \in Seq(FrameLine)
  <2>1. i - 1 \in 0 .. Len(frames)
    BY DEF AnswerFacts
  <2> QED
    BY <1>1, <2>1, FlatSteps
<1>5. FlatTo(i - 1) \o <<>> = FlatTo(i - 1)
  BY <1>4, ConcatEmptySeq
<1>6. LinesUpto(i, 1) = FlatTo(i - 1)
  BY <1>2, <1>3, <1>5 DEF LinesUpto
<1>7. LinesUpto(i, 1)' = LinesUpto(i, 1)
  BY DEF LinesUpto, AnswerFacts
<1>8. Frames!LinesOf(i)' = Frames!LinesOf(i)
  BY DEF AnswerFacts
<1> QED
  BY <1>2, <1>3, <1>6, <1>7, <1>8

\* A header is read, or the log ends where one would begin.
LEMMA ReadHeaderAnswerInv ==
  ASSUME FramesInv, AnswerInv, AnswerFacts, Frames!ReadHeader
  PROVE  AnswerInv'
<1>1. /\ pc = "header" /\ AtHeader /\ ~truncated /\ status # 200
      /\ lines \in Seq(FrameLine) /\ size \in Nat /\ truncated \in BOOLEAN
      /\ orderly \in BOOLEAN /\ limit \in Nat /\ pos \in Nat /\ pos <= limit
      /\ size = Frames!BytesOf(lines) /\ size <= MaxBytes
  BY DEF AnswerInv, Frames!ReadHeader
<1>2. PICK i \in 1 .. Len(frames) + 1 : pos = Frames!FrameStart(i) /\ lines = FlatTo(i - 1)
  BY <1>1 DEF AtHeader
<1>3. /\ UNCHANGED <<frames, wanted, limit, orderly, lines, size, truncated, status>>
      /\ Frames!BytesOf(lines)' = Frames!BytesOf(lines)
  BY DEF Frames!ReadHeader, Frames!sourceVars, Frames!resultVars,
     Frames!BytesOf, Frames!MapThenSumSet, Frames!MapThenFoldSet
<1>4. CASE Frames!CanRead(Frames!HeaderLen)
  <2>1. PICK j \in DOMAIN frames :
           /\ Frames!FrameStart(j) = pos /\ frame' = j
           /\ pos' = pos + 2 /\ pc' = "content" /\ pos + 2 <= limit
    BY <1>4 DEF Frames!ReadHeader, Frames!Go, Frames!CanRead, Frames!HeaderLen
  <2>2. j \in 1 .. Len(frames) + 1
    BY LenProperties DEF AnswerFacts, IsLog
  <2>3. j = i
    <3>1. /\ i < j => Frames!FrameStart(i) < Frames!FrameStart(j)
          /\ j < i => Frames!FrameStart(j) < Frames!FrameStart(i)
          /\ Frames!FrameStart(i) \in Nat
      BY <2>2, StartsIncrease DEF AnswerFacts
    <3> QED
      BY <1>2, <2>1, <2>2, <3>1 DEF AnswerFacts
  <2>4. lines' = FlatTo(frame - 1)'
    BY <1>2, <1>3, <2>1, <2>3 DEF AnswerFacts
  <2>5. pos' \in Nat /\ pos' <= limit'
    BY <1>1, <1>3, <2>1
  <2>6. pc' \in Frames!ReaderState
    BY <2>1 DEF Frames!ReaderState
  <2> QED
    BY <1>1, <1>3, <2>1, <2>4, <2>5, <2>6 DEF AnswerInv
<1>5. CASE ~Frames!CanRead(Frames!HeaderLen)
  <2>1. /\ pc' = IF pos = limit /\ orderly THEN "stopped" ELSE "failed"
        /\ UNCHANGED <<pos, frame>>
    BY <1>5 DEF Frames!ReadHeader, Frames!Go, Frames!CleanEnd
  <2>2. pc' = "stopped" => IsWhole
    BY <1>2, <2>1 DEF IsWhole
  <2>3. IsWhole' <=> IsWhole
    BY <1>3, <2>1, SameAnswer
  <2>4. pc' \in Frames!ReaderState
    BY <2>1 DEF Frames!ReaderState
  <2> QED
    BY <1>1, <1>3, <2>1, <2>2, <2>3, <2>4 DEF AnswerInv
<1> QED
  BY <1>4, <1>5

\* A content is read, as far as it is kept.
LEMMA ReadContentAnswerInv ==
  ASSUME FramesInv, AnswerInv, AnswerFacts, Frames!ReadContent
  PROVE  AnswerInv'
<1>1. /\ pc = "content" /\ lines = FlatTo(frame - 1) /\ ~truncated /\ status # 200
      /\ lines \in Seq(FrameLine) /\ size \in Nat /\ truncated \in BOOLEAN
      /\ orderly \in BOOLEAN /\ limit \in Nat /\ pos \in Nat /\ pos <= limit
      /\ size = Frames!BytesOf(lines) /\ size <= MaxBytes
  BY DEF AnswerInv, Frames!ReadContent
<1>2. /\ UNCHANGED <<frames, wanted, limit, orderly, lines, size, truncated, status, frame>>
      /\ Frames!BytesOf(lines)' = Frames!BytesOf(lines)
  BY DEF Frames!ReadContent, Frames!sourceVars, Frames!resultVars,
     Frames!BytesOf, Frames!MapThenSumSet, Frames!MapThenFoldSet
<1>3. frame \in 1 .. Len(frames) /\ Frames!ReadLen \in Nat
  BY <1>1, ReadLenTyped DEF FramesInv
<1>4. lines' = FlatTo(frame - 1)'
  BY <1>1, <1>2 DEF AnswerFacts
<1>5. CASE Frames!CanRead(Frames!ReadLen)
  <2>1. /\ pos' = pos + Frames!ReadLen /\ line' = 1 /\ pos + Frames!ReadLen <= limit
        /\ pc' = IF Len(frames[frame].content) > Frames!ReadLen THEN "discard" ELSE "lines"
    BY <1>5 DEF Frames!ReadContent, Frames!Go, Frames!CanRead
  <2>2. pos' \in Nat /\ pos' <= limit'
    BY <1>1, <1>2, <1>3, <2>1
  <2>3. /\ line' \in 1 .. Len(Frames!LinesOf(frame))' + 1
        /\ lines' = LinesUpto(frame, line)'
    <3>1. PICK i \in 1 .. Len(frames) : i = frame
      BY <1>3
    <3>2. i = frame' /\ line' = 1 /\ lines = FlatTo(i - 1) /\ UNCHANGED lines
      BY <1>1, <1>2, <2>1, <3>1
    <3>3. 1 \in 1 .. Len(Frames!LinesOf(i))' + 1 /\ lines' = LinesUpto(i, 1)'
      BY <3>2, NoLinesYet
    <3> QED
      BY <3>2, <3>3
  <2>4. pc' \in {"discard", "lines"} /\ pc' \in Frames!ReaderState
    BY <2>1 DEF Frames!ReaderState
  <2> QED
    BY <1>1, <1>2, <1>4, <2>1, <2>2, <2>3, <2>4 DEF AnswerInv
<1>6. CASE ~Frames!CanRead(Frames!ReadLen)
  <2>1. pc' = "failed" /\ UNCHANGED <<pos, line>>
    BY <1>6 DEF Frames!ReadContent, Frames!Go
  <2>2. pc' \in Frames!ReaderState
    BY <2>1 DEF Frames!ReaderState
  <2> QED
    BY <1>1, <1>2, <2>1, <2>2 DEF AnswerInv
<1> QED
  BY <1>5, <1>6

\* The rest of an oversized frame is skipped.
LEMMA DiscardAnswerInv ==
  ASSUME FramesInv, AnswerInv, AnswerFacts, Frames!Discard
  PROVE  AnswerInv'
<1>1. /\ pc = "discard" /\ lines = FlatTo(frame - 1) /\ line = 1 /\ ~truncated /\ status # 200
      /\ lines \in Seq(FrameLine) /\ size \in Nat /\ truncated \in BOOLEAN
      /\ orderly \in BOOLEAN /\ limit \in Nat /\ pos \in Nat /\ pos <= limit
      /\ size = Frames!BytesOf(lines) /\ size <= MaxBytes
  BY DEF AnswerInv, Frames!Discard
<1>2. /\ UNCHANGED <<frames, wanted, limit, orderly, lines, size, truncated, status, frame, line>>
      /\ Frames!BytesOf(lines)' = Frames!BytesOf(lines)
  BY DEF Frames!Discard, Frames!sourceVars, Frames!resultVars,
     Frames!BytesOf, Frames!MapThenSumSet, Frames!MapThenFoldSet
<1>3. PICK i \in 1 .. Len(frames) : i = frame
  BY <1>1 DEF FramesInv
<1>4. PICK rest \in Nat : rest = Len(frames[frame].content) - Frames!ReadLen
  BY <1>3, ReadLenTyped DEF FramesInv
<1>5. CASE Frames!CanRead(rest)
  <2>1. pos' = pos + rest /\ pos + rest <= limit /\ pc' = "lines"
    BY <1>4, <1>5 DEF Frames!Discard, Frames!Go, Frames!CanRead
  <2>2. pos' \in Nat /\ pos' <= limit'
    BY <1>1, <1>2, <2>1
  <2>3. /\ line' \in 1 .. Len(Frames!LinesOf(frame))' + 1
        /\ lines' = LinesUpto(frame, line)'
    <3>1. i = frame' /\ line' = 1 /\ lines = FlatTo(i - 1) /\ UNCHANGED lines
      BY <1>1, <1>2, <1>3
    <3>2. 1 \in 1 .. Len(Frames!LinesOf(i))' + 1 /\ lines' = LinesUpto(i, 1)'
      BY <3>1, NoLinesYet
    <3> QED
      BY <3>1, <3>2
  <2>4. pc' \in Frames!ReaderState
    BY <2>1 DEF Frames!ReaderState
  <2> QED
    BY <1>1, <1>2, <2>1, <2>2, <2>3, <2>4 DEF AnswerInv
<1>6. CASE ~Frames!CanRead(rest)
  <2>1. pc' = "failed" /\ UNCHANGED pos
    BY <1>4, <1>6 DEF Frames!Discard, Frames!Go
  <2>2. pc' \in Frames!ReaderState
    BY <2>1 DEF Frames!ReaderState
  <2> QED
    BY <1>1, <1>2, <2>1, <2>2 DEF AnswerInv
<1> QED
  BY <1>5, <1>6

\* The lines up to a line, and up to the one after it.
LEMMA OneLineMore ==
  ASSUME IsLog, NEW i \in 1 .. Len(frames), Frames!IsWanted(frames[i].out),
         NEW l \in 1 .. Len(Frames!LinesOf(i))
  PROVE  /\ LinesUpto(i, l + 1) = Append(LinesUpto(i, l), Frames!LinesOf(i)[l])
         /\ LinesUpto(i, l) \in Seq(FrameLine)
         /\ Frames!LinesOf(i)[l] \in FrameLine
<1>1. PICK L \in Seq(FrameLine) : L = Frames!LinesOf(i)
  BY LinesOfTyped
<1>2. PICK F \in Seq(FrameLine) : F = FlatTo(i - 1)
  <2>1. i - 1 \in 0 .. Len(frames)
    BY LenProperties DEF IsLog
  <2> QED
    BY <2>1, FlatSteps
<1>3. Len(L) \in Nat /\ l \in 1 .. Len(L)
  BY <1>1, LenProperties
<1>4. PICK P \in Seq(FrameLine) : P = SubSeq(L, 1, l - 1)
  <2>1. \A k \in 1 .. l - 1 : k \in 1 .. Len(L)
    BY <1>3
  <2>2. SubSeq(L, 1, l - 1) \in Seq(FrameLine)
    BY <1>3, <2>1, SubSeqProperties
  <2> QED
    BY <2>2
<1>5. SubSeq(L, 1, l) = Append(P, L[l])
  <2>1. l - 1 \in Nat /\ 1 <= l /\ l <= Len(L)
    BY <1>3
  <2> QED
    BY <1>3, <1>4, <2>1, SubSeqRecursiveSecond
<1>6. L[l] \in FrameLine
  BY <1>3, ElementOfSeq
<1>7. F \o Append(P, L[l]) = Append(F \o P, L[l])
  <2>1. Append(P, L[l]) = P \o <<L[l]>> /\ <<L[l]>> \in Seq(FrameLine)
    BY <1>6, AppendIsConcat
  <2>2. F \o (P \o <<L[l]>>) = (F \o P) \o <<L[l]>>
    BY <2>1, ConcatAssociative
  <2>3. F \o P \in Seq(FrameLine)
    BY ConcatProperties
  <2>4. Append(F \o P, L[l]) = (F \o P) \o <<L[l]>>
    BY <1>6, <2>3, AppendIsConcat
  <2> QED
    BY <2>1, <2>2, <2>4
<1>8. F \o P \in Seq(FrameLine)
  BY ConcatProperties
<1>9. l + 1 - 1 = l
  BY <1>3
<1>10. LinesUpto(i, l + 1) = F \o SubSeq(L, 1, l)
  BY <1>1, <1>2, <1>9 DEF LinesUpto
<1>11. LinesUpto(i, l) = F \o P
  BY <1>1, <1>2, <1>4 DEF LinesUpto
<1> QED
  BY <1>1, <1>5, <1>6, <1>7, <1>8, <1>10, <1>11

\* A line of an output that is not wanted is passed over, one that fits is
\* collected, and one that does not is where the list is cut.
LEMMA TakeLineAnswerInv ==
  ASSUME FramesInv, AnswerInv, AnswerFacts, Frames!TakeLine
  PROVE  AnswerInv'
<1>1. /\ pc = "lines" /\ lines = LinesUpto(frame, line) /\ ~truncated /\ status # 200
      /\ lines \in Seq(FrameLine) /\ size \in Nat /\ truncated \in BOOLEAN
      /\ orderly \in BOOLEAN /\ limit \in Nat /\ pos \in Nat /\ pos <= limit
      /\ size = Frames!BytesOf(lines) /\ size <= MaxBytes
  BY DEF AnswerInv, Frames!TakeLine
<1>2. /\ UNCHANGED <<frames, wanted, limit, orderly, status, pos, frame>>
      /\ line' = line + 1 /\ line <= Len(Frames!LinesOf(frame))
  BY DEF Frames!TakeLine, Frames!sourceVars
<1>3. PICK i \in 1 .. Len(frames) : i = frame /\ i = frame'
  BY <1>1, <1>2 DEF FramesInv
<1>4. PICK L \in Seq(FrameLine) : L = Frames!LinesOf(i)
  BY LinesOfTyped DEF AnswerFacts
<1>5. PICK l \in 1 .. Len(L) : l = line
  <2>1. line \in 1 .. Len(L) + 1 /\ line <= Len(L)
    BY <1>1, <1>2, <1>3, <1>4 DEF AnswerInv
  <2>2. Len(L) \in Nat
    BY LenProperties
  <2> QED
    BY <2>1, <2>2
<1>6. l + 1 \in 1 .. Len(L) + 1 /\ line' = l + 1 /\ pos' \in Nat /\ pos' <= limit'
  BY <1>1, <1>2, <1>5, LenProperties
<1>7. Len(Frames!LinesOf(frame))' = Len(L)
  BY <1>3, <1>4 DEF AnswerFacts
<1>8. LinesUpto(frame, line)' = LinesUpto(i, l + 1)
  BY <1>3, <1>6 DEF LinesUpto, AnswerFacts
<1>9. CASE ~Frames!IsWanted(frames[frame].out)
  <2>1. UNCHANGED <<lines, size, truncated>> /\ pc' = "lines"
    BY <1>9 DEF Frames!TakeLine, Frames!Go, Frames!resultVars
  <2>2. Frames!BytesOf(lines)' = Frames!BytesOf(lines)
    BY <2>1 DEF Frames!BytesOf, Frames!MapThenSumSet, Frames!MapThenFoldSet
  <2>3. lines' = LinesUpto(frame, line)'
    BY <1>1, <1>3, <1>8, <1>9, <2>1 DEF LinesUpto
  <2>4. pc' \in Frames!ReaderState
    BY <2>1 DEF Frames!ReaderState
  <2> QED
    BY <1>1, <1>2, <1>6, <1>7, <2>1, <2>2, <2>3, <2>4 DEF AnswerInv
<1>10. CASE Frames!IsWanted(frames[frame].out)
  <2>1. /\ size' = size + L[l].len + 1
        /\ truncated' = (size' > MaxBytes)
        /\ pc' = IF truncated' THEN "stopped" ELSE "lines"
        /\ lines' = IF truncated' THEN lines ELSE Append(lines, L[l])
    BY <1>3, <1>4, <1>5, <1>10 DEF Frames!TakeLine, Frames!Go
  <2>2. /\ LinesUpto(i, l + 1) = Append(LinesUpto(i, l), L[l])
        /\ L[l] \in FrameLine /\ L[l].len \in Nat
    <3>1. L[l] \in FrameLine /\ LinesUpto(i, l + 1) = Append(LinesUpto(i, l), L[l])
      BY <1>3, <1>4, <1>5, <1>10, OneLineMore DEF AnswerFacts
    <3> QED
      BY <3>1 DEF FrameLine
  <2>3. size' = size + (L[l].len + 1) /\ size' \in Nat
    BY <1>1, <2>1, <2>2
  <2>4. Frames!BytesOf(Append(lines, L[l])) = size'
    BY <1>1, <2>2, <2>3, BytesOfLines
  <2>5. pc' \in Frames!ReaderState /\ pc' \in {"stopped", "lines"} /\ truncated' \in BOOLEAN
    BY <2>1 DEF Frames!ReaderState
  <2>6. CASE truncated'
    <3>1. lines' = lines /\ pc' = "stopped" /\ size' > MaxBytes
      BY <2>1, <2>6
    <3>2. CutAt(i, l)
      <4>1. lines = FlatTo(i - 1) \o SubSeq(Frames!LinesOf(i), 1, l - 1)
        BY <1>1, <1>3, <1>5, <1>10 DEF LinesUpto
      <4>2. Frames!FrameStart(i + 1) <= limit
        BY <1>1, <1>3 DEF FramesInv
      <4>3. Frames!BytesOf(lines) <= MaxBytes /\ Frames!BytesOf(lines) + (L[l].len + 1) > MaxBytes
        BY <1>1, <2>3, <3>1
      <4> QED
        BY <1>3, <1>4, <1>10, <4>1, <4>2, <4>3 DEF CutAt
    <3>3. IsCut
      BY <1>4, <3>2 DEF IsCut
    <3>4. IsCut'
      BY <1>2, <3>1, <3>3, SameAnswer DEF AnswerFacts
    <3> QED
      BY <1>1, <1>2, <1>6, <2>3, <2>5, <2>6, <3>1, <3>4 DEF AnswerInv
  <2>7. CASE ~truncated'
    <3>1. lines' = Append(lines, L[l]) /\ pc' = "lines" /\ ~(size' > MaxBytes)
      BY <2>1, <2>7
    <3>2. lines' = LinesUpto(frame, line)'
      BY <1>1, <1>3, <1>5, <1>8, <2>2, <3>1
    <3>3. lines' \in Seq(FrameLine)
      BY <1>1, <2>2, <3>1, AppendProperties
    <3>4. size' <= MaxBytes
      BY <2>3, <3>1, FramesAssumption
    <3>5. Frames!BytesOf(lines)' = size'
      <4>1. PICK t \in Seq(FrameLine) : t = Append(lines, L[l]) /\ t = lines'
        BY <3>1, <3>3
      <4>2. Frames!BytesOf(t) = size'
        BY <2>4, <4>1
      <4>3. Frames!BytesOf(lines)' = Frames!BytesOf(t)
        BY <4>1 DEF Frames!BytesOf, Frames!MapThenSumSet, Frames!MapThenFoldSet
      <4> QED
        BY <4>2, <4>3
    <3> QED
      BY <1>1, <1>2, <1>6, <1>7, <2>3, <2>5, <2>7, <3>1, <3>2, <3>3, <3>4, <3>5 DEF AnswerInv
  <2> QED
    BY <2>6, <2>7
<1> QED
  BY <1>9, <1>10

\* The frame is done: all lines of the frames up to it are collected.
LEMMA FrameDoneAnswerInv ==
  ASSUME FramesInv, AnswerInv, AnswerFacts, Frames!FrameDone
  PROVE  AnswerInv'
<1>1. /\ pc = "lines" /\ lines = LinesUpto(frame, line) /\ ~truncated /\ status # 200
      /\ lines \in Seq(FrameLine) /\ size \in Nat /\ truncated \in BOOLEAN
      /\ orderly \in BOOLEAN /\ limit \in Nat /\ pos \in Nat /\ pos <= limit
      /\ size = Frames!BytesOf(lines) /\ size <= MaxBytes
  BY DEF AnswerInv, Frames!FrameDone
<1>2. /\ UNCHANGED <<frames, wanted, limit, orderly, lines, size, truncated, status, pos, frame>>
      /\ Frames!BytesOf(lines)' = Frames!BytesOf(lines)
      /\ line > Len(Frames!LinesOf(frame)) /\ pc' = "header"
  BY DEF Frames!FrameDone, Frames!Go, Frames!sourceVars, Frames!resultVars,
     Frames!BytesOf, Frames!MapThenSumSet, Frames!MapThenFoldSet
<1>3. PICK i \in 1 .. Len(frames) : i = frame
  BY <1>1 DEF FramesInv
<1>4. PICK L \in Seq(FrameLine) : L = Frames!LinesOf(i)
  BY LinesOfTyped DEF AnswerFacts
<1>5. line = Len(L) + 1 /\ Len(L) \in Nat
  <2>1. line \in 1 .. Len(L) + 1 /\ line > Len(L)
    BY <1>1, <1>2, <1>3, <1>4 DEF AnswerInv
  <2>2. Len(L) \in Nat
    BY LenProperties
  <2> QED
    BY <2>1, <2>2
<1>6. SubSeq(L, 1, line - 1) = L
  <2>1. line - 1 = Len(L)
    BY <1>5
  <2> QED
    BY <2>1, SubSeqFull
<1>7. lines = FlatTo(i)
  <2>1. FlatTo(i) = FlatTo(i - 1) \o Wanted(i)
    BY FlatSteps DEF AnswerFacts
  <2>2. CASE Frames!IsWanted(frames[i].out)
    BY <1>1, <1>3, <1>4, <1>6, <2>1, <2>2 DEF LinesUpto, Wanted
  <2>3. CASE ~Frames!IsWanted(frames[i].out)
    <3>1. FlatTo(i - 1) \in Seq(FrameLine)
      <4>1. i - 1 \in 0 .. Len(frames)
        BY DEF AnswerFacts
      <4> QED
        BY <4>1, FlatSteps DEF AnswerFacts
    <3>2. FlatTo(i - 1) \o <<>> = FlatTo(i - 1)
      BY <3>1, ConcatEmptySeq
    <3> QED
      BY <1>1, <1>3, <2>1, <2>3, <3>2 DEF LinesUpto, Wanted
  <2> QED
    BY <2>2, <2>3
<1>8. AtHeader
  <2>1. PICK j \in 1 .. Len(frames) + 1 : j = i + 1 /\ j - 1 = i
    BY DEF AnswerFacts
  <2>2. pos = Frames!FrameStart(j)
    BY <1>1, <1>3, <2>1 DEF FramesInv
  <2> QED
    BY <1>7, <2>1, <2>2 DEF AtHeader
<1>9. AtHeader'
  BY <1>2, <1>8, SameAnswer
<1>10. pc' \in Frames!ReaderState
  BY <1>2 DEF Frames!ReaderState
<1> QED
  BY <1>1, <1>2, <1>9, <1>10 DEF AnswerInv

\* Steps that collect nothing: the log is opened, the deadline passes, the answer
\* is given, or nothing happens.
LEMMA OtherAnswerInv ==
  ASSUME FramesInv, AnswerInv, AnswerFacts,
         Frames!Open \/ Frames!DeadlinePasses \/ Frames!Answer \/ UNCHANGED Frames!vars
  PROVE  AnswerInv'
<1>1. /\ UNCHANGED <<frames, wanted, pos, frame, line, lines, size, truncated>>
      /\ Frames!BytesOf(lines)' = Frames!BytesOf(lines)
  BY DEF Frames!Open, Frames!DeadlinePasses, Frames!Answer, Frames!vars, Frames!sourceVars,
     Frames!resultVars, Frames!BytesOf, Frames!MapThenSumSet, Frames!MapThenFoldSet
<1>2. /\ lines \in Seq(FrameLine) /\ size \in Nat /\ truncated \in BOOLEAN
      /\ orderly \in BOOLEAN /\ pc \in Frames!ReaderState
      /\ limit \in Nat /\ pos \in Nat /\ pos <= limit
      /\ ~truncated => size = Frames!BytesOf(lines) /\ size <= MaxBytes
  BY DEF AnswerInv
<1>3. CASE Frames!Open
  <2>1. /\ pc = "open" /\ pc' \in {"header", "notFound", "failed"}
        /\ UNCHANGED <<limit, orderly, status>>
        /\ lines = <<>> /\ pos = 0 /\ ~truncated /\ status # 200
    BY <1>3 DEF Frames!Open, Frames!Go, Frames!sourceVars, AnswerInv
  <2>2. AtHeader
    <3>1. 1 \in 1 .. Len(frames) + 1 /\ 1 - 1 = 0
      BY DEF AnswerFacts
    <3>2. Frames!FrameStart(1) = 0 /\ FlatTo(0) = <<>>
      BY FrameStarts, FlatSteps DEF AnswerFacts
    <3> QED
      BY <2>1, <3>1, <3>2 DEF AtHeader
  <2>3. AtHeader'
    BY <1>1, <2>1, <2>2, SameAnswer
  <2>4. pc' \in Frames!ReaderState
    BY <2>1 DEF Frames!ReaderState
  <2> QED
    BY <1>1, <1>2, <2>1, <2>3, <2>4 DEF AnswerInv
<1>4. CASE Frames!Answer
  <2>1. /\ pc \in {"stopped", "notFound", "failed"} /\ pc' = "answered"
        /\ UNCHANGED <<limit, orderly>>
        /\ status' = 200 => pc = "stopped"
    BY <1>4 DEF Frames!Answer, Frames!Status, Frames!Go, Frames!sourceVars
  <2>2. (IsWhole <=> IsWhole') /\ (IsCut <=> IsCut')
    BY <1>1, <2>1, SameAnswer
  <2>3. pc = "stopped" => IF truncated THEN IsCut ELSE IsWhole
    BY DEF AnswerInv
  <2>4. pc' \in Frames!ReaderState
    BY <2>1 DEF Frames!ReaderState
  <2> QED
    BY <1>1, <1>2, <2>1, <2>2, <2>3, <2>4 DEF AnswerInv
<1>s. /\ lines' = LinesUpto(frame, line)' <=> lines = LinesUpto(frame, line)
      /\ Len(Frames!LinesOf(frame))' = Len(Frames!LinesOf(frame))
      /\ FlatTo(frame - 1)' = FlatTo(frame - 1)
  BY <1>1 DEF AnswerFacts, LinesUpto
<1>h. AtHeader' <=> AtHeader
  BY <1>1 DEF AtHeader, AnswerFacts
<1>5. CASE Frames!DeadlinePasses
  <2>1. /\ pc # "answered" /\ UNCHANGED <<pc, status>>
        /\ IF pc \in {"stopped", "notFound", "failed"}
           THEN UNCHANGED <<limit, orderly>>
           ELSE limit' \in pos .. limit /\ orderly' \in {FALSE, orderly /\ limit' = limit}
    BY <1>5 DEF Frames!DeadlinePasses
  <2>2. orderly' \in BOOLEAN /\ limit' \in Nat /\ pos' <= limit' /\ pos' \in Nat
    <3>1. orderly' \in BOOLEAN
      BY <1>2, <2>1
    <3>2. limit' = limit \/ limit' \in pos .. limit
      BY <2>1
    <3>3. limit' \in Nat /\ pos <= limit'
      BY <1>2, <3>2
    <3> QED
      BY <1>1, <1>2, <3>1, <3>3
  <2>3. pc = "stopped" => (IsWhole <=> IsWhole') /\ (IsCut <=> IsCut')
    <3>1. SUFFICES ASSUME pc = "stopped"
                   PROVE  (IsWhole <=> IsWhole') /\ (IsCut <=> IsCut')
      OBVIOUS
    <3>2. UNCHANGED <<limit, orderly>>
      BY <2>1, <3>1
    <3> QED
      BY <1>1, <3>2, SameAnswer
  <2>4. status # 200
    BY <2>1 DEF AnswerInv
  <2>5. /\ pc = "open" => lines = <<>> /\ pos = 0
        /\ truncated => pc \in {"stopped", "answered"}
        /\ pc = "header" => AtHeader
        /\ pc \in {"content", "discard"} => lines = FlatTo(frame - 1)
        /\ pc = "discard" => line = 1
        /\ pc = "lines" => /\ line \in 1 .. Len(Frames!LinesOf(frame)) + 1
                           /\ lines = LinesUpto(frame, line)
        /\ pc = "stopped" => IF truncated THEN IsCut ELSE IsWhole
    BY DEF AnswerInv
  <2>6. pc' \in Frames!ReaderState
    BY <1>2, <2>1
  <2> QED
    BY <1>1, <1>2, <1>s, <1>h, <2>1, <2>2, <2>3, <2>4, <2>5, <2>6 DEF AnswerInv
<1>6. CASE UNCHANGED Frames!vars
  <2>1. UNCHANGED <<pc, status, limit, orderly>>
    BY <1>6 DEF Frames!vars, Frames!sourceVars
  <2>2. (IsWhole <=> IsWhole') /\ (IsCut <=> IsCut')
    BY <1>1, <2>1, SameAnswer
  <2> QED
    BY <1>1, <1>2, <1>s, <1>h, <2>1, <2>2 DEF AnswerInv
<1> QED
  BY <1>3, <1>4, <1>5, <1>6

\* Each step keeps it.
LEMMA NextAnswerInv == FramesInv /\ AnswerInv /\ [Frames!Next]_(Frames!vars) => AnswerInv'
<1> SUFFICES ASSUME FramesInv, AnswerInv, [Frames!Next]_(Frames!vars)
             PROVE  AnswerInv'
  OBVIOUS
<1>1. AnswerFacts
  BY AnswerFactsHold
<1> QED
  BY <1>1, ReadHeaderAnswerInv, ReadContentAnswerInv, DiscardAnswerInv, TakeLineAnswerInv,
     FrameDoneAnswerInv, OtherAnswerInv DEF Frames!Next

\* Of m frames, those that have arrived as a whole are counted.
LEMMA FramesArrived ==
  ASSUME IsLog, limit \in Nat
  PROVE  \E m \in 0 .. Len(frames) :
            /\ Frames!WholeFrames = 1 .. m
            /\ Frames!WantedLines = FlatTo(m)
            /\ \A i \in 1 .. Len(frames) : Frames!FrameStart(i + 1) <= limit <=> i <= m
<1>n. PICK N \in Nat : N = Len(frames) /\ DOMAIN frames = 1 .. N
  BY LenProperties DEF IsLog
<1> DEFINE Late == {k \in Nat : k > N \/ (k >= 1 /\ Frames!FrameStart(k + 1) > limit)}
<1>1. PICK m \in Nat : m + 1 \in Late /\ \A k \in Late : m + 1 <= k
  <2>1. N + 1 \in Late /\ Late \subseteq Nat
    OBVIOUS
  <2>2. PICK k \in Late : \A j \in Late : k <= j
    <3> HIDE DEF Late
    <3> QED
      BY <2>1, LeastNat
  <2>3. k \in Nat /\ k >= 1
    OBVIOUS
  <2>4. k - 1 \in Nat /\ k - 1 + 1 = k
    BY <2>3
  <2> QED
    BY <2>2, <2>4
<1>2. m <= N
  <2>1. N + 1 \in Late
    OBVIOUS
  <2>2. m + 1 <= N + 1
    BY <1>1, <2>1
  <2> QED
    BY <2>2
<1>3. ASSUME NEW i \in 1 .. N
      PROVE  Frames!FrameStart(i + 1) <= limit <=> i <= m
  <2>0. /\ i + 1 \in 1 .. N + 1 /\ Frames!FrameStart(i + 1) \in Nat
    BY <1>n, StartsIncrease
  <2>1. CASE i <= m
    <3>1. i \notin Late
      BY <1>1, <2>1
    <3> QED
      BY <2>0, <2>1, <3>1
  <2>2. CASE i > m
    <3>1. m + 1 \in 1 .. N /\ m + 1 + 1 \in 1 .. N + 1 /\ m + 1 <= i
      BY <2>2
    <3>2. Frames!FrameStart(m + 1 + 1) > limit
      BY <1>1, <3>1
    <3>3. Frames!FrameStart(m + 1 + 1) \in Nat
      BY <1>n, <3>1, StartsIncrease
    <3>4. CASE i = m + 1
      BY <2>2, <3>2, <3>3, <3>4
    <3>5. CASE i # m + 1
      <4>1. m + 1 + 1 < i + 1
        BY <3>1, <3>5
      <4>2. Frames!FrameStart(m + 1 + 1) < Frames!FrameStart(i + 1)
        BY <1>n, <2>0, <3>1, <4>1, StartsIncrease
      <4> QED
        BY <2>0, <2>2, <3>2, <3>3, <4>2
    <3> QED
      BY <3>4, <3>5
  <2> QED
    BY <2>1, <2>2
<1>4. Frames!WholeFrames = 1 .. m
  <2>1. \A i : i \in 1 .. m <=> i \in 1 .. N /\ i <= m
    BY <1>2
  <2> QED
    BY <1>n, <1>3, <2>1 DEF Frames!WholeFrames
<1>5. Cardinality(1 .. m) = m
  BY FS_Interval
<1>6. Frames!WantedLines = FlatTo(m)
  <2>1. Frames!Cardinality(Frames!WholeFrames) = m
    BY <1>4, <1>5 DEF Cardinality, Frames!Cardinality
  <2> QED
    BY <2>1 DEF Frames!WantedLines, FlatTo, Wanted
<1> QED
  BY <1>n, <1>2, <1>3, <1>4, <1>6

\* A list that is whole, and one that is cut, as the properties say it.
LEMMA WholeAnswer ==
  ASSUME IsLog, limit \in Nat, IsWhole
  PROVE  /\ lines = Frames!WantedLines
         /\ orderly
         /\ \E i \in 1 .. Len(frames) + 1 : limit = Frames!FrameStart(i)
<1>n. PICK N \in Nat : N = Len(frames)
  BY LenProperties DEF IsLog
<1>1. PICK m \in 0 .. N :
         /\ Frames!WantedLines = FlatTo(m)
         /\ \A i \in 1 .. N : Frames!FrameStart(i + 1) <= limit <=> i <= m
  BY <1>n, FramesArrived
<1>2. PICK i \in 1 .. N + 1 : limit = Frames!FrameStart(i) /\ lines = FlatTo(i - 1)
  BY <1>n DEF IsWhole
<1>3. i - 1 <= m
  <2>1. CASE i = 1
    BY <1>1, <2>1
  <2>2. CASE i # 1
    <3>1. PICK j \in 1 .. N : i = j + 1
      BY <2>2
    <3>2. Frames!FrameStart(j + 1) <= limit
      BY <1>2, <3>1
    <3> QED
      BY <1>1, <3>1, <3>2
  <2> QED
    BY <2>1, <2>2
<1>4. ~(i <= m)
  <2> SUFFICES ASSUME i <= m PROVE FALSE
    OBVIOUS
  <2>1. i \in 1 .. N /\ i + 1 \in 1 .. N + 1 /\ i < i + 1
    BY <1>1
  <2>2. Frames!FrameStart(i + 1) <= limit
    BY <1>1, <2>1
  <2>3. /\ Frames!FrameStart(i) < Frames!FrameStart(i + 1)
        /\ Frames!FrameStart(i) \in Nat /\ Frames!FrameStart(i + 1) \in Nat
    BY <1>n, <2>1, StartsIncrease
  <2> QED
    BY <1>2, <2>2, <2>3
<1>5. m = i - 1
  BY <1>3, <1>4
<1> QED
  BY <1>1, <1>2, <1>5, <1>n DEF IsWhole

\* Lines are put together in any order.
LEMMA InAnyOrder ==
  \A s1, s2, s3 \in Seq(FrameLine) : (s1 \o s2) \o s3 = s1 \o (s2 \o s3)
BY ConcatAssociative

\* A list that is cut is the longest beginning of the lines that fits.
LEMMA CutAnswer ==
  ASSUME IsLog, limit \in Nat, lines \in Seq(FrameLine), IsCut
  PROVE  /\ Frames!IsStrictPrefix(lines, Frames!WantedLines)
         /\ Frames!BytesOf(lines) <= MaxBytes
         /\ Frames!BytesOf(SubSeq(Frames!WantedLines, 1, Len(lines) + 1)) > MaxBytes
<1>n. PICK N \in Nat : N = Len(frames)
  BY LenProperties DEF IsLog
<1>1. PICK m \in 0 .. N :
         /\ Frames!WantedLines = FlatTo(m)
         /\ \A i \in 1 .. N : Frames!FrameStart(i + 1) <= limit <=> i <= m
  BY <1>n, FramesArrived
<1>2. PICK i \in 1 .. N : \E l \in 1 .. Len(Frames!LinesOf(i)) : CutAt(i, l)
  BY <1>n DEF IsCut
<1>3. PICK l \in 1 .. Len(Frames!LinesOf(i)) : CutAt(i, l)
  BY <1>2
<1>4. PICK L \in Seq(FrameLine) : L = Frames!LinesOf(i)
  BY <1>n, LinesOfTyped
<1>5. /\ Frames!IsWanted(frames[i].out) /\ Frames!FrameStart(i + 1) <= limit
      /\ lines = LinesUpto(i, l)
      /\ Frames!BytesOf(lines) <= MaxBytes /\ Frames!BytesOf(lines) + (L[l].len + 1) > MaxBytes
  BY <1>3, <1>4 DEF CutAt, LinesUpto
<1>6. i <= m
  BY <1>1, <1>5
<1>7. L[l] \in FrameLine /\ LinesUpto(i, l + 1) = Append(lines, L[l])
  BY <1>3, <1>4, <1>5, <1>n, OneLineMore
<1>8. PICK F \in Seq(FrameLine) : F = FlatTo(i - 1)
  <2>1. i - 1 \in 0 .. N
    OBVIOUS
  <2> QED
    BY <1>n, <2>1, FlatSteps
<1>9. \E r \in Seq(FrameLine) : FlatTo(i) = Append(lines, L[l]) \o r
  <2>1. Len(L) \in Nat /\ l \in 1 .. Len(L)
    BY <1>4, LenProperties
  <2>2. PICK P \in Seq(FrameLine) : P = SubSeq(L, 1, l)
    <3>1. \A k \in 1 .. l : k \in 1 .. Len(L)
      BY <2>1
    <3>2. SubSeq(L, 1, l) \in Seq(FrameLine)
      BY <2>1, <3>1, SubSeqProperties
    <3> QED
      BY <3>2
  <2>3. PICK R \in Seq(FrameLine) : R = SubSeq(L, l + 1, Len(L))
    <3>1. \A k \in l + 1 .. Len(L) : k \in 1 .. Len(L)
      BY <2>1
    <3>2. SubSeq(L, l + 1, Len(L)) \in Seq(FrameLine)
      BY <2>1, <3>1, SubSeqProperties
    <3> QED
      BY <3>2
  <2>4. P \o R = L
    <3>1. P \o R = SubSeq(L, 1, Len(L))
      BY <2>1, <2>2, <2>3, ConcatAdjacentSubSeq
    <3> QED
      BY <3>1, SubSeqFull
  <2>5. LinesUpto(i, l + 1) = F \o P
    <3>1. l + 1 - 1 = l
      BY <2>1
    <3> QED
      BY <1>4, <1>5, <1>8, <2>2, <3>1 DEF LinesUpto
  <2>6. FlatTo(i) = F \o L
    BY <1>4, <1>5, <1>8, <1>n, FlatSteps DEF Wanted
  <2>7. (F \o P) \o R = F \o (P \o R)
    <3>1. F \in Seq(FrameLine) /\ P \in Seq(FrameLine) /\ R \in Seq(FrameLine)
      BY <1>8, <2>2, <2>3
    <3> QED
      BY <3>1, InAnyOrder
  <2> QED
    BY <1>7, <2>4, <2>5, <2>6, <2>7
<1>10. PICK r \in Seq(FrameLine) : FlatTo(i) = Append(lines, L[l]) \o r
  BY <1>9
<1>11. PICK s \in Seq(FrameLine) : FlatTo(m) = FlatTo(i) \o s
  <2>1. i \in 0 .. N /\ m \in i .. N
    BY <1>6
  <2> QED
    BY <1>n, <2>1, FlatGrows
<1>12. FlatTo(m) = Append(lines, L[l]) \o (r \o s) /\ r \o s \in Seq(FrameLine)
  <2>1. Append(lines, L[l]) \in Seq(FrameLine)
    BY <1>7, AppendProperties
  <2>2. (Append(lines, L[l]) \o r) \o s = Append(lines, L[l]) \o (r \o s)
    <3>1. PICK u \in Seq(FrameLine) : u = Append(lines, L[l])
      BY <2>1
    <3>2. (u \o r) \o s = u \o (r \o s)
      <4>1. u \in Seq(FrameLine) /\ r \in Seq(FrameLine) /\ s \in Seq(FrameLine)
        BY <3>1, <1>10, <1>11
      <4> QED
        BY <4>1, ConcatAssociative, SMTT(30)
    <3> QED
      BY <3>1, <3>2
  <2>3. r \o s \in Seq(FrameLine)
    BY ConcatProperties
  <2> QED
    BY <1>10, <1>11, <2>2, <2>3
<1>13. /\ Frames!IsStrictPrefix(lines, FlatTo(m))
       /\ SubSeq(FlatTo(m), 1, Len(lines) + 1) = Append(lines, L[l])
  BY <1>7, <1>12, FrontOfLonger
<1>14. Frames!BytesOf(Append(lines, L[l])) = Frames!BytesOf(lines) + (L[l].len + 1)
  BY <1>7, BytesOfLines
<1> QED
  BY <1>1, <1>5, <1>13, <1>14

\* The invariant says what the property says.
LEMMA AnswerInvSays == FramesInv /\ AnswerInv => Frames!AnswerIsWhole
<1> SUFFICES ASSUME FramesInv, AnswerInv, status = 200
             PROVE  Frames!AnswerIsWhole
  BY DEF Frames!AnswerIsWhole
<1>1. IsLog /\ limit \in Nat /\ lines \in Seq(FrameLine) /\ IF truncated THEN IsCut ELSE IsWhole
  BY DEF FramesInv, AnswerInv
<1>2. CASE truncated
  BY <1>1, <1>2, CutAnswer DEF Frames!AnswerIsWhole
<1>3. CASE ~truncated
  BY <1>1, <1>3, WholeAnswer DEF Frames!AnswerIsWhole
<1> QED
  BY <1>2, <1>3

\* A log is given only when it is whole, or marked as truncated after the longest
\* beginning that fits, whatever the frames, where the connection ends and whenever
\* the deadline passes.
THEOREM AnswersAreWhole == Frames!Spec => [](Frames!AnswerIsWhole)
<1>1. Frames!Init => FramesInv /\ AnswerInv
  BY InitFramesInv, InitAnswerInv
<1>2. FramesInv /\ AnswerInv /\ [Frames!Next]_(Frames!vars) => (FramesInv /\ AnswerInv)'
  BY NextFramesInv, NextAnswerInv
<1> QED
  BY <1>1, <1>2, AnswerInvSays, PTL DEF Frames!Spec

\* Answers are whole, in the behaviours that the run checks.
THEOREM AnswersAreWholeInParts == PartsSpec => []AnswerIsWhole
<1> DEFINE Inv == part = "frames" => FramesInv /\ AnswerInv
<1>1. PartsInit => Inv
  BY InitFramesInv, InitAnswerInv DEF PartsInit
<1>2. Inv /\ [PartsNext]_partsVars => Inv'
  <2> SUFFICES ASSUME part = "frames" => FramesInv /\ AnswerInv,
                      [PartsNext]_partsVars, part' = "frames"
               PROVE  FramesInv' /\ AnswerInv'
    OBVIOUS
  <2>1. FramesInv /\ AnswerInv /\ [Frames!Next]_(Frames!vars)
    BY DEF PartsNext, partsVars, framesVars, Frames!vars, Frames!sourceVars, Frames!resultVars
  <2> QED
    BY <2>1, NextFramesInv, NextAnswerInv
<1>3. Inv => AnswerIsWhole
  BY AnswerInvSays DEF AnswerIsWhole
<1> QED
  BY <1>1, <1>2, <1>3, PTL DEF PartsSpec

-----------------------------------------------------------------------------
(* The check of an image for an update (VersionCheck)                       *)

\* The inductive invariant: what the image and the answers are, and what the
\* record says once there is one.
VersionInv ==
    /\ tag \in Tags
    /\ listing # Failed =>
           \E n \in Nat : listing \in [1 .. n -> Tags]
    /\ inspected \in Digests \cup {Failed}
    /\ Version!UpdateMeansNewer

\* It holds at first.
LEMMA InitVersionInv == Version!Init => VersionInv
<1> SUFFICES ASSUME Version!Init PROVE VersionInv
  OBVIOUS
<1>1. listing # Failed => \E n \in 0 .. MaxTags : listing \in [1 .. n -> Tags]
  BY DEF Version!Init
<1> QED
  BY <1>1 DEF Version!Init, VersionInv, Version!UpdateMeansNewer

\* In a sequence of versions of which none is above the next, the last one is
\* the highest.
LEMMA LastIsHighest ==
  ASSUME NEW n \in Nat, NEW s, \A i \in 1 .. n : s[i].rank \in Nat,
         \A i \in 1 .. n - 1 : ~(s[i + 1].rank < s[i].rank), NEW j \in 1 .. n
  PROVE  s[j].rank <= s[n].rank
<1> DEFINE S == {d \in Nat : d < n => s[n - d].rank <= s[n].rank}
<1>1. 0 \in S
  OBVIOUS
<1>2. ASSUME NEW d \in Nat, d \in S
      PROVE  d + 1 \in S
  <2> SUFFICES ASSUME d + 1 < n
               PROVE  s[n - (d + 1)].rank <= s[n].rank
    OBVIOUS
  <2>1. PICK i \in 1 .. n - 1 : i = n - (d + 1) /\ i + 1 = n - d /\ i \in 1 .. n /\ i + 1 \in 1 .. n
    OBVIOUS
  <2>2. s[i + 1].rank <= s[n].rank
    BY <1>2, <2>1
  <2>3. s[i].rank \in Nat /\ s[i + 1].rank \in Nat /\ s[n].rank \in Nat
    BY <2>1
  <2>4. ~(s[i + 1].rank < s[i].rank)
    BY <2>1
  <2> QED
    BY <2>1, <2>2, <2>3, <2>4
<1>3. Nat \subseteq S
  <2> HIDE DEF S
  <2> QED
    BY <1>1, <1>2, SetInduction
<1>4. n - j \in Nat /\ n - j < n /\ n - (n - j) = j
  OBVIOUS
<1> QED
  BY <1>3, <1>4

\* To count is the same in the instance.
LEMMA SameCardinality == ASSUME NEW S PROVE Version!Cardinality(S) = Cardinality(S)
  BY DEF Version!Cardinality, Cardinality

\* A latest tag is one of the listing, and no version of the listing is above it.
LEMMA LatestIsHighest ==
  ASSUME VersionInv, Version!SemanticTags # {}, NEW latest \in Version!LatestTags
  PROVE  /\ listing # Failed
         /\ latest \in Version!Range(listing)
         /\ latest.rank \in Nat /\ latest \in Tags
         /\ \A r \in Version!RemoteRanks : r <= latest.rank
<1> DEFINE R == Version!RemoteTagList
           P == Version!SemanticTags
<1>1. listing # Failed /\ R = listing
  <2>1. R # <<>>
    BY DEF Version!SemanticTags
  <2> QED
    BY <2>1 DEF Version!RemoteTagList
<1>2. PICK m \in Nat : listing \in [1 .. m -> Tags]
  BY <1>1 DEF VersionInv
<1>3. P \in SUBSET (1 .. m) /\ P = {i \in 1 .. m : listing[i].rank > 0}
  BY <1>1, <1>2 DEF Version!SemanticTags, Version!IsSemantic
<1>4. PICK n \in Nat \ {0} : n = Version!Cardinality(P)
  <2>1. IsFiniteSet(1 .. m)
    BY FS_Interval
  <2>2. IsFiniteSet(P)
    BY <1>3, <2>1, FS_Subset
  <2>3. Cardinality(P) \in Nat /\ Cardinality(P) # 0
    BY <2>2, FS_CardinalityType, FS_EmptySet
  <2> QED
    BY <2>3, SameCardinality
<1>s. PICK s \in Version!SortedTags : latest = Version!Last(s)
  BY DEF Version!LatestTags
<1>p. PICK p \in Version!Bijection(1 .. Version!Cardinality(P), P) :
           s = [i \in 1 .. Version!Cardinality(P) |-> R[p[i]]]
  BY DEF Version!SortedTags
<1>5. /\ p \in Version!Bijection(1 .. n, P) /\ s = [i \in 1 .. n |-> listing[p[i]]]
      /\ Version!InOrder(s)
  <2>1. Version!InOrder(s)
    BY DEF Version!SortedTags
  <2> HIDE DEF R, P
  <2> QED
    BY <1>1, <1>4, <1>p, <2>1
<1>6. p \in [1 .. n -> P] /\ \A i \in P : \E j \in 1 .. n : p[j] = i
  BY <1>5 DEF Version!Bijection, Version!Injection, Version!Surjection
<1>7. Len(s) = n /\ n \in 1 .. n
  BY <1>5
<1>8. \A i \in 1 .. n : s[i] = listing[p[i]] /\ p[i] \in 1 .. m /\ s[i] \in Tags /\ s[i].rank \in Nat
  BY <1>2, <1>3, <1>5, <1>6, VersionAssumption
<1>9. latest = s[n] /\ \A i \in 1 .. n - 1 : ~(s[i + 1].rank < s[i].rank)
  BY <1>s, <1>5, <1>7 DEF Version!InOrder, Version!Last, Version!LessThan
<1>10. ASSUME NEW r \in Version!RemoteRanks
       PROVE  r <= latest.rank
  <2>1. PICK i \in 1 .. m : r = listing[i].rank /\ listing[i].rank > 0
    BY <1>2 DEF Version!RemoteRanks, Version!Range, Version!IsSemantic
  <2>2. PICK j \in 1 .. n : p[j] = i
    BY <1>3, <1>6, <2>1
  <2>3. s[j].rank = r
    BY <1>8, <2>1, <2>2
  <2>4. s[j].rank <= s[n].rank
    BY <1>8, <1>9, LastIsHighest
  <2> QED
    BY <1>9, <2>3, <2>4
<1>11. p[n] \in DOMAIN listing /\ latest = listing[p[n]] /\ latest \in Tags /\ latest.rank \in Nat
  BY <1>2, <1>7, <1>8, <1>9
<1>12. latest \in Version!Range(listing)
  BY <1>11 DEF Version!Range
<1> QED
  BY <1>1, <1>10, <1>11, <1>12

\* Each step keeps it.
LEMMA NextVersionInv == VersionInv /\ [Version!Next]_(Version!vars) => VersionInv'
<1> SUFFICES ASSUME VersionInv, [Version!Next]_(Version!vars)
             PROVE  VersionInv'
  OBVIOUS
<1>1. UNCHANGED <<tag, digest, listing, inspected>>
  BY DEF Version!Next, Version!vars, Version!imageVars, Version!CheckSemantic,
     Version!CheckDigest, Version!Expires
<1>2. CASE check' # "done"
  BY <1>1, <1>2 DEF VersionInv, Version!UpdateMeansNewer
<1>3. CASE Version!CheckSemantic /\ check' = "done"
  <2>1. PICK latest \in Version!LatestTags :
           /\ Version!SemanticTags # {}
           /\ Version!Compare(tag, latest) # 1
           /\ record' = [updateStatus |-> IF Version!Compare(tag, latest) = -1 THEN 1 ELSE 0,
                         remoteVersion |-> latest.name]
    BY <1>3 DEF Version!CheckSemantic
  <2>2. /\ listing # Failed /\ latest \in Version!Range(listing)
        /\ latest.rank \in Nat /\ latest \in Tags /\ tag.rank \in Nat
        /\ \A r \in Version!RemoteRanks : r <= latest.rank
    BY <2>1, LatestIsHighest, VersionAssumption DEF VersionInv
  <2>3. latest.name \notin Digests
    BY <2>2, VersionAssumption
  <2>4. latest.rank >= tag.rank /\ record'.updateStatus = (IF latest.rank > tag.rank THEN 1 ELSE 0)
    BY <2>1, <2>2 DEF Version!Compare, Version!LessThan
  <2>5. Version!UpdateMeansNewer'
    BY <1>1, <2>1, <2>2, <2>3, <2>4
       DEF Version!UpdateMeansNewer, Version!RemoteRanks, Version!Range, Version!IsSemantic
  <2> QED
    BY <1>1, <2>5 DEF VersionInv
<1>4. CASE Version!CheckDigest /\ check' = "done"
  <2>1. /\ inspected # Failed
        /\ record' = [updateStatus |-> IF digest = inspected THEN 0 ELSE 1,
                      remoteVersion |-> inspected]
    BY <1>4 DEF Version!CheckDigest
  <2>2. Version!UpdateMeansNewer'
    BY <1>1, <2>1 DEF VersionInv, Version!UpdateMeansNewer
  <2> QED
    BY <1>1, <2>2 DEF VersionInv
<1>5. CASE UNCHANGED <<check, record>>
  BY <1>1, <1>5 DEF VersionInv, Version!UpdateMeansNewer, Version!RemoteRanks, Version!Range,
     Version!IsSemantic
<1> QED
  BY <1>2, <1>3, <1>4, <1>5 DEF Version!Next, Version!Expires, Version!vars

\* A check names a version that no version of the registry exceeds, or the
\* registry's digest, and says rightly whether it is newer than the image's own.
THEOREM UpdateIsNewer == Version!Spec => [](Version!UpdateMeansNewer)
<1>1. VersionInv => Version!UpdateMeansNewer
  BY DEF VersionInv
<1> QED
  BY <1>1, InitVersionInv, NextVersionInv, PTL DEF Version!Spec

\* The same, in the behaviours that the run checks.
THEOREM UpdateIsNewerInParts == PartsSpec => []UpdateMeansNewer
<1> DEFINE Inv == part = "version" => VersionInv
<1>1. PartsInit => Inv
  BY InitVersionInv DEF PartsInit
<1>2. Inv /\ [PartsNext]_partsVars => Inv'
  <2> SUFFICES ASSUME part = "version" => VersionInv, [PartsNext]_partsVars, part' = "version"
               PROVE  VersionInv'
    OBVIOUS
  <2>1. VersionInv /\ [Version!Next]_(Version!vars)
    BY DEF PartsNext, partsVars, versionVars, Version!vars, Version!imageVars
  <2> QED
    BY <2>1, NextVersionInv
<1>3. Inv => UpdateMeansNewer
  BY DEF VersionInv, UpdateMeansNewer
<1> QED
  BY <1>1, <1>2, <1>3, PTL DEF PartsSpec

-----------------------------------------------------------------------------
(* The lines the viewer keeps (LogView)                                     *)

\* A line that is kept.
KeptLine == [num : Nat, kind : Kinds, tsMs : Nat, match : BOOLEAN, shown : BOOLEAN,
             ctxN : BOOLEAN, h : Nat, est : Nat]

\* What is known of the elements of a sequence of such lines.
LEMMA KeptElements ==
  ASSUME NEW s \in Seq(KeptLine)
  PROVE  /\ Len(s) \in Nat /\ DOMAIN s = 1 .. Len(s)
         /\ \A i \in 1 .. Len(s) :
                /\ s[i] \in KeptLine
                /\ s[i].num \in Nat /\ s[i].kind \in Kinds /\ s[i].tsMs \in Nat
                /\ s[i].match \in BOOLEAN /\ s[i].shown \in BOOLEAN /\ s[i].ctxN \in BOOLEAN
                /\ s[i].h \in Nat /\ s[i].est \in Nat
                /\ Kept!HeightIn(s, i) \in Nat
<1>1. \A i \in 1 .. Len(s) : s[i] \in KeptLine
  BY ElementOfSeq
<1> QED
  BY <1>1, LenProperties DEF KeptLine, Kept!HeightIn, Kept!VpSlotH

\* The sums of the heights, as a relation instead of a recursive function.
IsCsum(sums, ls) ==
    /\ sums \in [0 .. Len(ls) -> Nat]
    /\ sums[0] = 0
    /\ \A i \in 1 .. Len(ls) : sums[i] = sums[i - 1] + Kept!HeightIn(ls, i)

\* rebuildCsum gives these sums, and there are no others.
LEMMA RebuiltIsCsum ==
  ASSUME NEW ls \in Seq(KeptLine)
  PROVE  /\ IsCsum(Kept!RebuiltCsum(ls), ls)
         /\ \A sums : IsCsum(sums, ls) => sums = Kept!RebuiltCsum(ls)
<1> DEFINE n == Len(ls)
           f == [i \in 1 .. n |-> Kept!HeightIn(ls, i)]
           c == [i \in 0 .. n |-> SumOf(f, 1 .. i)]
           Rec(g) == [i \in 0 .. n |-> IF i = 0 THEN 0 ELSE g[i - 1] + Kept!HeightIn(ls, i)]
           r == Kept!RebuiltCsum(ls)
<1>1. n \in Nat /\ f \in [1 .. n -> Nat] /\ \A i \in 1 .. n : f[i] = Kept!HeightIn(ls, i)
  BY KeptElements
<1>2. c = Rec(c)
  <2> HIDE DEF f
  <2>1. /\ SumOf(f, 1 .. 0) = 0
        /\ \A i \in 1 .. n : SumOf(f, 1 .. i) = SumOf(f, 1 .. i - 1) + f[i]
    BY <1>1, SumInterval
  <2>2. c[0] = 0 /\ \A i \in 0 .. n : i # 0 => c[i] = c[i - 1] + Kept!HeightIn(ls, i)
    BY <1>1, <2>1
  <2> HIDE DEF n
  <2> QED
    BY <2>2 DEF c
<1>3. \E g : g = Rec(g)
  <2> HIDE DEF c, Rec
  <2> QED
    BY <1>2
<1>4. r = Rec(r)
  BY <1>3 DEF Kept!RebuiltCsum
<1>5. \A i \in 1 .. n : Kept!HeightIn(ls, i) \in Nat
  BY KeptElements
<1> HIDE DEF f, c
<1>6. \A i \in 0 .. n : r[i] = IF i = 0 THEN 0 ELSE r[i - 1] + Kept!HeightIn(ls, i)
  <2> HIDE DEF r, n
  <2> QED
    BY <1>4
<1>7. DOMAIN r = 0 .. n /\ r = [i \in 0 .. n |-> r[i]]
  <2> HIDE DEF r, n
  <2> QED
    BY <1>4
<1>8. \A i \in 0 .. n : r[i] \in Nat
  <2> DEFINE S == {i \in Nat : i <= n => r[i] \in Nat}
  <2> HIDE DEF r, n
  <2>1. 0 \in S
    BY <1>1, <1>6
  <2>2. ASSUME NEW i \in Nat, i \in S PROVE i + 1 \in S
    <3> SUFFICES ASSUME i + 1 <= n PROVE r[i + 1] \in Nat
      OBVIOUS
    <3>1. i + 1 \in 0 .. n /\ i + 1 \in 1 .. n /\ i + 1 # 0 /\ i + 1 - 1 = i /\ r[i] \in Nat
      BY <1>1, <2>2
    <3>2. r[i + 1] = r[i] + Kept!HeightIn(ls, i + 1)
      BY <1>6, <3>1
    <3> QED
      BY <1>5, <3>1, <3>2
  <2>3. Nat \subseteq S
    <3> HIDE DEF S
    <3> QED
      BY <2>1, <2>2, SetInduction
  <2> QED
    BY <1>1, <2>3
<1>9. IsCsum(r, ls)
  <2> HIDE DEF r
  <2> QED
    BY <1>1, <1>6, <1>7, <1>8 DEF IsCsum
<1>10. ASSUME NEW sums, IsCsum(sums, ls)
       PROVE  sums = r
  <2> DEFINE S == {i \in Nat : i <= n => sums[i] = r[i]}
  <2> HIDE DEF r
  <2>1. 0 \in S
    BY <1>1, <1>6, <1>10 DEF IsCsum
  <2>2. ASSUME NEW i \in Nat, i \in S PROVE i + 1 \in S
    BY <1>1, <1>5, <1>6, <1>10, <2>2 DEF IsCsum
  <2>3. Nat \subseteq S
    <3> HIDE DEF S
    <3> QED
      BY <2>1, <2>2, SetInduction
  <2>4. sums = [i \in 0 .. n |-> sums[i]]
    BY <1>10 DEF IsCsum
  <2>5. \A i \in 0 .. n : sums[i] = r[i]
    BY <1>1, <2>3
  <2> QED
    BY <1>7, <2>4, <2>5
<1> QED
  BY <1>9, <1>10

\* The least element of right from lo on, or hi.
IsLeast(k, lo, hi, right) ==
    /\ k \in lo .. hi
    /\ \A j \in lo .. k - 1 : j \notin right
    /\ k < hi => k \in right

\* The functions that the recursion of Bisect defines.
BisectRange(n) == (1 .. n + 1) \X (1 .. n + 1)

Middle(p) == (p[1] + p[2]) \div 2

IsSearch(g, n, right) ==
    g = [p \in BisectRange(n) |->
            IF p[1] >= p[2] THEN p[1]
            ELSE IF Middle(p) \in right THEN g[<<p[1], Middle(p)>>]
            ELSE g[<<Middle(p) + 1, p[2]>>]]

\* A range from its two ends.
LEMMA RangeOfEnds ==
  ASSUME NEW n \in Nat, NEW lo \in 1 .. n + 1, NEW hi \in 1 .. n + 1
  PROVE  \E q \in BisectRange(n) : q = <<lo, hi>> /\ q[1] = lo /\ q[2] = hi
<1> DEFINE q == <<lo, hi>>
<1>1. q \in BisectRange(n) /\ q[1] = lo /\ q[2] = hi
  BY DEF BisectRange
<1> QED
  BY <1>1

\* Both halves of a range are ranges, and smaller.
LEMMA HalvesOfRange ==
  ASSUME NEW n \in Nat, NEW p \in BisectRange(n), p[1] < p[2]
  PROVE  /\ p[1] \in Nat /\ p[2] \in Nat /\ Middle(p) \in Nat
         /\ p[1] <= Middle(p) /\ Middle(p) < p[2]
         /\ \E q \in BisectRange(n) : /\ q = <<p[1], Middle(p)>> /\ q[1] = p[1] /\ q[2] = Middle(p)
                                      /\ q[1] <= q[2] /\ q[2] - q[1] < p[2] - p[1]
         /\ \E q \in BisectRange(n) : /\ q = <<Middle(p) + 1, p[2]>>
                                      /\ q[1] = Middle(p) + 1 /\ q[2] = p[2]
                                      /\ q[1] <= q[2] /\ q[2] - q[1] < p[2] - p[1]
<1>1. PICK lo \in 1 .. n + 1, hi \in 1 .. n + 1 : lo = p[1] /\ hi = p[2]
  BY DEF BisectRange
<1>2. PICK mid \in Nat : mid = (lo + hi) \div 2 /\ lo <= mid /\ mid < hi
  <2>1. lo < hi /\ (lo + hi) \div 2 \in Nat /\ lo <= (lo + hi) \div 2 /\ (lo + hi) \div 2 < hi
    BY <1>1
  <2> QED
    BY <2>1
<1>3. Middle(p) = mid
  BY <1>1, <1>2 DEF Middle
<1>4. mid \in 1 .. n + 1 /\ mid + 1 \in 1 .. n + 1
  BY <1>2
<1>5. PICK q \in BisectRange(n) : q = <<lo, mid>> /\ q[1] = lo /\ q[2] = mid
  BY <1>4, RangeOfEnds
<1>6. PICK r \in BisectRange(n) : r = <<mid + 1, hi>> /\ r[1] = mid + 1 /\ r[2] = hi
  BY <1>4, RangeOfEnds
<1>7. q[1] <= q[2] /\ q[2] - q[1] < p[2] - p[1] /\ r[1] <= r[2] /\ r[2] - r[1] < p[2] - p[1]
  BY <1>1, <1>2, <1>5, <1>6
<1> QED
  BY <1>1, <1>2, <1>3, <1>5, <1>6, <1>7

\* There is such a function: one for the ranges of a width gives one for those
\* that are wider by one.
LEMMA SearchExists ==
  ASSUME NEW n \in Nat, NEW right
  PROVE  \E g : IsSearch(g, n, right)
<1> DEFINE Upto(w) == {p \in BisectRange(n) : p[2] - p[1] <= w}
           Rec(g, p) == IF p[1] >= p[2] THEN p[1]
                        ELSE IF Middle(p) \in right THEN g[<<p[1], Middle(p)>>]
                        ELSE g[<<Middle(p) + 1, p[2]>>]
           Good == {w \in Nat : \E g : g = [p \in Upto(w) |-> Rec(g, p)]}
<1>f. \A p \in BisectRange(n) : p[1] \in 1 .. n + 1 /\ p[2] \in 1 .. n + 1
  BY DEF BisectRange
<1>0. 0 \in Good
  <2> DEFINE g == [p \in Upto(0) |-> p[1]]
  <2>1. \A p \in Upto(0) : p[1] >= p[2]
    BY <1>f
  <2>2. g = [p \in Upto(0) |-> Rec(g, p)]
    BY <2>1
  <2> HIDE DEF g, Rec, Upto
  <2> QED
    BY <2>2
<1>1. ASSUME NEW w \in Nat, w \in Good
      PROVE  w + 1 \in Good
  <2>1. PICK g : g = [p \in Upto(w) |-> Rec(g, p)]
    BY <1>1
  <2> DEFINE h == [p \in Upto(w + 1) |-> Rec(g, p)]
  <2>2. ASSUME NEW p \in Upto(w + 1), ~(p[1] >= p[2])
        PROVE  <<p[1], Middle(p)>> \in Upto(w) /\ <<Middle(p) + 1, p[2]>> \in Upto(w)
    <3>1. p[1] < p[2] /\ p[1] \in Nat /\ p[2] \in Nat /\ p[2] - p[1] <= w + 1
      BY <1>f, <2>2
    <3>2. PICK q \in BisectRange(n) : q = <<p[1], Middle(p)>> /\ q[2] - q[1] < p[2] - p[1]
      BY <3>1, HalvesOfRange
    <3>3. PICK r \in BisectRange(n) : r = <<Middle(p) + 1, p[2]>> /\ r[2] - r[1] < p[2] - p[1]
      BY <3>1, HalvesOfRange
    <3>4. q[2] - q[1] <= w /\ r[2] - r[1] <= w
      BY <1>f, <3>1, <3>2, <3>3
    <3> QED
      BY <3>2, <3>3, <3>4
  <2>3. ASSUME NEW p \in Upto(w)
        PROVE  h[p] = g[p]
    <3>1. p \in Upto(w + 1)
      BY <1>f
    <3> HIDE DEF Rec, Upto
    <3> QED
      BY <2>1, <3>1
  <2>4. \A p \in Upto(w + 1) : Rec(g, p) = Rec(h, p)
    <3> HIDE DEF h, Upto
    <3> QED
      BY <2>2, <2>3
  <2>5. \E h0 : h0 = [p \in Upto(w + 1) |-> Rec(h0, p)]
    <3>1. h = [p \in Upto(w + 1) |-> Rec(h, p)]
      <4> HIDE DEF Rec, Upto
      <4> QED
        BY <2>4
    <3> HIDE DEF h, Rec, Upto
    <3> QED
      BY <3>1
  <2>6. w + 1 \in Nat
    OBVIOUS
  <2> HIDE DEF Rec, Upto
  <2> QED
    BY <2>5, <2>6
<1>2. Nat \subseteq Good
  <2> HIDE DEF Good
  <2> QED
    BY <1>0, <1>1, SetInduction
<1>3. Upto(n) = BisectRange(n)
  BY <1>f
<1>4. PICK g : g = [p \in Upto(n) |-> Rec(g, p)]
  BY <1>2
<1> HIDE DEF Upto
<1>5. IsSearch(g, n, right)
  BY <1>3, <1>4 DEF IsSearch
<1> QED
  BY <1>5

\* Where right begins, or ends lo .. hi: the place is in right, and the one
\* before is not.
IsEdge(k, lo, hi, right) ==
    /\ k \in lo .. hi
    /\ k > lo => k - 1 \notin right
    /\ k < hi => k \in right

\* Bisection finds such a place whatever right is.
LEMMA BisectIsEdge ==
  ASSUME NEW n \in Nat, NEW right
  PROVE  IsEdge(Kept!Bisect(n, right), 1, n + 1, right)
<1>1. \E g : IsSearch(g, n, right) /\ Kept!Bisect(n, right) = g[<<1, n + 1>>]
  <2> DEFINE D == (1 .. n + 1) \X (1 .. n + 1)
             Mid(p) == (p[1] + p[2]) \div 2
             Rec(g) == [p \in D |-> IF p[1] >= p[2] THEN p[1]
                                    ELSE IF Mid(p) \in right THEN g[<<p[1], Mid(p)>>]
                                    ELSE g[<<Mid(p) + 1, p[2]>>]]
  <2>1. \E g : g = Rec(g)
    BY SearchExists DEF IsSearch, BisectRange, Middle
  <2>2. \E g : g = Rec(g) /\ Kept!Bisect(n, right) = g[<<1, n + 1>>]
    BY <2>1 DEF Kept!Bisect
  <2>3. \A g : g = Rec(g) => IsSearch(g, n, right)
    BY DEF IsSearch, BisectRange, Middle
  <2> HIDE DEF Rec
  <2> QED
    BY <2>2, <2>3
<1>2. PICK g : IsSearch(g, n, right) /\ Kept!Bisect(n, right) = g[<<1, n + 1>>]
  BY <1>1
<1>3. ASSUME NEW p \in BisectRange(n)
      PROVE  /\ p[1] >= p[2] => g[p] = p[1]
             /\ ~(p[1] >= p[2]) /\ Middle(p) \in right => g[p] = g[<<p[1], Middle(p)>>]
             /\ ~(p[1] >= p[2]) /\ Middle(p) \notin right => g[p] = g[<<Middle(p) + 1, p[2]>>]
  BY <1>2 DEF IsSearch
<1>f. \A p \in BisectRange(n) : p[1] \in Nat /\ p[2] \in Nat
  BY DEF BisectRange
<1> DEFINE S == {w \in Nat : \A p \in BisectRange(n) : p[1] <= p[2] /\ p[2] - p[1] <= w
                                => IsEdge(g[p], p[1], p[2], right)}
<1>4. ASSUME NEW p \in BisectRange(n), p[1] = p[2]
      PROVE  IsEdge(g[p], p[1], p[2], right)
  <2>1. g[p] = p[1] /\ p[1] \in Nat
    <3>1. p[1] \in Nat /\ p[2] \in Nat /\ p[1] >= p[2]
      BY <1>4, <1>f
    <3> QED
      BY <1>3, <3>1
  <2>2. IsEdge(p[1], p[1], p[2], right)
    BY <1>4, <1>f DEF IsEdge
  <2> QED
    BY <2>1, <2>2
<1>5. 0 \in S
  <2> SUFFICES ASSUME NEW p \in BisectRange(n), p[1] <= p[2], p[2] - p[1] <= 0
               PROVE  IsEdge(g[p], p[1], p[2], right)
    OBVIOUS
  <2>1. p[1] = p[2]
    BY <1>f
  <2> QED
    BY <1>4, <2>1
<1>6. ASSUME NEW w \in Nat, w \in S
      PROVE  w + 1 \in S
  <2> SUFFICES ASSUME NEW p \in BisectRange(n), p[1] <= p[2], p[2] - p[1] <= w + 1
               PROVE  IsEdge(g[p], p[1], p[2], right)
    OBVIOUS
  <2>1. CASE p[1] = p[2]
    BY <1>4, <2>1
  <2>2. CASE p[1] < p[2]
    <3>1. /\ p[1] \in Nat /\ p[2] \in Nat /\ Middle(p) \in Nat
          /\ p[1] <= Middle(p) /\ Middle(p) < p[2] /\ ~(p[1] >= p[2])
      BY <2>2, <1>f, HalvesOfRange
    <3>2. CASE Middle(p) \in right
      <4>1. PICK q \in BisectRange(n) :
               /\ q = <<p[1], Middle(p)>> /\ q[1] = p[1] /\ q[2] = Middle(p)
               /\ q[1] <= q[2] /\ q[2] - q[1] < p[2] - p[1]
        BY <2>2, HalvesOfRange
      <4>2. q[2] - q[1] <= w
        BY <1>f, <4>1
      <4>3. IsEdge(g[q], p[1], Middle(p), right)
        BY <1>6, <4>1, <4>2
      <4>4. g[p] = g[q]
        BY <1>3, <3>1, <3>2, <4>1
      <4> QED
        BY <3>1, <3>2, <4>3, <4>4 DEF IsEdge
    <3>3. CASE Middle(p) \notin right
      <4>1. PICK q \in BisectRange(n) :
               /\ q = <<Middle(p) + 1, p[2]>> /\ q[1] = Middle(p) + 1 /\ q[2] = p[2]
               /\ q[1] <= q[2] /\ q[2] - q[1] < p[2] - p[1]
        BY <2>2, HalvesOfRange
      <4>2. q[2] - q[1] <= w
        BY <1>f, <4>1
      <4>3. IsEdge(g[q], Middle(p) + 1, p[2], right)
        BY <1>6, <4>1, <4>2
      <4>4. g[p] = g[q]
        BY <1>3, <3>1, <3>3, <4>1
      <4>5. PICK k \in Nat : k = g[q] /\ k >= Middle(p) + 1 /\ k <= p[2]
        BY <3>1, <4>3 DEF IsEdge
      <4>6. k - 1 \notin right
        <5>1. CASE k > Middle(p) + 1
          BY <4>3, <4>5, <5>1 DEF IsEdge
        <5>2. CASE k = Middle(p) + 1
          <6>1. k - 1 = Middle(p)
            BY <3>1, <5>2
          <6> QED
            BY <3>3, <6>1
        <5> QED
          BY <3>1, <4>5, <5>1, <5>2
      <4>7. k < p[2] => k \in right
        BY <4>3, <4>5 DEF IsEdge
      <4> QED
        BY <3>1, <4>4, <4>5, <4>6, <4>7 DEF IsEdge
    <3> QED
      BY <3>2, <3>3
  <2> QED
    BY <1>f, <2>1, <2>2
<1>7. Nat \subseteq S
  <2> HIDE DEF S
  <2> QED
    BY <1>5, <1>6, SetInduction
<1>8. PICK all \in BisectRange(n) : all = <<1, n + 1>> /\ all[1] = 1 /\ all[2] = n + 1
  <2>1. 1 \in 1 .. n + 1 /\ n + 1 \in 1 .. n + 1
    OBVIOUS
  <2> QED
    BY <2>1, RangeOfEnds
<1>9. IsEdge(g[all], all[1], all[2], right)
  <2>1. n \in S /\ all[1] <= all[2] /\ all[2] - all[1] <= n
    BY <1>7, <1>8
  <2> QED
    BY <2>1
<1> QED
  BY <1>2, <1>8, <1>9

\* Bisection finds the least index when right holds every index from some one on.
LEMMA BisectIsLeast ==
  ASSUME NEW n \in Nat, NEW right,
         \A i, j \in 1 .. n : i <= j /\ i \in right => j \in right
  PROVE  IsLeast(Kept!Bisect(n, right), 1, n + 1, right)
<1>1. PICK k : k = Kept!Bisect(n, right) /\ IsEdge(k, 1, n + 1, right)
  BY BisectIsEdge
<1>2. ASSUME NEW j \in 1 .. k - 1 PROVE j \notin right
  <2>1. k \in 1 .. n + 1 /\ k > 1 /\ k - 1 \notin right
    BY <1>1, <1>2 DEF IsEdge
  <2>2. j \in 1 .. n /\ k - 1 \in 1 .. n /\ j <= k - 1
    BY <1>2, <2>1
  <2> QED
    BY <2>1, <2>2
<1> QED
  BY <1>1, <1>2 DEF IsEdge, IsLeast

-----------------------------------------------------------------------------

\* Lines are numbered from the first that is kept to the last that was added.
NumbersFrom(ls, total) ==
    /\ Len(ls) <= total
    /\ \A i \in 1 .. Len(ls) : ls[i].num = i + (total - Len(ls))

\* A neighbour of the line matches the filter.
NearMatch(ls, i) == (i > 1 /\ ls[i - 1].match) \/ (i < Len(ls) /\ ls[i + 1].match)

\* The marks of the lines agree with each other: this holds also while typed text
\* waits for its timer, when they are not those of the filter.
MarksAgree(ls, c) ==
    \A i \in 1 .. Len(ls) :
        /\ ls[i].shown = (ls[i].match \/ ls[i].ctxN)
        /\ ls[i].ctxN => c /\ ~ls[i].match /\ (NearMatch(ls, i) \/ (i = 1 /\ ls[i].num > 1))
        /\ c /\ ~ls[i].match /\ NearMatch(ls, i) => ls[i].ctxN

\* The inductive invariant of the kept lines.
KeptInv ==
    /\ query \in BOOLEAN /\ ctx \in BOOLEAN /\ wrapped \in BOOLEAN /\ filterTimer \in BOOLEAN
    /\ kept \in Seq(KeptLine) /\ totalLines \in Nat /\ shownLines \in Nat
    /\ Len(kept) <= KeepLines /\ (Len(kept) < KeepLines => totalLines = Len(kept))
    /\ NumbersFrom(kept, totalLines)
    /\ IsCsum(csum, kept)
    /\ tlTimes = [i \in 1 .. Len(kept) |-> kept[i].tsMs]
    /\ MarksAgree(kept, ctx)
    /\ ~filterTimer => \A i \in 1 .. Len(kept) : kept[i].match = (query => kept[i].kind.hit)
    /\ totalLines = Len(kept) => shownLines = Kept!NumShown(kept)
    /\ Kept!RowsShowTheirLines

-----------------------------------------------------------------------------

\* What a splice leaves of a sequence.
LEMMA SplicedElements ==
  ASSUME NEW S, NEW s \in Seq(S), NEW cut \in 0 .. Len(s)
  PROVE  /\ Kept!Spliced(s, cut) \in Seq(S)
         /\ Len(Kept!Spliced(s, cut)) = Len(s) - cut
         /\ \A i \in 1 .. Len(s) - cut : Kept!Spliced(s, cut)[i] = s[i + cut]
<1>1. Len(s) \in Nat /\ cut \in Nat
  BY LenProperties
<1>2. cut + 1 \in 1 .. Len(s) + 1 /\ Len(s) \in cut .. Len(s)
  BY <1>1
<1>3. \A i \in cut + 1 .. Len(s) : s[i] \in S
  BY <1>1, ElementOfSeq
<1>4. /\ SubSeq(s, cut + 1, Len(s)) \in Seq(S)
      /\ Len(SubSeq(s, cut + 1, Len(s))) = IF cut + 1 <= Len(s) THEN Len(s) - (cut + 1) + 1 ELSE 0
      /\ \A i \in 1 .. Len(s) - (cut + 1) + 1 : SubSeq(s, cut + 1, Len(s))[i] = s[cut + 1 + i - 1]
  BY <1>1, <1>2, <1>3, SubSeqProperties
<1>5. \A i \in 1 .. Len(s) - cut : i \in 1 .. Len(s) - (cut + 1) + 1 /\ cut + 1 + i - 1 = i + cut
  BY <1>1
<1> QED
  BY <1>1, <1>2, <1>4, <1>5 DEF Kept!Spliced

\* The sums of heights only grow.
LEMMA CsumGrows ==
  ASSUME NEW ls \in Seq(KeptLine), NEW sums, IsCsum(sums, ls)
  PROVE  \A i, j \in 0 .. Len(ls) : i <= j => sums[i] <= sums[j]
<1> DEFINE n == Len(ls)
           S == {d \in Nat : \A i \in 0 .. n : i + d <= n => sums[i] <= sums[i + d]}
<1>1. n \in Nat /\ \A i \in 0 .. n : sums[i] \in Nat
  BY KeptElements DEF IsCsum
<1>2. ASSUME NEW i \in 0 .. n, i + 1 <= n
      PROVE  sums[i] <= sums[i + 1]
  <2>1. i + 1 \in 1 .. n /\ i + 1 - 1 = i
    BY <1>1, <1>2
  <2>2. sums[i + 1] = sums[i] + Kept!HeightIn(ls, i + 1) /\ Kept!HeightIn(ls, i + 1) \in Nat
    BY <2>1, KeptElements DEF IsCsum
  <2> QED
    BY <1>1, <2>2
<1> HIDE DEF n
<1>3. 0 \in S
  BY <1>1
<1>4. ASSUME NEW d \in Nat, d \in S PROVE d + 1 \in S
  <2> SUFFICES ASSUME NEW i \in 0 .. n, i + (d + 1) <= n PROVE sums[i] <= sums[i + (d + 1)]
    OBVIOUS
  <2>1. i + d \in 0 .. n /\ i + d + 1 \in 0 .. n /\ i + d + 1 <= n /\ i + (d + 1) = i + d + 1
    BY <1>1
  <2>2. sums[i] <= sums[i + d] /\ sums[i + d] <= sums[i + d + 1]
    BY <1>2, <1>4, <2>1
  <2> QED
    BY <1>1, <2>1, <2>2
<1>5. Nat \subseteq S
  <2> HIDE DEF S
  <2> QED
    BY <1>3, <1>4, SetInduction
<1>6. ASSUME NEW i \in 0 .. n, NEW j \in 0 .. n, i <= j PROVE sums[i] <= sums[j]
  <2>1. j - i \in Nat /\ i + (j - i) = j /\ i + (j - i) <= n
    BY <1>1, <1>6
  <2>2. j - i \in S
    BY <1>5, <2>1
  <2> QED
    BY <2>1, <2>2
<1> QED
  BY <1>6 DEF n

\* Dropping the oldest lines and what they add to the sums leaves the sums of
\* the rest.
LEMMA CsumOfSpliced ==
  ASSUME NEW ls \in Seq(KeptLine), NEW sums, IsCsum(sums, ls), NEW cut \in 0 .. Len(ls)
  PROVE  IsCsum(Kept!CsumSpliced(sums, Len(ls), cut), Kept!Spliced(ls, cut))
<1> DEFINE n == Len(ls)
           t == Kept!Spliced(ls, cut)
           c == Kept!CsumSpliced(sums, n, cut)
<1>1. n \in Nat /\ cut \in Nat /\ cut <= n /\ \A i \in 0 .. n : sums[i] \in Nat
  BY KeptElements DEF IsCsum
<1>2. t \in Seq(KeptLine) /\ Len(t) = n - cut /\ \A i \in 1 .. n - cut : t[i] = ls[i + cut]
  BY SplicedElements
<1>3. \A i \in 0 .. n - cut : sums[i + cut] - sums[cut] \in Nat
  <2>1. \A i \in 0 .. n - cut : i + cut \in 0 .. n /\ cut \in 0 .. n /\ cut <= i + cut
    BY <1>1
  <2>2. \A i \in 0 .. n - cut : sums[cut] <= sums[i + cut]
    BY <2>1, CsumGrows
  <2> QED
    BY <1>1, <2>1, <2>2
<1>4. c = [i \in 0 .. n - cut |-> sums[i + cut] - sums[cut]]
  BY DEF Kept!CsumSpliced
<1> HIDE DEF n, t, c
<1>5. c \in [0 .. Len(t) -> Nat] /\ c[0] = 0
  <2>1. c \in [0 .. n - cut -> Nat]
    BY <1>3, <1>4
  <2>2. 0 \in 0 .. n - cut /\ 0 + cut = cut /\ cut \in 0 .. n
    BY <1>1
  <2>3. c[0] = sums[cut] - sums[cut]
    BY <1>4, <2>2
  <2> QED
    BY <1>1, <1>2, <2>1, <2>2, <2>3
<1>6. ASSUME NEW i \in 1 .. Len(t)
      PROVE  c[i] = c[i - 1] + Kept!HeightIn(t, i)
  <2>1. i \in 0 .. n - cut /\ i - 1 \in 0 .. n - cut /\ i + cut \in 1 .. n /\ i - 1 + cut = i + cut - 1
    BY <1>1, <1>2
  <2>2. sums[i + cut] = sums[i + cut - 1] + Kept!HeightIn(ls, i + cut)
    BY <2>1 DEF IsCsum, n
  <2>3. Kept!HeightIn(t, i) = Kept!HeightIn(ls, i + cut)
    BY <1>2, <2>1 DEF Kept!HeightIn
  <2>4. Kept!HeightIn(ls, i + cut) \in Nat
    BY <2>1, KeptElements DEF n
  <2>5. c[i] = sums[i + cut] - sums[cut] /\ c[i - 1] = sums[i + cut - 1] - sums[cut]
    BY <1>4, <2>1
  <2>6. sums[i + cut] \in Nat /\ sums[i + cut - 1] \in Nat /\ sums[cut] \in Nat
    BY <1>1, <2>1
  <2> QED
    BY <2>2, <2>3, <2>4, <2>5, <2>6
<1> QED
  BY <1>5, <1>6 DEF IsCsum, n, t, c

-----------------------------------------------------------------------------
(* A line arrives                                                           *)

\* What an append makes of a sequence.
LEMMA AppendElements ==
  ASSUME NEW S, NEW s \in Seq(S), NEW e \in S
  PROVE  /\ Append(s, e) \in Seq(S) /\ Len(Append(s, e)) = Len(s) + 1
         /\ Append(s, e)[Len(s) + 1] = e
         /\ \A i \in 1 .. Len(s) : Append(s, e)[i] = s[i]
  BY AppendProperties

\* What addLine makes of the arguments, and of the lines before it drops any.
LEMMA PushedLines ==
  ASSUME KeptInv, NEW kind \in Kinds, NEW tsMs \in Nat,
         NEW new, new = Kept!NewLine(kind, tsMs),
         NEW n, n = Len(kept),
         NEW flip, flip = Kept!Flipped(new.match),
         NEW ls, ls = Kept!Pushed(new)
  PROVE  /\ new \in KeptLine
         /\ new.num = totalLines + 1 /\ new.kind = kind /\ new.tsMs = tsMs
         /\ new.match = (query => kind.hit)
         /\ new.ctxN = (ctx /\ ~new.match /\ n > 0 /\ kept[n].match)
         /\ new.shown = (new.match \/ new.ctxN)
         /\ flip \in BOOLEAN
         /\ flip = (ctx /\ new.match /\ n > 0 /\ ~kept[n].match /\ ~kept[n].shown)
         /\ ls \in Seq(KeptLine) /\ Len(ls) = n + 1 /\ ls[n + 1] = new
         /\ \A i \in 1 .. n :
                /\ ls[i].num = kept[i].num /\ ls[i].kind = kept[i].kind
                /\ ls[i].tsMs = kept[i].tsMs /\ ls[i].match = kept[i].match
                /\ ls[i].h = kept[i].h /\ ls[i].est = kept[i].est
                /\ ls[i].shown = (kept[i].shown \/ (flip /\ i = n))
                /\ ls[i].ctxN = (kept[i].ctxN \/ (flip /\ i = n))
<1> DEFINE ok == Kept!LineMatches(kind)
           near == Kept!IsContext(ok)
<1>1. /\ n \in Nat /\ totalLines \in Nat /\ query \in BOOLEAN /\ ctx \in BOOLEAN
      /\ wrapped \in BOOLEAN /\ kept \in Seq(KeptLine) /\ (kept = <<>> <=> n = 0)
      /\ \A i \in 1 .. n : kept[i].match \in BOOLEAN /\ kept[i].shown \in BOOLEAN
  BY KeptElements, EmptySeq DEF KeptInv
<1>2. kind.hit \in BOOLEAN /\ kind.guess \in Nat
  BY KeptAssumption
<1>3. /\ ok = (query => kind.hit) /\ ok \in BOOLEAN
      /\ near = (ctx /\ ~ok /\ n > 0 /\ kept[n].match) /\ near \in BOOLEAN
  <2>1. ok = (query => kind.hit) /\ ok \in BOOLEAN
    BY <1>1, <1>2 DEF Kept!LineMatches
  <2>2. n > 0 => kept[n].match \in BOOLEAN
    BY <1>1, KeptElements
  <2>3. near = (ctx /\ ~ok /\ n > 0 /\ kept[n].match)
    <3> HIDE DEF ok
    <3> QED
      BY <1>1, <2>1, <2>2 DEF Kept!IsContext, Kept!Last
  <2> HIDE DEF near, ok
  <2>4. near \in BOOLEAN
    BY <2>3
  <2> QED
    BY <2>1, <2>3, <2>4
<1>4. new = [num |-> totalLines + 1, kind |-> kind, tsMs |-> tsMs, match |-> ok,
             shown |-> ok \/ near, ctxN |-> near, h |-> 0, est |-> Kept!VpEstimate(kind)]
  BY DEF Kept!NewLine
<1>5. Kept!VpEstimate(kind) \in Nat
  BY <1>2 DEF Kept!VpEstimate
<1> HIDE DEF ok, near
<1>6. /\ new \in KeptLine
      /\ new.num = totalLines + 1 /\ new.kind = kind /\ new.tsMs = tsMs
      /\ new.match = ok /\ new.ctxN = near /\ new.shown = (ok \/ near)
  BY <1>1, <1>3, <1>4, <1>5 DEF KeptLine
<1> DEFINE before == IF flip THEN [kept EXCEPT ![n].shown = TRUE, ![n].ctxN = TRUE] ELSE kept
<1>7. /\ flip = (ctx /\ new.match /\ n > 0 /\ ~kept[n].match /\ ~kept[n].shown)
      /\ flip \in BOOLEAN
  <2>1. flip = (ctx /\ new.match /\ n > 0 /\ ~kept[n].match /\ ~kept[n].shown)
    BY <1>1 DEF Kept!Flipped, Kept!Last
  <2> QED
    BY <2>1
<1>8. /\ before \in Seq(KeptLine) /\ Len(before) = n
      /\ \A i \in 1 .. n :
            /\ before[i].num = kept[i].num /\ before[i].kind = kept[i].kind
            /\ before[i].tsMs = kept[i].tsMs /\ before[i].match = kept[i].match
            /\ before[i].h = kept[i].h /\ before[i].est = kept[i].est
            /\ before[i].shown = (kept[i].shown \/ (flip /\ i = n))
            /\ before[i].ctxN = (kept[i].ctxN \/ (flip /\ i = n))
  <2>1. CASE flip
    <3>1. n \in 1 .. n /\ kept[n] \in KeptLine
      <4>1. n \in 1 .. Len(kept)
        <5>1. n > 0
          BY <1>7, <2>1, Zenon
        <5> QED
          BY <1>1, <5>1
      <4> QED
        BY <1>1, <4>1, KeptElements
    <3> DEFINE l == [kept[n] EXCEPT !.shown = TRUE, !.ctxN = TRUE]
    <3>2. l \in KeptLine
      BY <3>1 DEF KeptLine
    <3>e. /\ l.num = kept[n].num /\ l.kind = kept[n].kind
          /\ l.tsMs = kept[n].tsMs /\ l.match = kept[n].match
          /\ l.h = kept[n].h /\ l.est = kept[n].est /\ l.shown = TRUE /\ l.ctxN = TRUE
      BY <3>1 DEF KeptLine
    <3>3. before = [kept EXCEPT ![n] = l]
      BY <2>1, <3>1, <1>1
    <3> HIDE DEF l, before
    <3>4. /\ before \in Seq(KeptLine) /\ Len(before) = n
          /\ \A i \in 1 .. n : before[i] = IF i = n THEN l ELSE kept[i]
      BY <1>1, <3>1, <3>2, <3>3, ExceptSeq
    <3>5. \A i \in 1 .. n : kept[i].shown \in BOOLEAN /\ kept[i].ctxN \in BOOLEAN
      BY <1>1, KeptElements
    <3>6. ASSUME NEW i \in 1 .. n
          PROVE  /\ before[i].num = kept[i].num /\ before[i].kind = kept[i].kind
                 /\ before[i].tsMs = kept[i].tsMs /\ before[i].match = kept[i].match
                 /\ before[i].h = kept[i].h /\ before[i].est = kept[i].est
                 /\ before[i].shown = (kept[i].shown \/ (flip /\ i = n))
                 /\ before[i].ctxN = (kept[i].ctxN \/ (flip /\ i = n))
      <4>1. CASE i = n
        BY <2>1, <3>4, <3>e, <4>1
      <4>2. CASE i # n
        BY <3>4, <3>5, <4>2
      <4> QED
        BY <4>1, <4>2
    <3> QED
      BY <3>4, <3>6
  <2>2. CASE ~flip
    <3>1. \A i \in 1 .. n : kept[i].shown \in BOOLEAN /\ kept[i].ctxN \in BOOLEAN
      BY <1>1, KeptElements
    <3>2. before = kept
      BY <2>2
    <3> HIDE DEF before
    <3> QED
      BY <1>1, <2>2, <3>1, <3>2
  <2> QED
    BY <2>1, <2>2
<1> HIDE DEF before
<1>9. /\ ls \in Seq(KeptLine) /\ Len(ls) = n + 1 /\ ls[n + 1] = new
      /\ \A i \in 1 .. n : ls[i] = before[i]
  <2>1. new \in KeptLine /\ before \in Seq(KeptLine) /\ Len(before) = n
    BY <1>6, <1>8
  <2>2. /\ Append(before, new) \in Seq(KeptLine) /\ Len(Append(before, new)) = Len(before) + 1
        /\ Append(before, new)[Len(before) + 1] = new
        /\ \A i \in 1 .. Len(before) : Append(before, new)[i] = before[i]
    BY <2>1, AppendElements
  <2>3. ls = Append(before, new)
    BY DEF Kept!Pushed, before
  <2> QED
    BY <2>1, <2>2, <2>3
<1> QED
  BY <1>3, <1>6, <1>7, <1>8, <1>9

\* The times of the timeline are those of the lines.
LEMMA TimesOfLines ==
  ASSUME KeptInv, NEW n, n = Len(kept)
  PROVE  /\ tlTimes \in Seq(Nat) /\ Len(tlTimes) = n
         /\ \A i \in 1 .. n : tlTimes[i] = kept[i].tsMs
<1>1. n \in Nat /\ \A i \in 1 .. n : kept[i].tsMs \in Nat
  BY KeptElements DEF KeptInv
<1>2. tlTimes = [i \in 1 .. n |-> kept[i].tsMs]
  BY DEF KeptInv
<1> QED
  BY <1>1, <1>2

\* The sums of the heights after a line was added, and before any is dropped.
LEMMA CsumOfPushed ==
  ASSUME KeptInv, NEW kind \in Kinds, NEW tsMs \in Nat,
         NEW new, new = Kept!NewLine(kind, tsMs),
         NEW n, n = Len(kept),
         NEW flip, flip = Kept!Flipped(new.match),
         NEW ls, ls = Kept!Pushed(new),
         NEW sums, sums = Kept!CsumPushed(ls, flip)
  PROVE  /\ IsCsum(sums, ls)
         /\ \A i \in 0 .. n - 1 : sums[i] = csum[i]
<1> DEFINE before == IF flip THEN csum[n - 1] + Kept!HeightIn(ls, n) ELSE csum[n]
<1>1. /\ n \in Nat /\ kept \in Seq(KeptLine) /\ csum \in [0 .. n -> Nat] /\ csum[0] = 0
      /\ \A i \in 1 .. n : csum[i] = csum[i - 1] + Kept!HeightIn(kept, i)
  BY KeptElements DEF KeptInv, IsCsum
<1>2. /\ ls \in Seq(KeptLine) /\ Len(ls) = n + 1 /\ (flip => n > 0) /\ flip \in BOOLEAN
      /\ \A i \in 1 .. n :
            /\ ls[i].h = kept[i].h /\ ls[i].est = kept[i].est
            /\ ls[i].shown = (kept[i].shown \/ (flip /\ i = n))
  BY PushedLines
<1>3. \A i \in 1 .. n + 1 : Kept!HeightIn(ls, i) \in Nat
  BY <1>2, KeptElements
<1>4. \A i \in 1 .. n : ~(flip /\ i = n) => Kept!HeightIn(ls, i) = Kept!HeightIn(kept, i)
  <2>1. \A i \in 1 .. n : kept[i].shown \in BOOLEAN
    BY <1>1, KeptElements
  <2> QED
    BY <1>2, <2>1 DEF Kept!HeightIn, Kept!VpSlotH
<1>5. sums = [i \in 0 .. n + 1 |-> IF i = n + 1 THEN before + Kept!HeightIn(ls, n + 1)
                                   ELSE IF i = n THEN before ELSE csum[i]]
  <2>1. Len(ls) = n + 1 /\ n + 1 - 2 = n - 1 /\ n + 1 - 1 = n
    BY <1>1, <1>2
  <2> QED
    BY <2>1 DEF Kept!CsumPushed
<1>6. /\ before \in Nat
      /\ n > 0 => before = csum[n - 1] + Kept!HeightIn(ls, n)
      /\ n = 0 => before = 0
  <2>1. CASE n = 0
    BY <1>1, <1>2, <2>1
  <2>2. CASE n > 0
    <3>1. n \in 1 .. n /\ n - 1 \in 0 .. n /\ n \in 1 .. n + 1
      BY <1>1, <2>2
    <3>2. csum[n - 1] \in Nat /\ Kept!HeightIn(ls, n) \in Nat
      BY <1>1, <1>3, <3>1
    <3>3. before = csum[n - 1] + Kept!HeightIn(ls, n)
      BY <1>1, <1>4, <3>1
    <3> QED
      BY <2>2, <3>2, <3>3
  <2> QED
    BY <1>1, <2>1, <2>2
<1> HIDE DEF before
<1>7. sums \in [0 .. Len(ls) -> Nat] /\ sums[0] = 0 /\ \A i \in 0 .. n - 1 : sums[i] = csum[i]
  <2>1. n + 1 \in 1 .. n + 1
    BY <1>1
  <2>2. before + Kept!HeightIn(ls, n + 1) \in Nat
    BY <1>3, <1>6, <2>1
  <2>3. \A i \in 0 .. n + 1 : sums[i] \in Nat
    BY <1>1, <1>5, <1>6, <2>2
  <2>4. sums[0] = 0
    BY <1>1, <1>5, <1>6
  <2>5. sums = [i \in 0 .. n + 1 |-> sums[i]]
    BY <1>5
  <2> QED
    BY <1>1, <1>2, <1>5, <2>3, <2>4, <2>5
<1>8. ASSUME NEW i \in 1 .. Len(ls)
      PROVE  sums[i] = sums[i - 1] + Kept!HeightIn(ls, i)
  <2>1. i \in 0 .. n + 1 /\ i - 1 \in 0 .. n + 1
    BY <1>1, <1>2
  <2>2. CASE i = n + 1
    BY <1>1, <1>5, <2>1, <2>2
  <2>3. CASE i = n
    BY <1>1, <1>5, <1>6, <2>1, <2>3
  <2>4. CASE i < n
    <3>1. i \in 1 .. n
      BY <1>1, <1>2, <2>4
    <3> QED
      BY <1>1, <1>4, <1>5, <2>1, <2>4, <3>1
  <2> QED
    BY <1>1, <1>2, <2>2, <2>3, <2>4
<1> QED
  BY <1>7, <1>8 DEF IsCsum

\* The new line fits the lines before it in number and marks.
LEMMA PushedAgrees ==
  ASSUME KeptInv, NEW kind \in Kinds, NEW tsMs \in Nat,
         NEW new, new = Kept!NewLine(kind, tsMs),
         NEW n, n = Len(kept),
         NEW flip, flip = Kept!Flipped(new.match),
         NEW ls, ls = Kept!Pushed(new)
  PROVE  /\ NumbersFrom(ls, totalLines + 1)
         /\ MarksAgree(ls, ctx)
         /\ ~filterTimer => \A i \in 1 .. n + 1 : ls[i].match = (query => ls[i].kind.hit)
<1>1. n \in Nat /\ kept \in Seq(KeptLine) /\ totalLines \in Nat /\ ctx \in BOOLEAN /\ n <= totalLines
  BY KeptElements DEF KeptInv, NumbersFrom
<1>2. \A i \in 1 .. n : /\ kept[i] \in KeptLine /\ kept[i].tsMs \in Nat /\ kept[i].match \in BOOLEAN
                        /\ kept[i].shown \in BOOLEAN /\ kept[i].ctxN \in BOOLEAN
  BY <1>1, KeptElements
<1>3. /\ Len(ls) = n + 1 /\ ls[n + 1] = new
      /\ new.num = totalLines + 1 /\ new.kind = kind /\ new.tsMs = tsMs
      /\ new.match = (query => kind.hit)
      /\ new.ctxN = (ctx /\ ~new.match /\ n > 0 /\ kept[n].match)
      /\ new.shown = (new.match \/ new.ctxN)
      /\ flip \in BOOLEAN
      /\ flip = (ctx /\ new.match /\ n > 0 /\ ~kept[n].match /\ ~kept[n].shown)
  BY PushedLines
<1>4. new.match \in BOOLEAN
  BY <1>3
<1>5. \A i \in 1 .. n :
         /\ ls[i].num = kept[i].num /\ ls[i].kind = kept[i].kind
         /\ ls[i].tsMs = kept[i].tsMs /\ ls[i].match = kept[i].match
         /\ ls[i].shown = (kept[i].shown \/ (flip /\ i = n))
         /\ ls[i].ctxN = (kept[i].ctxN \/ (flip /\ i = n))
  BY PushedLines
<1>8. NumbersFrom(kept, totalLines) /\ MarksAgree(kept, ctx)
  BY DEF KeptInv
<1>m. ~filterTimer => \A i \in 1 .. n : kept[i].match = (query => kept[i].kind.hit)
  BY DEF KeptInv
<1>9. NumbersFrom(ls, totalLines + 1)
  <2> SUFFICES ASSUME NEW i \in 1 .. n + 1 PROVE ls[i].num = i + (totalLines + 1 - (n + 1))
    BY <1>1, <1>3 DEF NumbersFrom
  <2>1. CASE i = n + 1
    BY <1>1, <1>3, <2>1
  <2>2. CASE i \in 1 .. n
    <3>1. kept[i].num = i + (totalLines - n)
      BY <1>8, <2>2 DEF NumbersFrom
    <3> QED
      BY <1>1, <1>5, <2>2, <3>1
  <2> QED
    BY <1>1, <2>1, <2>2
<1>11. MarksAgree(ls, ctx)
  <2> SUFFICES ASSUME NEW i \in 1 .. n + 1
               PROVE  /\ ls[i].shown = (ls[i].match \/ ls[i].ctxN)
                      /\ ls[i].ctxN => /\ ctx /\ ~ls[i].match
                                       /\ NearMatch(ls, i) \/ (i = 1 /\ ls[i].num > 1)
                      /\ ctx /\ ~ls[i].match /\ NearMatch(ls, i) => ls[i].ctxN
    BY <1>3 DEF MarksAgree
  <2>1. CASE i = n + 1
    <3>1. NearMatch(ls, i) = (n > 0 /\ kept[n].match)
      <4>1. ~(i < Len(ls)) /\ i - 1 = n /\ (i > 1 <=> n > 0)
        BY <1>1, <1>3, <2>1
      <4>2. n > 0 => ls[n].match = kept[n].match /\ kept[n].match \in BOOLEAN
        BY <1>1, <1>2, <1>5
      <4> QED
        BY <4>1, <4>2 DEF NearMatch
    <3>2. ls[i] = new
      BY <1>3, <2>1
    <3> QED
      BY <1>1, <1>3, <3>1, <3>2
  <2>2. CASE i \in 1 .. n
    <3>1. /\ kept[i].shown = (kept[i].match \/ kept[i].ctxN)
          /\ kept[i].ctxN => /\ ctx /\ ~kept[i].match
                             /\ NearMatch(kept, i) \/ (i = 1 /\ kept[i].num > 1)
          /\ ctx /\ ~kept[i].match /\ NearMatch(kept, i) => kept[i].ctxN
      BY <1>8, <2>2 DEF MarksAgree
    <3>2. NearMatch(ls, i) = (NearMatch(kept, i) \/ (i = n /\ new.match))
      <4>1. i > 1 => i - 1 \in 1 .. n
        BY <1>1, <2>2
      <4>2. i < n => i + 1 \in 1 .. n
        BY <1>1, <2>2
      <4>3. (i < Len(ls) <=> (i < n \/ i = n)) /\ (i = n => ~(i < n))
        BY <1>1, <1>3, <2>2
      <4>4. i > 1 => ls[i - 1].match = kept[i - 1].match
        BY <1>5, <4>1
      <4>5. i < n => ls[i + 1].match = kept[i + 1].match
        BY <1>5, <4>2
      <4>6. i = n => ls[i + 1].match = new.match
        BY <1>3
      <4> QED
        BY <4>3, <4>4, <4>5, <4>6 DEF NearMatch
    <3>3. kept[i].match \in BOOLEAN /\ kept[i].ctxN \in BOOLEAN /\ kept[i].shown \in BOOLEAN
      BY <1>2, <2>2
    <3>4. CASE flip /\ i = n
      <4>1. ls[i].ctxN /\ ls[i].shown /\ ls[i].match = kept[i].match
        BY <1>5, <2>2, <3>4
      <4>2. ctx /\ new.match /\ ~kept[i].match
        BY <1>3, <3>4
      <4>3. NearMatch(ls, i)
        BY <3>2, <3>4, <4>2
      <4> QED
        BY <4>1, <4>2, <4>3
    <3>5. CASE ~(flip /\ i = n)
      <4>1. ls[i].ctxN = kept[i].ctxN /\ ls[i].shown = kept[i].shown
            /\ ls[i].match = kept[i].match /\ ls[i].num = kept[i].num
        BY <1>2, <1>5, <2>2, <3>5
      <4>2. i = n /\ new.match /\ ctx /\ ~kept[i].match => kept[i].shown
        BY <1>1, <1>3, <2>2, <3>5
      <4>3. NearMatch(kept, i) => NearMatch(ls, i)
        BY <3>2
      <4>4. ctx /\ ~kept[i].match /\ NearMatch(ls, i) => kept[i].ctxN
        BY <3>1, <3>2, <4>2
      <4> QED
        BY <3>1, <4>1, <4>3, <4>4
    <3> QED
      BY <3>4, <3>5
  <2> QED
    BY <1>1, <2>1, <2>2
<1>12. ASSUME ~filterTimer, NEW i \in 1 .. n + 1
       PROVE  ls[i].match = (query => ls[i].kind.hit)
  <2>1. CASE i = n + 1
    BY <1>3, <2>1
  <2>2. CASE i \in 1 .. n
    BY <1>5, <1>12, <1>m, <2>2
  <2> QED
    BY <1>1, <2>1, <2>2
<1> QED
  BY <1>9, <1>11, <1>12


\* What holds of lines holds of them without the oldest: the first line may only
\* be context of one that was dropped, and then it is not the first ever.
LEMMA SplicedAgrees ==
  ASSUME NEW ls \in Seq(KeptLine), NEW total \in Nat, NEW c \in BOOLEAN,
         NumbersFrom(ls, total), MarksAgree(ls, c),
         NEW cut \in 0 .. Len(ls), NEW t, t = Kept!Spliced(ls, cut)
  PROVE  /\ t \in Seq(KeptLine) /\ Len(t) = Len(ls) - cut
         /\ \A i \in 1 .. Len(ls) - cut : t[i] = ls[i + cut] /\ i + cut \in 1 .. Len(ls)
         /\ NumbersFrom(t, total) /\ MarksAgree(t, c)
<1>1. PICK n \in Nat : n = Len(ls) /\ cut \in Nat /\ cut <= n
  BY KeptElements
<1>2. t \in Seq(KeptLine) /\ Len(t) = n - cut /\ \A i \in 1 .. n - cut : t[i] = ls[i + cut]
  BY <1>1, SplicedElements
<1>3. \A i \in 1 .. n - cut : i + cut \in 1 .. n
  BY <1>1
<1>4. NumbersFrom(t, total)
  <2>1. n <= total /\ \A i \in 1 .. n : ls[i].num = i + (total - n)
    BY <1>1 DEF NumbersFrom
  <2>2. \A i \in 1 .. n - cut : t[i].num = i + cut + (total - n)
    BY <1>2, <1>3, <2>1
  <2>3. \A i \in 1 .. n - cut : t[i].num = i + (total - (n - cut))
    <3> SUFFICES ASSUME NEW i \in 1 .. n - cut PROVE t[i].num = i + (total - (n - cut))
      OBVIOUS
    <3>1. t[i].num = i + cut + (total - n) /\ i \in Int /\ cut \in Int /\ total \in Int
      BY <1>1, <2>2
    <3>2. i + cut + (total - n) = i + (total - (n - cut))
      BY <1>1, <3>1
    <3> QED
      BY <3>1, <3>2
  <2> QED
    BY <1>1, <1>2, <2>1, <2>3 DEF NumbersFrom
<1>6. MarksAgree(t, c)
  <2> SUFFICES ASSUME NEW i \in 1 .. n - cut
               PROVE  /\ t[i].shown = (t[i].match \/ t[i].ctxN)
                      /\ t[i].ctxN => c /\ ~t[i].match /\ (NearMatch(t, i) \/ (i = 1 /\ t[i].num > 1))
                      /\ c /\ ~t[i].match /\ NearMatch(t, i) => t[i].ctxN
    BY <1>2 DEF MarksAgree
  <2>1. PICK k \in 1 .. n : k = i + cut /\ ls[k] = t[i]
    BY <1>2, <1>3
  <2>2. /\ ls[k].shown = (ls[k].match \/ ls[k].ctxN)
        /\ ls[k].ctxN => c /\ ~ls[k].match /\ (NearMatch(ls, k) \/ (k = 1 /\ ls[k].num > 1))
        /\ c /\ ~ls[k].match /\ NearMatch(ls, k) => ls[k].ctxN
    BY <1>1 DEF MarksAgree
  <2>3. i + 1 <= n - cut => t[i + 1] = ls[k + 1]
    <3>1. i + 1 <= n - cut => i + 1 \in 1 .. n - cut /\ i + 1 + cut = k + 1
      BY <1>1, <2>1
    <3> QED
      BY <1>2, <3>1
  <2>4. i > 1 => t[i - 1] = ls[k - 1]
    <3>1. i > 1 => i - 1 \in 1 .. n - cut /\ i - 1 + cut = k - 1
      BY <1>1, <2>1
    <3> QED
      BY <1>2, <3>1
  <2>5. (i < Len(t) <=> k < n) /\ (i > 1 => k > 1) /\ (i < Len(t) => i + 1 <= n - cut)
        /\ (i > 1 \/ i = 1) /\ (i = 1 /\ k > 1 => cut > 0) /\ (k = 1 => i = 1)
    BY <1>1, <1>2, <2>1
  <2>6. NearMatch(t, i) => NearMatch(ls, k)
    BY <1>1, <2>3, <2>4, <2>5 DEF NearMatch
  <2>7. NearMatch(ls, k) => NearMatch(t, i) \/ (i = 1 /\ cut > 0)
    BY <1>1, <2>3, <2>4, <2>5 DEF NearMatch
  <2>8. i = 1 /\ cut > 0 => t[i].num > 1
    <3>1. ls[k].num = k + (total - n) /\ n <= total
      BY <1>1 DEF NumbersFrom
    <3> QED
      BY <1>1, <2>1, <3>1
  <2> QED
    BY <2>1, <2>2, <2>5, <2>6, <2>7, <2>8
<1> QED
  BY <1>1, <1>2, <1>3, <1>4, <1>6

\* The number of lines shown, after a line was added.
LEMMA ShownOfPushed ==
  ASSUME KeptInv, NEW kind \in Kinds, NEW tsMs \in Nat,
         NEW new, new = Kept!NewLine(kind, tsMs),
         NEW n, n = Len(kept),
         NEW flip, flip = Kept!Flipped(new.match),
         NEW ls, ls = Kept!Pushed(new)
  PROVE  Kept!NumShown(ls) = Kept!NumShown(kept) + (IF flip THEN 1 ELSE 0)
                                                 + (IF new.shown THEN 1 ELSE 0)
<1> DEFINE A == {i \in 1 .. n : kept[i].shown}
           B == A \cup (IF flip THEN {n} ELSE {})
           C == B \cup (IF new.shown THEN {n + 1} ELSE {})
<1>1. /\ n \in Nat /\ DOMAIN kept = 1 .. n
      /\ \A i \in 1 .. n : kept[i].shown \in BOOLEAN
  BY KeptElements DEF KeptInv
<1>2. /\ ls \in Seq(KeptLine) /\ Len(ls) = n + 1 /\ ls[n + 1] = new
      /\ flip \in BOOLEAN
      /\ flip = (ctx /\ new.match /\ n > 0 /\ ~kept[n].match /\ ~kept[n].shown)
      /\ \A i \in 1 .. n : ls[i].shown = (kept[i].shown \/ (flip /\ i = n))
  BY PushedLines
<1>f. flip => n > 0 /\ ~kept[n].shown
  BY <1>2, Zenon
<1>3. DOMAIN ls = 1 .. n + 1
  BY <1>2, KeptElements
<1>4. C = {i \in DOMAIN ls : ls[i].shown}
  <2>1. ASSUME NEW i \in C PROVE i \in 1 .. n + 1 /\ ls[i].shown
    <3>1. CASE i \in A
      BY <1>1, <1>2, <3>1
    <3>2. CASE flip /\ i = n
      BY <1>1, <1>2, <1>f, <3>2
    <3>3. CASE new.shown /\ i = n + 1
      BY <1>1, <1>2, <3>3
    <3> QED
      BY <2>1, <3>1, <3>2, <3>3
  <2>2. ASSUME NEW i \in 1 .. n + 1, ls[i].shown PROVE i \in C
    <3>1. CASE i = n + 1
      BY <1>2, <2>2, <3>1
    <3>2. CASE i \in 1 .. n
      BY <1>1, <1>2, <2>2, <3>2
    <3> QED
      BY <1>1, <3>1, <3>2
  <2> HIDE DEF C
  <2> QED
    BY <1>3, <2>1, <2>2
<1>5. IsFiniteSet(A) /\ Cardinality(A) \in Nat
  <2>1. IsFiniteSet(1 .. n)
    BY <1>1, FS_Interval
  <2>2. IsFiniteSet(A)
    BY <2>1, FS_Subset
  <2> HIDE DEF A
  <2> QED
    BY <2>2, FS_CardinalityType
<1>6. (flip => n \notin A) /\ n + 1 \notin B
  BY <1>1, <1>f
<1> HIDE DEF A
<1>7. IsFiniteSet(B) /\ Cardinality(B) = Cardinality(A) + (IF flip THEN 1 ELSE 0)
  <2>1. CASE flip
    <3>1. /\ IsFiniteSet(A \cup {n})
          /\ Cardinality(A \cup {n}) = IF n \in A THEN Cardinality(A) ELSE Cardinality(A) + 1
      BY <1>5, FS_AddElement
    <3>2. B = A \cup {n} /\ n \notin A
      BY <1>6, <2>1
    <3> QED
      BY <2>1, <3>1, <3>2
  <2>2. CASE ~flip
    <3>1. B = A
      BY <2>2
    <3> HIDE DEF B
    <3> QED
      BY <1>5, <2>2, <3>1
  <2> QED
    BY <2>1, <2>2
<1>8. Cardinality(B) \in Nat
  BY <1>5, <1>7
<1> HIDE DEF B
<1>9. Cardinality(C) = Cardinality(B) + (IF new.shown THEN 1 ELSE 0)
  <2>1. CASE new.shown
    <3>1. /\ IsFiniteSet(B \cup {n + 1})
          /\ Cardinality(B \cup {n + 1})
                = IF n + 1 \in B THEN Cardinality(B) ELSE Cardinality(B) + 1
      BY <1>7, FS_AddElement
    <3>2. C = B \cup {n + 1}
      BY <2>1
    <3> QED
      BY <1>6, <2>1, <3>1, <3>2
  <2>2. CASE ~new.shown
    <3>1. C = B
      BY <2>2
    <3> HIDE DEF C
    <3> QED
      BY <1>8, <2>2, <3>1
  <2> QED
    BY <2>1, <2>2
<1>10. Kept!NumShown(kept) = Cardinality(A) /\ Kept!NumShown(ls) = Cardinality(C)
  <2>1. \A S : Kept!Cardinality(S) = Cardinality(S)
    BY DEF Kept!Cardinality, Cardinality
  <2>2. Kept!NumShown(kept) = Kept!Cardinality(A)
    BY <1>1 DEF Kept!NumShown, A
  <2>3. Kept!NumShown(ls) = Kept!Cardinality(C)
    BY <1>4 DEF Kept!NumShown
  <2> QED
    BY <2>1, <2>2, <2>3
<1> QED
  BY <1>7, <1>9, <1>10


\* A line that is added, and those that are dropped for it, keep the invariant.
LEMMA AddLineKeptInv ==
  ASSUME KeptInv, NEW kind \in Kinds, NEW tsMs \in 1 .. MaxTs,
         Kept!AddLine(kind, tsMs)
  PROVE  KeptInv'
<1>1. /\ KeepLines \in Nat \ {0}
      /\ query \in BOOLEAN /\ ctx \in BOOLEAN /\ wrapped \in BOOLEAN /\ filterTimer \in BOOLEAN
      /\ kept \in Seq(KeptLine) /\ totalLines \in Nat /\ shownLines \in Nat
      /\ Len(kept) <= KeepLines /\ (Len(kept) < KeepLines => totalLines = Len(kept))
      /\ Len(kept) <= totalLines
      /\ totalLines = Len(kept) => shownLines = Kept!NumShown(kept)
      /\ Kept!RowsShowTheirLines
      /\ csum \in [0 .. Len(kept) -> Nat] /\ csum[0] = 0
  BY KeptAssumption DEF KeptInv, NumbersFrom, IsCsum
<1>2. tsMs \in Nat
  OBVIOUS
<1>3. PICK new : new = Kept!NewLine(kind, tsMs)
  OBVIOUS
<1>4. PICK ls : ls = Kept!Pushed(new)
  OBVIOUS
<1>5. PICK flip : flip = Kept!Flipped(new.match)
  OBVIOUS
<1>6. PICK sums : sums = Kept!CsumPushed(ls, flip)
  OBVIOUS
<1>7. PICK n \in Nat : n = Len(kept)
  BY <1>1, KeptElements
<1>8. /\ ls \in Seq(KeptLine) /\ Len(ls) = n + 1 /\ ls[n + 1] = new
      /\ flip \in BOOLEAN
      /\ flip = (ctx /\ new.match /\ n > 0 /\ ~kept[n].match /\ ~kept[n].shown)
      /\ new.tsMs = tsMs
      /\ \A i \in 1 .. n :
             /\ ls[i].num = kept[i].num /\ ls[i].kind = kept[i].kind
             /\ ls[i].tsMs = kept[i].tsMs /\ ls[i].match = kept[i].match
             /\ ls[i].shown = (kept[i].shown \/ (flip /\ i = n))
             /\ ls[i].ctxN = (kept[i].ctxN \/ (flip /\ i = n))
  BY <1>2, <1>3, <1>4, <1>5, <1>7, PushedLines
<1>9. /\ NumbersFrom(ls, totalLines + 1) /\ MarksAgree(ls, ctx)
      /\ ~filterTimer => \A i \in 1 .. n + 1 : ls[i].match = (query => ls[i].kind.hit)
  BY <1>2, <1>3, <1>4, <1>5, <1>7, PushedAgrees
<1>10. IsCsum(sums, ls) /\ \A i \in 0 .. n - 1 : sums[i] = csum[i]
  BY <1>2, <1>3, <1>4, <1>5, <1>6, <1>7, CsumOfPushed
<1>11. Kept!NumShown(ls) = Kept!NumShown(kept) + (IF flip THEN 1 ELSE 0)
                                               + (IF new.shown THEN 1 ELSE 0)
  BY <1>2, <1>3, <1>4, <1>5, <1>7, ShownOfPushed
<1>12. PICK cut : cut = Kept!Cut(ls)
  OBVIOUS
<1>13. /\ cut = IF n + 1 > KeepLines THEN n + 1 - KeepLines ELSE 0
       /\ cut \in 0 .. n + 1 /\ cut \in Nat
       /\ n + 1 - cut <= KeepLines /\ n + 1 - cut \in Nat
       /\ n + 1 - cut < KeepLines => cut = 0 /\ totalLines = n
       /\ totalLines + 1 = n + 1 - cut => cut = 0 /\ totalLines = n
  <2>1. cut = IF n + 1 > KeepLines THEN n + 1 - KeepLines ELSE 0
    <3>1. Len(ls) = n + 1
      BY <1>8
    <3>2. cut = IF Len(ls) > KeepLines THEN Len(ls) - KeepLines ELSE 0
      BY <1>12 DEF Kept!Cut
    <3> QED
      BY <1>1, <3>1, <3>2
  <2>2. /\ KeepLines \in Nat /\ KeepLines > 0 /\ totalLines \in Nat /\ n \in Nat
        /\ n <= KeepLines /\ n <= totalLines /\ (n < KeepLines => totalLines = n)
    BY <1>1, <1>7
  <2> QED
    BY <2>1, <2>2
<1>14. /\ kept' = Kept!Spliced(ls, cut)
       /\ csum' = Kept!CsumSpliced(sums, n + 1, cut)
       /\ tlTimes' = Kept!Spliced(Append(tlTimes, tsMs), cut)
       /\ shownLines' = shownLines + (IF flip THEN 1 ELSE 0) + (IF new.shown THEN 1 ELSE 0)
       /\ totalLines' = totalLines + 1
       /\ vpEls' = Kept!RowsAfter(cut)
       /\ UNCHANGED <<query, ctx, filterTimer, wrapped>>
  BY <1>3, <1>4, <1>5, <1>6, <1>8, <1>12 DEF Kept!AddLine, Kept!filterVars
<1>15. /\ kept' \in Seq(KeptLine) /\ Len(kept') = n + 1 - cut
       /\ \A i \in 1 .. n + 1 - cut : kept'[i] = ls[i + cut] /\ i + cut \in 1 .. n + 1
       /\ NumbersFrom(kept', totalLines') /\ MarksAgree(kept', ctx')
  <2>1. totalLines + 1 \in Nat /\ ctx' = ctx /\ totalLines' = totalLines + 1 /\ Len(ls) = n + 1
    BY <1>1, <1>8, <1>14
  <2>2. PICK t : t = Kept!Spliced(ls, cut)
    OBVIOUS
  <2>3. /\ ls \in Seq(KeptLine) /\ ctx \in BOOLEAN /\ cut \in 0 .. Len(ls)
        /\ NumbersFrom(ls, totalLines + 1) /\ MarksAgree(ls, ctx)
    <3>1. ls \in Seq(KeptLine) /\ ctx \in BOOLEAN /\ cut \in 0 .. Len(ls)
      BY <1>1, <1>8, <1>13, <2>1
    <3> QED
      BY <1>9, <2>2, <3>1
  <2>4. /\ t \in Seq(KeptLine) /\ Len(t) = Len(ls) - cut
        /\ \A i \in 1 .. Len(ls) - cut : t[i] = ls[i + cut] /\ i + cut \in 1 .. Len(ls)
        /\ NumbersFrom(t, totalLines + 1) /\ MarksAgree(t, ctx)
    <3>1. PICK total \in Nat : total = totalLines + 1
      BY <2>1
    <3>2. NumbersFrom(ls, total)
      BY <2>3, <3>1
    <3>3. /\ t \in Seq(KeptLine) /\ Len(t) = Len(ls) - cut
          /\ \A i \in 1 .. Len(ls) - cut : t[i] = ls[i + cut] /\ i + cut \in 1 .. Len(ls)
          /\ NumbersFrom(t, total) /\ MarksAgree(t, ctx)
      BY <2>2, <2>3, <3>2, SplicedAgrees
    <3> QED
      BY <3>1, <3>3
  <2>5. kept' = t
    BY <1>14, <2>2
  <2> QED
    BY <1>13, <2>1, <2>4, <2>5
<1>16. IsCsum(csum', kept')
  <2>1. cut \in 0 .. Len(ls) /\ Len(ls) = n + 1
    BY <1>8, <1>13
  <2>2. IsCsum(Kept!CsumSpliced(sums, Len(ls), cut), Kept!Spliced(ls, cut))
    BY <1>8, <1>10, <2>1, CsumOfSpliced
  <2> QED
    BY <1>14, <2>1, <2>2
<1>17. tlTimes' = [i \in 1 .. Len(kept') |-> kept'[i].tsMs]
  <2>1. tlTimes \in Seq(Nat) /\ Len(tlTimes) = n /\ \A i \in 1 .. n : tlTimes[i] = kept[i].tsMs
    BY <1>7, TimesOfLines
  <2>2. PICK s : s = Append(tlTimes, tsMs)
    OBVIOUS
  <2>3. /\ s \in Seq(Nat) /\ Len(s) = n + 1 /\ s[n + 1] = tsMs
        /\ \A i \in 1 .. n : s[i] = tlTimes[i]
    BY <1>2, <2>1, <2>2, AppendElements
  <2>4. \A i \in 1 .. n + 1 : s[i] = ls[i].tsMs
    <3> SUFFICES ASSUME NEW i \in 1 .. n + 1 PROVE s[i] = ls[i].tsMs
      OBVIOUS
    <3>1. CASE i = n + 1
      BY <1>8, <2>3, <3>1
    <3>2. CASE i \in 1 .. n
      BY <1>8, <2>1, <2>3, <3>2
    <3> QED
      BY <1>7, <3>1, <3>2
  <2>5. cut \in 0 .. Len(s)
    BY <1>13, <2>3
  <2>6. /\ tlTimes' \in Seq(Nat) /\ Len(tlTimes') = n + 1 - cut
        /\ \A i \in 1 .. n + 1 - cut : tlTimes'[i] = s[i + cut]
    <3>1. PICK t : t = Kept!Spliced(s, cut)
      OBVIOUS
    <3>2. /\ t \in Seq(Nat) /\ Len(t) = Len(s) - cut
          /\ \A i \in 1 .. Len(s) - cut : t[i] = s[i + cut]
      <4>1. s \in Seq(Nat)
        BY <2>3
      <4> QED
        BY <2>5, <3>1, <4>1, SplicedElements
    <3>3. tlTimes' = t /\ Len(s) = n + 1
      BY <1>14, <2>2, <2>3, <3>1
    <3> QED
      BY <1>13, <3>2, <3>3
  <2>7. \A i \in 1 .. n + 1 - cut : tlTimes'[i] = kept'[i].tsMs
    BY <1>15, <2>4, <2>6
  <2>8. tlTimes' = [i \in 1 .. Len(tlTimes') |-> tlTimes'[i]]
    BY <2>6
  <2> QED
    BY <1>15, <2>6, <2>7, <2>8
<1>18. ~filterTimer' => \A i \in 1 .. Len(kept') : kept'[i].match = (query' => kept'[i].kind.hit)
  BY <1>9, <1>14, <1>15
<1>19. cut = 0 => kept' = ls
  <2> SUFFICES ASSUME cut = 0 PROVE kept' = ls
    OBVIOUS
  <2>1. Len(kept') = n + 1 /\ \A i \in 1 .. n + 1 : kept'[i] = ls[i]
    BY <1>7, <1>15
  <2> QED
    BY <1>8, <1>15, <2>1, SeqEqual
<1>20. totalLines' = Len(kept') => shownLines' = Kept!NumShown(kept')
  <2> SUFFICES ASSUME totalLines' = Len(kept') PROVE shownLines' = Kept!NumShown(kept')
    OBVIOUS
  <2>1. cut = 0 /\ totalLines = n
    BY <1>13, <1>14, <1>15
  <2>2. kept' = ls /\ shownLines = Kept!NumShown(kept)
    BY <1>1, <1>7, <1>19, <2>1
  <2> QED
    BY <1>11, <1>14, <2>2
<1>21. Kept!RowsShowTheirLines'
  <2>1. CASE cut > 0
    BY <1>14, <2>1 DEF Kept!RowsShowTheirLines, Kept!RowsAfter, Kept!NoRows
  <2>2. CASE cut = 0
    <3>1. vpEls' = vpEls /\ kept' = ls
      BY <1>14, <1>19, <2>2 DEF Kept!RowsAfter
    <3>2. DOMAIN kept = 1 .. n /\ DOMAIN ls = 1 .. n + 1
      BY <1>1, <1>7, <1>8, KeptElements
    <3>3. ASSUME NEW i \in DOMAIN vpEls
          PROVE  /\ i \in DOMAIN ls
                 /\ ls[i].shown
                 /\ vpEls[i] = [num |-> ls[i].num, ctxN |-> ls[i].ctxN, top |-> csum'[i - 1]]
      <4>1. /\ i \in 1 .. n /\ kept[i].shown
            /\ vpEls[i] = [num |-> kept[i].num, ctxN |-> kept[i].ctxN, top |-> csum[i - 1]]
        BY <1>1, <3>2, <3>3 DEF Kept!RowsShowTheirLines
      <4>2. ~(flip /\ i = n)
        BY <1>8, <4>1
      <4>3. kept[i].ctxN \in BOOLEAN /\ kept[i].shown \in BOOLEAN
        BY <1>1, <1>7, <4>1, KeptElements
      <4>4. ls[i].num = kept[i].num /\ ls[i].ctxN = kept[i].ctxN /\ ls[i].shown
        BY <1>8, <4>1, <4>2, <4>3
      <4>5. csum'[i - 1] = csum[i - 1]
        <5>1. i - 1 \in 0 .. n - 1 /\ i - 1 \in 0 .. n + 1 - cut /\ i - 1 + cut = i - 1
          BY <1>7, <2>2, <4>1
        <5>2. csum'[i - 1] = sums[i - 1] - sums[0]
          BY <1>14, <2>2, <5>1 DEF Kept!CsumSpliced
        <5>3. sums[0] = 0 /\ sums[i - 1] = csum[i - 1]
          BY <1>10, <5>1 DEF IsCsum
        <5>4. csum[i - 1] \in Nat
          BY <1>1, <1>7, <5>1
        <5> QED
          BY <5>2, <5>3, <5>4
      <4> QED
        BY <3>2, <4>1, <4>4, <4>5
    <3> QED
      BY <3>1, <3>3 DEF Kept!RowsShowTheirLines
  <2> QED
    BY <1>13, <2>1, <2>2
<1>22. /\ query' \in BOOLEAN /\ ctx' \in BOOLEAN /\ wrapped' \in BOOLEAN /\ filterTimer' \in BOOLEAN
       /\ totalLines' \in Nat /\ shownLines' \in Nat
  BY <1>1, <1>14
<1>23. Len(kept') <= KeepLines /\ (Len(kept') < KeepLines => totalLines' = Len(kept'))
  BY <1>13, <1>14, <1>15
<1> QED
  BY <1>15, <1>16, <1>17, <1>18, <1>20, <1>21, <1>22, <1>23 DEF KeptInv


-----------------------------------------------------------------------------
(* The other handlers                                                       *)

\* Lines that differ in their heights only.
SameMarks(ls, t) ==
    /\ Len(t) = Len(ls)
    /\ \A i \in 1 .. Len(ls) :
          /\ t[i].num = ls[i].num /\ t[i].kind = ls[i].kind /\ t[i].tsMs = ls[i].tsMs
          /\ t[i].match = ls[i].match /\ t[i].shown = ls[i].shown /\ t[i].ctxN = ls[i].ctxN

\* Lines with the same marks have the same agreements.
LEMMA SameMarksAgree ==
  ASSUME NEW ls \in Seq(KeptLine), NEW t \in Seq(KeptLine), SameMarks(ls, t),
         NEW total \in Nat, NEW c
  PROVE  /\ NumbersFrom(ls, total) => NumbersFrom(t, total)
         /\ MarksAgree(ls, c) => MarksAgree(t, c)
         /\ Kept!NumShown(t) = Kept!NumShown(ls)
<1>1. PICK n \in Nat : n = Len(ls)
  BY KeptElements
<1>2. /\ Len(t) = n
      /\ \A i \in 1 .. n :
          /\ t[i].num = ls[i].num /\ t[i].kind = ls[i].kind /\ t[i].tsMs = ls[i].tsMs
          /\ t[i].match = ls[i].match /\ t[i].shown = ls[i].shown /\ t[i].ctxN = ls[i].ctxN
  BY <1>1 DEF SameMarks
<1>3. NumbersFrom(ls, total) => NumbersFrom(t, total)
  BY <1>1, <1>2 DEF NumbersFrom
<1>5. ASSUME NEW i \in 1 .. n PROVE NearMatch(t, i) = NearMatch(ls, i)
  <2>1. i > 1 => i - 1 \in 1 .. n
    BY <1>1
  <2>2. i < n => i + 1 \in 1 .. n
    BY <1>1
  <2>3. i > 1 => t[i - 1].match = ls[i - 1].match
    BY <1>2, <2>1
  <2>4. i < n => t[i + 1].match = ls[i + 1].match
    BY <1>2, <2>2
  <2> QED
    BY <1>1, <1>2, <2>3, <2>4 DEF NearMatch
<1>6. MarksAgree(ls, c) => MarksAgree(t, c)
  BY <1>1, <1>2, <1>5 DEF MarksAgree
<1>7. Kept!NumShown(t) = Kept!NumShown(ls)
  <2>1. DOMAIN t = 1 .. n /\ DOMAIN ls = 1 .. n
    BY <1>1, <1>2, KeptElements
  <2>2. {i \in DOMAIN t : t[i].shown} = {i \in DOMAIN ls : ls[i].shown}
    BY <1>2, <2>1
  <2> QED
    BY <2>2 DEF Kept!NumShown
<1> QED
  BY <1>3, <1>6, <1>7

\* What applyLogFilter does to the lines: all marks are those of the filter.
IsFiltered(t, ls, q, c) ==
    /\ t \in Seq(KeptLine) /\ Len(t) = Len(ls)
    /\ \A i \in 1 .. Len(ls) :
          /\ t[i].num = ls[i].num /\ t[i].kind = ls[i].kind /\ t[i].tsMs = ls[i].tsMs
          /\ t[i].match = (q => ls[i].kind.hit)
          /\ t[i].h = ls[i].h /\ t[i].est = ls[i].est
          /\ t[i].ctxN = (c /\ ~t[i].match /\ NearMatch(t, i))
    /\ MarksAgree(t, c)

\* What the filter makes of the lines, one by one.
LEMMA FilteredLines ==
  ASSUME NEW ls \in Seq(KeptLine), NEW q \in BOOLEAN, NEW c \in BOOLEAN
  PROVE  IsFiltered(Kept!Filtered(ls, q, c), ls, q, c)
<1> DEFINE t == Kept!Filtered(ls, q, c)
<1> DEFINE ok(i) == q => ls[i].kind.hit
           near(i) == c /\ ((i > 1 /\ ok(i - 1)) \/ (i < Len(ls) /\ ok(i + 1)))
           made(i) == [ls[i] EXCEPT !.match = ok(i), !.shown = ok(i) \/ near(i),
                                    !.ctxN = ~ok(i) /\ near(i)]
<1>1. PICK n \in Nat : n = Len(ls) /\ DOMAIN ls = 1 .. n
  BY KeptElements
<1>2. t = [i \in 1 .. n |-> made(i)]
  BY <1>1 DEF Kept!Filtered
<1>3. \A i \in 1 .. n : ls[i] \in KeptLine
  BY <1>1, KeptElements
<1>o. \A i \in 1 .. n : ok(i) \in BOOLEAN /\ near(i) \in BOOLEAN
  <2>1. \A i \in 1 .. n : ls[i].kind.hit \in BOOLEAN
    BY <1>3, KeptAssumption DEF KeptLine
  <2> QED
    BY <2>1
<1> HIDE DEF ok, near, t
<1>4. \A i \in 1 .. n : /\ made(i) \in KeptLine
                        /\ made(i).num = ls[i].num /\ made(i).kind = ls[i].kind
                        /\ made(i).tsMs = ls[i].tsMs
                        /\ made(i).h = ls[i].h /\ made(i).est = ls[i].est
                        /\ made(i).match = ok(i)
                        /\ made(i).shown = (ok(i) \/ near(i))
                        /\ made(i).ctxN = (~ok(i) /\ near(i))
  <2> SUFFICES ASSUME NEW i \in 1 .. n
               PROVE  /\ made(i) \in KeptLine
                      /\ made(i).num = ls[i].num /\ made(i).kind = ls[i].kind
                      /\ made(i).tsMs = ls[i].tsMs
                      /\ made(i).h = ls[i].h /\ made(i).est = ls[i].est
                      /\ made(i).match = ok(i)
                      /\ made(i).shown = (ok(i) \/ near(i))
                      /\ made(i).ctxN = (~ok(i) /\ near(i))
    OBVIOUS
  <2>1. PICK l \in KeptLine : l = ls[i]
    BY <1>3
  <2>2. PICK a \in BOOLEAN, b \in BOOLEAN : a = ok(i) /\ b = near(i)
    BY <1>o
  <2> QED
    BY <2>1, <2>2 DEF KeptLine
<1> HIDE DEF made
<1>5. t \in Seq(KeptLine) /\ Len(t) = n
  BY <1>2, <1>4
<1>6. \A i \in 1 .. n : t[i] = made(i)
  BY <1>2
<1>7. ASSUME NEW i \in 1 .. n
      PROVE  /\ t[i].shown = (t[i].match \/ t[i].ctxN)
             /\ t[i].ctxN = (c /\ ~t[i].match /\ NearMatch(t, i))
  <2>1. i > 1 => i - 1 \in 1 .. n
    BY <1>1
  <2>2. i < n => i + 1 \in 1 .. n
    BY <1>1
  <2>3. i > 1 => t[i - 1].match = ok(i - 1)
    BY <1>4, <1>6, <2>1
  <2>4. i < n => t[i + 1].match = ok(i + 1)
    BY <1>4, <1>6, <2>2
  <2>5. near(i) = (c /\ NearMatch(t, i))
    BY <1>1, <1>5, <2>3, <2>4 DEF NearMatch, near
  <2>6. /\ t[i].match = ok(i) /\ t[i].shown = (ok(i) \/ near(i)) /\ t[i].ctxN = (~ok(i) /\ near(i))
    BY <1>4, <1>6
  <2> QED
    BY <1>o, <2>5, <2>6
<1>8. MarksAgree(t, c)
  BY <1>5, <1>7 DEF MarksAgree
<1>9. \A i \in 1 .. n : /\ t[i].num = ls[i].num /\ t[i].kind = ls[i].kind /\ t[i].tsMs = ls[i].tsMs
                        /\ t[i].match = (q => ls[i].kind.hit)
                        /\ t[i].h = ls[i].h /\ t[i].est = ls[i].est
  BY <1>4, <1>6 DEF ok
<1> QED
  BY <1>1, <1>5, <1>7, <1>8, <1>9 DEF IsFiltered, t

\* The filter keeps the invariant.
LEMMA ApplyFilterKeptInv ==
  ASSUME KeptInv, Kept!ApplyLogFilter,
         query' \in BOOLEAN, ctx' \in BOOLEAN, filterTimer' \in BOOLEAN
  PROVE  KeptInv'
<1>1. PICK q \in BOOLEAN, c \in BOOLEAN : q = query' /\ c = ctx'
  OBVIOUS
<1>2. PICK n \in Nat : n = Len(kept) /\ kept \in Seq(KeptLine) /\ totalLines \in Nat
  BY KeptElements DEF KeptInv
<1>3. /\ kept' = Kept!Filtered(kept, q, c)
      /\ shownLines' = Kept!NumShown(kept')
      /\ csum' = Kept!RebuiltCsum(kept')
      /\ vpEls' = Kept!NoRows
      /\ wrapped' = wrapped /\ tlTimes' = tlTimes /\ totalLines' = totalLines
  BY <1>1 DEF Kept!ApplyLogFilter, Kept!timelineVars
<1>4. PICK t : t = kept'
  OBVIOUS
<1>5. /\ t \in Seq(KeptLine) /\ Len(t) = n
      /\ \A i \in 1 .. n :
             /\ t[i].num = kept[i].num /\ t[i].kind = kept[i].kind /\ t[i].tsMs = kept[i].tsMs
             /\ t[i].match = (q => kept[i].kind.hit)
      /\ MarksAgree(t, c)
  <2>1. t = Kept!Filtered(kept, q, c)
    BY <1>3, <1>4
  <2>2. kept \in Seq(KeptLine)
    BY <1>2
  <2>3. /\ t \in Seq(KeptLine) /\ Len(t) = Len(kept)
        /\ \A i \in 1 .. Len(kept) :
               /\ t[i].num = kept[i].num /\ t[i].kind = kept[i].kind /\ t[i].tsMs = kept[i].tsMs
               /\ t[i].match = (q => kept[i].kind.hit)
        /\ MarksAgree(t, c)
    <3>1. IsFiltered(Kept!Filtered(kept, q, c), kept, q, c)
      BY <1>1, <2>2, FilteredLines
    <3> QED
      BY <2>1, <3>1 DEF IsFiltered
  <2> QED
    BY <1>2, <2>3
<1>6. IsCsum(csum', t)
  BY <1>3, <1>4, <1>5, RebuiltIsCsum
<1>7. NumbersFrom(t, totalLines)
  <2>1. NumbersFrom(kept, totalLines)
    BY DEF KeptInv
  <2> QED
    BY <1>2, <1>5, <2>1 DEF NumbersFrom
<1>8. tlTimes' = [i \in 1 .. Len(t) |-> t[i].tsMs]
  <2>1. tlTimes = [i \in 1 .. n |-> kept[i].tsMs]
    BY <1>2 DEF KeptInv
  <2> QED
    BY <1>3, <1>5, <2>1
<1>9. \A i \in 1 .. Len(t) : t[i].match = (q => t[i].kind.hit)
  BY <1>5
<1>10. Kept!NumShown(t) \in Nat
  <2>1. DOMAIN t = 1 .. n
    BY <1>5, KeptElements
  <2>2. IsFiniteSet(1 .. n)
    BY FS_Interval
  <2>3. IsFiniteSet({i \in 1 .. n : t[i].shown})
    BY <2>2, FS_Subset
  <2>4. Cardinality({i \in 1 .. n : t[i].shown}) \in Nat
    BY <2>3, FS_CardinalityType
  <2> QED
    BY <2>1, <2>4 DEF Kept!NumShown, Kept!Cardinality, Cardinality
<1>11. Kept!RowsShowTheirLines'
  BY <1>3 DEF Kept!RowsShowTheirLines, Kept!NoRows
<1>12. Len(t) <= KeepLines /\ (Len(t) < KeepLines => totalLines = Len(t))
  BY <1>2, <1>5 DEF KeptInv
<1>13. wrapped' \in BOOLEAN
  BY <1>3 DEF KeptInv
<1> QED
  BY <1>1, <1>2, <1>3, <1>4, <1>5, <1>6, <1>7, <1>8, <1>9, <1>10, <1>11, <1>12, <1>13
     DEF KeptInv


\* A change of the heights, with the sums built again or, if it changes none,
\* kept.
LEMMA HeightsKeptInv ==
  ASSUME KeptInv, NEW t \in Seq(KeptLine), SameMarks(kept, t), kept' = t, IsCsum(csum', t),
         UNCHANGED <<query, ctx, filterTimer, tlTimes, totalLines, shownLines>>,
         wrapped' \in BOOLEAN, Kept!RowsShowTheirLines'
  PROVE  KeptInv'
<1>1. PICK n \in Nat : n = Len(kept) /\ kept \in Seq(KeptLine) /\ totalLines \in Nat
  BY KeptElements DEF KeptInv
<1>2. /\ Len(t) = n
      /\ \A i \in 1 .. n :
          /\ t[i].num = kept[i].num /\ t[i].kind = kept[i].kind /\ t[i].tsMs = kept[i].tsMs
          /\ t[i].match = kept[i].match /\ t[i].shown = kept[i].shown /\ t[i].ctxN = kept[i].ctxN
  BY <1>1 DEF SameMarks
<1>3. /\ NumbersFrom(t, totalLines) /\ MarksAgree(t, ctx)
      /\ Kept!NumShown(t) = Kept!NumShown(kept)
  <2>1. NumbersFrom(kept, totalLines) /\ MarksAgree(kept, ctx)
    BY DEF KeptInv
  <2>2. kept \in Seq(KeptLine) /\ totalLines \in Nat
    BY <1>1
  <2> QED
    BY <2>1, <2>2, SameMarksAgree
<1>4. tlTimes' = [i \in 1 .. Len(t) |-> t[i].tsMs]
  <2>1. tlTimes = [i \in 1 .. n |-> kept[i].tsMs]
    BY <1>1 DEF KeptInv
  <2> QED
    BY <1>2, <2>1
<1>5. ~filterTimer => \A i \in 1 .. Len(t) : t[i].match = (query => t[i].kind.hit)
  <2>1. ~filterTimer => \A i \in 1 .. n : kept[i].match = (query => kept[i].kind.hit)
    BY <1>1 DEF KeptInv
  <2> QED
    BY <1>2, <2>1
<1>6. /\ Len(t) <= KeepLines /\ (Len(t) < KeepLines => totalLines = Len(t))
      /\ totalLines = Len(t) => shownLines = Kept!NumShown(t)
      /\ query \in BOOLEAN /\ ctx \in BOOLEAN /\ filterTimer \in BOOLEAN /\ shownLines \in Nat
  BY <1>1, <1>2, <1>3 DEF KeptInv
<1> QED
  BY <1>1, <1>2, <1>3, <1>4, <1>5, <1>6 DEF KeptInv

\* Other heights keep the invariant.
LEMMA WrapChangeKeptInv ==
  ASSUME KeptInv, Kept!WrapChange
  PROVE  KeptInv'
<1>1. PICK n \in Nat : n = Len(kept) /\ kept \in Seq(KeptLine) /\ DOMAIN kept = 1 .. n
  BY KeptElements DEF KeptInv
<1> DEFINE made(i) == [kept[i] EXCEPT !.est = IF wrapped' THEN kept[i].kind.guess ELSE 1, !.h = 0]
<1>2. /\ wrapped' = ~wrapped
      /\ kept' = [i \in 1 .. n |-> made(i)]
      /\ csum' = Kept!RebuiltCsum(kept')
      /\ vpEls' = Kept!NoRows
      /\ UNCHANGED <<query, ctx, filterTimer, tlTimes, totalLines, shownLines>>
  BY <1>1 DEF Kept!WrapChange, Kept!filterVars, Kept!timelineVars
<1>3. ASSUME NEW i \in 1 .. n
      PROVE  /\ made(i) \in KeptLine
             /\ made(i).num = kept[i].num /\ made(i).kind = kept[i].kind
             /\ made(i).tsMs = kept[i].tsMs /\ made(i).match = kept[i].match
             /\ made(i).shown = kept[i].shown /\ made(i).ctxN = kept[i].ctxN
  <2>1. PICK l \in KeptLine : l = kept[i]
    BY <1>1, KeptElements
  <2>2. l.kind.guess \in Nat
    BY KeptAssumption DEF KeptLine
  <2>3. PICK e \in Nat : e = IF wrapped' THEN kept[i].kind.guess ELSE 1
    BY <2>1, <2>2
  <2>4. made(i) = [l EXCEPT !.est = e, !.h = 0]
    BY <2>1, <2>3
  <2>5. PICK k : k = made(i)
    OBVIOUS
  <2> HIDE DEF made
  <2>6. k = [num |-> l.num, kind |-> l.kind, tsMs |-> l.tsMs, match |-> l.match,
             shown |-> l.shown, ctxN |-> l.ctxN, h |-> 0, est |-> e]
    BY <2>3, <2>4, <2>5 DEF KeptLine
  <2> QED
    BY <2>1, <2>3, <2>5, <2>6 DEF KeptLine
<1> HIDE DEF made
<1>4. PICK t : t = kept'
  OBVIOUS
<1>5. t \in Seq(KeptLine) /\ Len(t) = n /\ \A i \in 1 .. n : t[i] = made(i)
  BY <1>2, <1>3, <1>4
<1>6. SameMarks(kept, t)
  BY <1>1, <1>3, <1>5 DEF SameMarks
<1>7. IsCsum(csum', t)
  BY <1>2, <1>4, <1>5, RebuiltIsCsum
<1>8. wrapped' \in BOOLEAN
  BY <1>2
<1>9. Kept!RowsShowTheirLines'
  BY <1>2 DEF Kept!RowsShowTheirLines, Kept!NoRows
<1> QED
  BY <1>2, <1>4, <1>5, <1>6, <1>7, <1>8, <1>9, HeightsKeptInv

\* Bisection over the sums finds the first line that ends below y.
LEMMA FirstAboveIsLeast ==
  ASSUME KeptInv, NEW n, n = Len(kept), NEW y \in Int,
         NEW k, k = Kept!VpFirstAbove(y)
  PROVE  IsLeast(k, 1, n + 1, {i \in 1 .. n : csum[i] > y})
<1>1. /\ n \in Nat /\ kept \in Seq(KeptLine) /\ DOMAIN kept = 1 .. n
      /\ IsCsum(csum, kept) /\ \A i \in 0 .. n : csum[i] \in Nat
  BY KeptElements DEF KeptInv, IsCsum
<1> DEFINE right == {i \in 1 .. n : csum[i] > y}
<1>2. \A i, j \in 1 .. n : i <= j /\ i \in right => j \in right
  <2> SUFFICES ASSUME NEW i \in 1 .. n, NEW j \in 1 .. n, i <= j, csum[i] > y
               PROVE  csum[j] > y
    OBVIOUS
  <2>1. i \in 0 .. Len(kept) /\ j \in 0 .. Len(kept)
    BY <1>1
  <2>2. csum[i] <= csum[j]
    BY <1>1, <2>1, CsumGrows
  <2> QED
    BY <1>1, <2>1, <2>2
<1>3. k = Kept!Bisect(n, right)
  BY <1>1 DEF Kept!VpFirstAbove
<1> HIDE DEF right
<1>4. IsLeast(Kept!Bisect(n, right), 1, n + 1, right)
  BY <1>1, <1>2, BisectIsLeast
<1> QED
  BY <1>3, <1>4 DEF right

\* A render, which measures the lines it draws, keeps the invariant.
LEMMA VpRenderKeptInv ==
  ASSUME KeptInv, NEW y \in Int, Kept!VpRender(y)
  PROVE  KeptInv'
<1>1. PICK n \in Nat : n = Len(kept) /\ kept \in Seq(KeptLine) /\ DOMAIN kept = 1 .. n
  BY KeptElements DEF KeptInv
<1>2. PICK drawn : drawn = Kept!ToDraw(y)
  OBVIOUS
<1>3. \A i \in drawn : i \in 1 .. n /\ kept[i].shown
  <2>1. PICK lo, hi : lo = Kept!VpFirstAbove(y - Over) /\ hi = Kept!VpFirstAbove(y + Height + Over)
    OBVIOUS
  <2>2. y - Over \in Int /\ y + Height + Over \in Int
    BY KeptAssumption
  <2>3. IsLeast(lo, 1, n + 1, {i \in 1 .. n : csum[i] > y - Over})
    BY <1>1, <2>1, <2>2, FirstAboveIsLeast
  <2>4. IsLeast(hi, 1, n + 1, {i \in 1 .. n : csum[i] > y + Height + Over})
    BY <1>1, <2>1, <2>2, FirstAboveIsLeast
  <2>5. lo \in 1 .. n + 1 /\ hi \in 1 .. n + 1
    BY <2>3, <2>4 DEF IsLeast
  <2>6. drawn = {i \in lo .. hi - 1 : kept[i].shown}
    BY <1>2, <2>1 DEF Kept!ToDraw
  <2> QED
    BY <1>1, <2>5, <2>6
<1> DEFINE made(i) == IF i \in drawn THEN [kept[i] EXCEPT !.h = Kept!OffsetHeight(kept[i].kind)]
                                     ELSE kept[i]
<1>4. /\ kept' = [i \in 1 .. n |-> made(i)]
      /\ csum' = IF kept' # kept THEN Kept!RebuiltCsum(kept') ELSE csum
      /\ vpEls' = [i \in drawn |->
                        [num  |-> IF i \in DOMAIN vpEls THEN vpEls[i].num ELSE kept[i].num,
                         ctxN |-> IF i \in DOMAIN vpEls THEN vpEls[i].ctxN ELSE kept[i].ctxN,
                         top  |-> csum'[i - 1]]]
      /\ UNCHANGED <<query, ctx, filterTimer, wrapped, tlTimes, totalLines, shownLines>>
  BY <1>1, <1>2 DEF Kept!VpRender, Kept!TopOf, Kept!filterVars, Kept!timelineVars
<1>5. ASSUME NEW i \in 1 .. n
      PROVE  /\ made(i) \in KeptLine
             /\ made(i).num = kept[i].num /\ made(i).kind = kept[i].kind
             /\ made(i).tsMs = kept[i].tsMs /\ made(i).match = kept[i].match
             /\ made(i).shown = kept[i].shown /\ made(i).ctxN = kept[i].ctxN
  <2>1. PICK l \in KeptLine : l = kept[i]
    BY <1>1, KeptElements
  <2>2. Kept!OffsetHeight(l.kind) \in Nat
    BY KeptAssumption DEF KeptLine, Kept!OffsetHeight
  <2>3. PICK e \in Nat : e = Kept!OffsetHeight(kept[i].kind)
    BY <2>1, <2>2
  <2>4. made(i) = IF i \in drawn THEN [l EXCEPT !.h = e] ELSE l
    BY <2>1, <2>3
  <2> HIDE DEF made
  <2> QED
    BY <2>1, <2>3, <2>4 DEF KeptLine
<1> HIDE DEF made
<1>6. PICK t : t = kept'
  OBVIOUS
<1>7. t \in Seq(KeptLine) /\ Len(t) = n /\ \A i \in 1 .. n : t[i] = made(i)
  BY <1>4, <1>5, <1>6
<1>8. SameMarks(kept, t)
  BY <1>1, <1>5, <1>7 DEF SameMarks
<1>9. IsCsum(csum', t)
  <2>1. CASE kept' # kept
    BY <1>4, <1>6, <1>7, <2>1, RebuiltIsCsum
  <2>2. CASE kept' = kept
    BY <1>4, <1>6, <2>2 DEF KeptInv
  <2> QED
    BY <2>1, <2>2
<1>10. wrapped' \in BOOLEAN
  BY <1>4 DEF KeptInv
<1>11. Kept!RowsShowTheirLines'
  <2>1. DOMAIN t = 1 .. n
    BY <1>7, KeptElements
  <2>2. DOMAIN vpEls' = drawn
    BY <1>4
  <2>3. ASSUME NEW i \in drawn
        PROVE  /\ i \in DOMAIN t
               /\ t[i].shown
               /\ vpEls'[i] = [num |-> t[i].num, ctxN |-> t[i].ctxN, top |-> csum'[i - 1]]
    <3>1. i \in 1 .. n /\ kept[i].shown
      BY <1>3
    <3>2. t[i].num = kept[i].num /\ t[i].shown = kept[i].shown /\ t[i].ctxN = kept[i].ctxN
      BY <1>1, <1>8, <3>1 DEF SameMarks
    <3>3. i \in DOMAIN vpEls => vpEls[i].num = kept[i].num /\ vpEls[i].ctxN = kept[i].ctxN
      <4>1. i \in DOMAIN vpEls => vpEls[i] = [num |-> kept[i].num, ctxN |-> kept[i].ctxN,
                                              top |-> csum[i - 1]]
        BY DEF KeptInv, Kept!RowsShowTheirLines
      <4> QED
        BY <4>1
    <3>4. vpEls'[i] = [num  |-> IF i \in DOMAIN vpEls THEN vpEls[i].num ELSE kept[i].num,
                       ctxN |-> IF i \in DOMAIN vpEls THEN vpEls[i].ctxN ELSE kept[i].ctxN,
                       top  |-> csum'[i - 1]]
      BY <1>4
    <3> QED
      BY <2>1, <3>1, <3>2, <3>3, <3>4
  <2> QED
    BY <1>6, <2>2, <2>3 DEF Kept!RowsShowTheirLines
<1> QED
  BY <1>4, <1>6, <1>7, <1>8, <1>9, <1>10, <1>11, HeightsKeptInv


-----------------------------------------------------------------------------

\* No lines are kept.
LEMMA EmptyKept ==
  ASSUME NEW ls, ls = <<>>, NEW sums, sums = [i \in {0} |-> 0], NEW c
  PROVE  /\ ls \in Seq(KeptLine) /\ Len(ls) = 0 /\ Len(ls) <= KeepLines
         /\ NumbersFrom(ls, 0) /\ IsCsum(sums, ls) /\ MarksAgree(ls, c)
         /\ <<>> = [i \in 1 .. Len(ls) |-> ls[i].tsMs]
         /\ \A i \in 1 .. Len(ls) : FALSE
         /\ Kept!NumShown(ls) = 0
<1>1. ls \in Seq(KeptLine) /\ Len(ls) = 0 /\ 1 .. Len(ls) = {} /\ DOMAIN ls = {}
  OBVIOUS
<1>2. Len(ls) <= KeepLines
  BY <1>1, KeptAssumption
<1>3. NumbersFrom(ls, 0) /\ MarksAgree(ls, c)
  BY <1>1 DEF NumbersFrom, MarksAgree
<1>4. IsCsum(sums, ls)
  <2>1. 0 .. Len(ls) = {0} /\ sums \in [{0} -> Nat] /\ sums[0] = 0
    BY <1>1
  <2> QED
    BY <1>1, <2>1 DEF IsCsum
<1>5. <<>> = [i \in 1 .. Len(ls) |-> ls[i].tsMs]
  BY <1>1
<1>6. Kept!NumShown(ls) = 0
  <2>1. {i \in DOMAIN ls : ls[i].shown} = {}
    BY <1>1
  <2>2. Cardinality({}) = 0
    BY FS_EmptySet
  <2> QED
    BY <2>1, <2>2 DEF Kept!NumShown, Kept!Cardinality, Cardinality
<1> QED
  BY <1>1, <1>2, <1>3, <1>4, <1>5, <1>6

\* What the least element of a set is.
LEMMA MinIs ==
  ASSUME NEW S \in SUBSET Int, NEW k \in S, \A x \in S : k <= x
  PROVE  Kept!Min(S) = k
<1>1. ASSUME NEW m \in S, \A x \in S : m <= x PROVE m = k
  <2>1. m <= k /\ k <= m /\ m \in Int /\ k \in Int
    BY <1>1
  <2> QED
    BY <2>1
<1>2. \E m \in S : \A x \in S : m <= x
  OBVIOUS
<1> DEFINE m == CHOOSE m \in S : \A x \in S : m <= x
<1>3. m \in S /\ \A x \in S : m <= x
  BY <1>2
<1>4. Kept!Min(S) = m
  BY DEF Kept!Min
<1> HIDE DEF m
<1> QED
  BY <1>1, <1>3, <1>4

\* What the greatest element of a set is.
LEMMA MaxIs ==
  ASSUME NEW S \in SUBSET Int, NEW k \in S, \A x \in S : k >= x
  PROVE  Kept!Max(S) = k
<1>1. ASSUME NEW m \in S, \A x \in S : m >= x PROVE m = k
  <2>1. m >= k /\ k >= m /\ m \in Int /\ k \in Int
    BY <1>1
  <2> QED
    BY <2>1
<1>2. \E m \in S : \A x \in S : m >= x
  OBVIOUS
<1> DEFINE m == CHOOSE m \in S : \A x \in S : m >= x
<1>3. m \in S /\ \A x \in S : m >= x
  BY <1>2
<1>4. Kept!Max(S) = m
  BY DEF Kept!Max
<1> HIDE DEF m
<1> QED
  BY <1>1, <1>3, <1>4

\* Lines are equal if their fields are.
LEMMA LinesEqual ==
  ASSUME NEW a \in KeptLine, NEW b \in KeptLine,
         a.num = b.num, a.kind = b.kind, a.tsMs = b.tsMs, a.match = b.match,
         a.shown = b.shown, a.ctxN = b.ctxN, a.h = b.h, a.est = b.est
  PROVE  a = b
  BY DEF KeptLine

\* A view that is cleared keeps the invariant.
LEMMA ResetKeptInv ==
  ASSUME KeptInv, Kept!Reset
  PROVE  KeptInv'
<1>1. /\ kept' = <<>> /\ csum' = [i \in {0} |-> 0] /\ tlTimes' = <<>>
      /\ shownLines' = 0 /\ totalLines' = 0 /\ vpEls' = Kept!NoRows
      /\ UNCHANGED <<query, ctx, filterTimer, wrapped>>
  BY DEF Kept!Reset, Kept!filterVars
<1>2. PICK ls, sums, c : ls = kept' /\ sums = csum' /\ c = ctx'
  OBVIOUS
<1>3. /\ ls \in Seq(KeptLine) /\ Len(ls) = 0 /\ Len(ls) <= KeepLines
      /\ NumbersFrom(ls, 0) /\ IsCsum(sums, ls) /\ MarksAgree(ls, c)
      /\ <<>> = [i \in 1 .. Len(ls) |-> ls[i].tsMs]
      /\ \A i \in 1 .. Len(ls) : FALSE
      /\ Kept!NumShown(ls) = 0
  <2>1. ls = <<>> /\ sums = [i \in {0} |-> 0]
    BY <1>1, <1>2
  <2> QED
    BY <2>1, EmptyKept
<1>4. Kept!RowsShowTheirLines'
  BY <1>1 DEF Kept!RowsShowTheirLines, Kept!NoRows
<1>5. query' \in BOOLEAN /\ ctx' \in BOOLEAN /\ wrapped' \in BOOLEAN /\ filterTimer' \in BOOLEAN
  BY <1>1 DEF KeptInv
<1> QED
  BY <1>1, <1>2, <1>3, <1>4, <1>5 DEF KeptInv

\* Each step keeps it.
LEMMA NextKeptInv == KeptInv /\ [Kept!Next]_Kept!vars => KeptInv'
<1> SUFFICES ASSUME KeptInv, [Kept!Next]_Kept!vars
             PROVE  KeptInv'
  OBVIOUS
<1>1. ASSUME NEW kind \in Kinds, NEW tsMs \in 1 .. MaxTs, Kept!AddLine(kind, tsMs)
      PROVE  KeptInv'
  BY <1>1, AddLineKeptInv
<1>2. CASE Kept!FilterInput
  <2>1. /\ query' = ~query /\ filterTimer' = TRUE
        /\ UNCHANGED <<ctx, wrapped, kept, csum, tlTimes, shownLines, totalLines, vpEls>>
    BY <1>2 DEF Kept!FilterInput, Kept!timelineVars
  <2>2. Kept!RowsShowTheirLines'
    BY <2>1 DEF KeptInv, Kept!RowsShowTheirLines
  <2> QED
    BY <2>1, <2>2 DEF KeptInv
<1>3. CASE Kept!FilterTimer
  <2>1. query' \in BOOLEAN /\ ctx' \in BOOLEAN /\ filterTimer' \in BOOLEAN /\ Kept!ApplyLogFilter
    BY <1>3 DEF KeptInv, Kept!FilterTimer
  <2> QED
    BY <2>1, ApplyFilterKeptInv
<1>4. CASE Kept!ContextChange
  <2>1. query' \in BOOLEAN /\ ctx' \in BOOLEAN /\ filterTimer' \in BOOLEAN /\ Kept!ApplyLogFilter
    BY <1>4 DEF KeptInv, Kept!ContextChange
  <2> QED
    BY <2>1, ApplyFilterKeptInv
<1>5. CASE Kept!WrapChange
  BY <1>5, WrapChangeKeptInv
<1>6. ASSUME UNCHANGED <<query, ctx, filterTimer, wrapped, kept, csum, tlTimes, shownLines,
                         totalLines, vpEls>>
      PROVE  KeptInv'
  <2>1. Kept!RowsShowTheirLines'
    BY <1>6 DEF KeptInv, Kept!RowsShowTheirLines
  <2> QED
    BY <1>6, <2>1 DEF KeptInv
<1>7. CASE Kept!Scroll
  BY <1>6, <1>7 DEF Kept!Scroll, Kept!filterVars, Kept!timelineVars
<1>8. ASSUME NEW y \in Kept!ScrollTops, Kept!VpRender(y)
      PROVE  KeptInv'
  <2>1. y \in Int
    BY DEF Kept!ScrollTops
  <2> QED
    BY <1>8, <2>1, VpRenderKeptInv
<1>9. ASSUME NEW t, Kept!ClickTimeline(t)
      PROVE  KeptInv'
  BY <1>6, <1>9 DEF Kept!ClickTimeline, Kept!filterVars, Kept!timelineVars
<1>10. CASE Kept!MarkExpires
  BY <1>6, <1>10 DEF Kept!MarkExpires, Kept!filterVars, Kept!timelineVars
<1>11. CASE Kept!Reset
  BY <1>11, ResetKeptInv
<1>12. CASE UNCHANGED Kept!vars
  BY <1>6, <1>12 DEF Kept!vars, Kept!filterVars, Kept!timelineVars
<1> QED
  BY <1>1, <1>2, <1>3, <1>4, <1>5, <1>7, <1>8, <1>9, <1>10, <1>11, <1>12 DEF Kept!Next

\* It holds at first.
LEMMA InitKeptInv == Kept!Init => KeptInv
<1> SUFFICES ASSUME Kept!Init PROVE KeptInv
  OBVIOUS
<1>1. /\ query \in BOOLEAN /\ ctx \in BOOLEAN /\ wrapped \in BOOLEAN /\ filterTimer = FALSE
      /\ kept = <<>> /\ csum = [i \in {0} |-> 0] /\ tlTimes = <<>>
      /\ shownLines = 0 /\ totalLines = 0 /\ vpEls = Kept!NoRows
  BY DEF Kept!Init
<1>2. PICK ls, sums, c : ls = kept /\ sums = csum /\ c = ctx
  OBVIOUS
<1>3. /\ ls \in Seq(KeptLine) /\ Len(ls) = 0 /\ Len(ls) <= KeepLines
      /\ NumbersFrom(ls, 0) /\ IsCsum(sums, ls) /\ MarksAgree(ls, c)
      /\ <<>> = [i \in 1 .. Len(ls) |-> ls[i].tsMs]
      /\ \A i \in 1 .. Len(ls) : FALSE
      /\ Kept!NumShown(ls) = 0
  <2>1. ls = <<>> /\ sums = [i \in {0} |-> 0]
    BY <1>1, <1>2
  <2> QED
    BY <2>1, EmptyKept
<1>4. Kept!RowsShowTheirLines
  BY <1>1 DEF Kept!RowsShowTheirLines, Kept!NoRows
<1> QED
  BY <1>1, <1>2, <1>3, <1>4 DEF KeptInv

\* What the invariant says of the three properties.
LEMMA KeptInvShows ==
  ASSUME KeptInv
  PROVE  Kept!ForgetsTheSameLines /\ Kept!FilterIsIncremental /\ Kept!RowsShowTheirLines
<1>1. PICK n \in Nat : n = Len(kept) /\ kept \in Seq(KeptLine) /\ DOMAIN kept = 1 .. n
  BY KeptElements DEF KeptInv
<1>2. totalLines \in Nat /\ KeepLines \in Nat \ {0}
  BY KeptAssumption DEF KeptInv
<1>3. /\ n <= totalLines /\ n <= KeepLines /\ (n < KeepLines => totalLines = n)
      /\ \A i \in 1 .. n : kept[i].num = i + (totalLines - n)
  BY <1>1 DEF KeptInv, NumbersFrom
<1>4. Kept!ForgetsTheSameLines
  <2>1. Kept!Min({totalLines, KeepLines}) = n
    <3> DEFINE S == {totalLines, KeepLines}
    <3>1. S \in SUBSET Int /\ n \in S /\ \A x \in S : n <= x
      BY <1>1, <1>2, <1>3
    <3> HIDE DEF S
    <3>2. Kept!Min(S) = n
      BY <3>1, MinIs
    <3> QED
      BY <3>2 DEF S
  <2>5. Kept!Max({totalLines - KeepLines, 0}) = totalLines - n
    <3> DEFINE S == {totalLines - KeepLines, 0}
    <3>1. PICK k \in Int : k = totalLines - n
      BY <1>1, <1>2
    <3>2. S \in SUBSET Int /\ k \in S /\ \A x \in S : k >= x
      BY <1>1, <1>2, <1>3, <3>1
    <3> HIDE DEF S
    <3>3. Kept!Max(S) = k
      BY <3>2, MaxIs
    <3> QED
      BY <3>1, <3>3 DEF S
  <2>2. [i \in 1 .. n |-> kept[i].num] = [i \in 1 .. n |-> i + (totalLines - n)]
    BY <1>3
  <2>3. csum = Kept!RebuiltCsum(kept)
    BY <1>1, RebuiltIsCsum DEF KeptInv
  <2>4. tlTimes = [i \in 1 .. n |-> kept[i].tsMs]
    BY <1>1 DEF KeptInv
  <2> QED
    BY <1>1, <2>1, <2>2, <2>3, <2>4, <2>5 DEF Kept!ForgetsTheSameLines
<1>5. Kept!FilterIsIncremental
  <2> SUFFICES ASSUME ~filterTimer
               PROVE  LET all == Kept!Filtered(kept, query, ctx)
                      IN  /\ \A i \in DOMAIN kept :
                                \/ kept[i] = all[i]
                                \/ (i = 1 /\ kept[i].num > 1 /\ kept[i].ctxN /\ ~all[i].shown)
                          /\ totalLines = Len(kept) => shownLines = Kept!NumShown(kept)
    BY DEF Kept!FilterIsIncremental
  <2>1. query \in BOOLEAN /\ ctx \in BOOLEAN /\ MarksAgree(kept, ctx)
    BY DEF KeptInv
  <2>2. \A i \in 1 .. n : kept[i].match = (query => kept[i].kind.hit)
    BY <1>1 DEF KeptInv
  <2>3. PICK all : all = Kept!Filtered(kept, query, ctx)
    OBVIOUS
  <2>4. /\ all \in Seq(KeptLine) /\ Len(all) = n
        /\ \A i \in 1 .. n :
              /\ all[i].num = kept[i].num /\ all[i].kind = kept[i].kind
              /\ all[i].tsMs = kept[i].tsMs /\ all[i].h = kept[i].h /\ all[i].est = kept[i].est
              /\ all[i].match = (query => kept[i].kind.hit)
              /\ all[i].ctxN = (ctx /\ ~all[i].match /\ NearMatch(all, i))
              /\ all[i].shown = (all[i].match \/ all[i].ctxN)
    <3>1. kept \in Seq(KeptLine)
      BY <1>1
    <3>2. /\ all \in Seq(KeptLine) /\ Len(all) = Len(kept)
          /\ \A i \in 1 .. Len(kept) :
              /\ all[i].num = kept[i].num /\ all[i].kind = kept[i].kind
              /\ all[i].tsMs = kept[i].tsMs /\ all[i].h = kept[i].h /\ all[i].est = kept[i].est
              /\ all[i].match = (query => kept[i].kind.hit)
              /\ all[i].ctxN = (ctx /\ ~all[i].match /\ NearMatch(all, i))
          /\ MarksAgree(all, ctx)
      <4>1. IsFiltered(Kept!Filtered(kept, query, ctx), kept, query, ctx)
        BY <2>1, <3>1, FilteredLines
      <4> QED
        BY <2>3, <4>1 DEF IsFiltered
    <3> QED
      BY <1>1, <3>2 DEF MarksAgree
  <2>5. ASSUME NEW i \in 1 .. n
        PROVE  \/ kept[i] = all[i]
               \/ (i = 1 /\ kept[i].num > 1 /\ kept[i].ctxN /\ ~all[i].shown)
    <3>1. NearMatch(all, i) = NearMatch(kept, i)
      <4>1. i > 1 => i - 1 \in 1 .. n
        BY <1>1
      <4>2. i < n => i + 1 \in 1 .. n
        BY <1>1
      <4>3. i > 1 => all[i - 1].match = kept[i - 1].match
        BY <2>2, <2>4, <4>1
      <4>4. i < n => all[i + 1].match = kept[i + 1].match
        BY <2>2, <2>4, <4>2
      <4> QED
        BY <1>1, <2>4, <4>3, <4>4 DEF NearMatch
    <3>2. /\ kept[i].shown = (kept[i].match \/ kept[i].ctxN)
          /\ kept[i].ctxN => /\ ctx /\ ~kept[i].match
                             /\ NearMatch(kept, i) \/ (i = 1 /\ kept[i].num > 1)
          /\ ctx /\ ~kept[i].match /\ NearMatch(kept, i) => kept[i].ctxN
      BY <1>1, <2>1 DEF MarksAgree
    <3>3. /\ all[i].ctxN = (ctx /\ ~kept[i].match /\ NearMatch(kept, i))
          /\ all[i].match = kept[i].match /\ all[i].shown = (kept[i].match \/ all[i].ctxN)
      BY <2>2, <2>4, <3>1
    <3>4. all[i] \in KeptLine /\ kept[i] \in KeptLine
      BY <1>1, <2>4, KeptElements
    <3>5. CASE all[i].ctxN = kept[i].ctxN
      <4>1. all[i].shown = kept[i].shown
        BY <3>2, <3>3, <3>5
      <4> QED
        BY <2>4, <3>3, <3>4, <3>5, <4>1, LinesEqual
    <3>6. CASE all[i].ctxN # kept[i].ctxN
      <4>1. kept[i].ctxN \in BOOLEAN /\ all[i].ctxN \in BOOLEAN
        BY <3>4 DEF KeptLine
      <4> QED
        BY <3>2, <3>3, <3>6, <4>1
    <3> QED
      BY <3>5, <3>6
  <2> QED
    BY <1>1, <2>3, <2>5 DEF KeptInv
<1> QED
  BY <1>4, <1>5 DEF KeptInv


\* The lines that the viewer numbers, the sums of their heights and the times
\* behind the timeline are of the same lines: the newest, at most KeepLines.
THEOREM SameLinesForgotten == Kept!Spec => [](Kept!ForgetsTheSameLines)
BY KeptInvShows, InitKeptInv, NextKeptInv, PTL DEF Kept!Spec

\* The marks that lines get one by one are those of a filter of all lines.
THEOREM FilteredAsTheyCome == Kept!Spec => [](Kept!FilterIsIncremental)
BY KeptInvShows, InitKeptInv, NextKeptInv, PTL DEF Kept!Spec

\* No row is left in the document that shows another line than that of its index.
THEOREM RowsAreOfLines == Kept!Spec => [](Kept!RowsShowTheirLines)
BY KeptInvShows, InitKeptInv, NextKeptInv, PTL DEF Kept!Spec

\* The invariant holds in the behaviours that the run checks.
LEMMA KeptInParts == PartsSpec => [](part = "kept" => KeptInv)
<1> DEFINE Inv == part = "kept" => KeptInv
<1>1. PartsInit => Inv
  BY InitKeptInv DEF PartsInit
<1>2. Inv /\ [PartsNext]_partsVars => Inv'
  <2> SUFFICES ASSUME part = "kept" => KeptInv, [PartsNext]_partsVars, part' = "kept"
               PROVE  KeptInv'
    OBVIOUS
  <2>1. KeptInv /\ [Kept!Next]_(Kept!vars)
    BY DEF PartsNext, partsVars, keptVars, Kept!vars, Kept!filterVars, Kept!timelineVars
  <2> QED
    BY <2>1, NextKeptInv
<1> QED
  BY <1>1, <1>2, PTL DEF PartsSpec

\* The same lines are forgotten, in the behaviours that the run checks.
THEOREM SameLinesForgottenInParts == PartsSpec => []ForgetsTheSameLines
<1>1. (part = "kept" => KeptInv) => ForgetsTheSameLines
  BY KeptInvShows DEF ForgetsTheSameLines
<1> QED
  BY <1>1, KeptInParts, PTL

\* Lines are filtered as they come, in the behaviours that the run checks.
THEOREM FilteredAsTheyComeInParts == PartsSpec => []FilterIsIncremental
<1>1. (part = "kept" => KeptInv) => FilterIsIncremental
  BY KeptInvShows DEF FilterIsIncremental
<1> QED
  BY <1>1, KeptInParts, PTL

\* Rows show their lines, in the behaviours that the run checks.
THEOREM RowsAreOfLinesInParts == PartsSpec => []RowsShowTheirLines
<1>1. (part = "kept" => KeptInv) => RowsShowTheirLines
  BY KeptInvShows DEF RowsShowTheirLines
<1> QED
  BY <1>1, KeptInParts, PTL

\* Bisection over the times and the search for a shown line among the next ones
\* lead to the line the click is for.
LEMMA ClickLeadsToTime ==
  ASSUME KeptInv, NEW t \in Nat, Kept!ClickTimeline(t)
  PROVE  Kept!FindsTime(t)
<1>1. PICK n \in Nat : /\ n = Len(kept) /\ n > 0 /\ kept \in Seq(KeptLine) /\ DOMAIN kept = 1 .. n
                       /\ \A i \in 1 .. n : kept[i].tsMs \in Nat /\ kept[i].shown \in BOOLEAN
  <2>1. kept \in Seq(KeptLine) /\ kept # <<>>
    BY DEF KeptInv, Kept!ClickTimeline
  <2>2. Len(kept) \in Nat /\ Len(kept) > 0
    BY <2>1, KeptElements, EmptySeq
  <2> QED
    BY <2>1, <2>2, KeptElements
<1> DEFINE right == {i \in 1 .. n : kept[i].tsMs >= t}
<1>3. PICK from : from = Kept!VpLowerBound(t)
  OBVIOUS
<1>4. IsEdge(from, 1, n + 1, right)
  <2>1. from = Kept!Bisect(n, right)
    BY <1>1, <1>3 DEF Kept!VpLowerBound
  <2> HIDE DEF right
  <2> QED
    BY <2>1, BisectIsEdge
<1>5. /\ from \in 1 .. n + 1
      /\ from > 1 => from - 1 \in 1 .. n /\ kept[from - 1].tsMs < t
      /\ from <= n => kept[from].tsMs >= t
  <2>1. from \in 1 .. n + 1
    BY <1>4 DEF IsEdge
  <2>2. ASSUME from > 1 PROVE from - 1 \in 1 .. n /\ kept[from - 1].tsMs < t
    <3>1. from - 1 \in 1 .. n /\ from - 1 \notin right
      BY <1>4, <2>1, <2>2 DEF IsEdge
    <3> QED
      BY <1>1, <3>1
  <2>3. ASSUME from <= n PROVE kept[from].tsMs >= t
    <3>1. from \in right
      BY <1>4, <2>1, <2>3 DEF IsEdge
    <3> QED
      BY <3>1
  <2> QED
    BY <2>1, <2>2, <2>3
<1> HIDE DEF right
<1>7. PICK to : to = Kept!Min({n, from + Window - 1})
  OBVIOUS
<1>m. ASSUME NEW a \in Int, NEW b \in Int
      PROVE  Kept!Min({a, b}) = IF a <= b THEN a ELSE b
  <2>1. {a, b} \in SUBSET Int /\ a \in {a, b} /\ b \in {a, b}
    OBVIOUS
  <2>2. CASE a <= b
    <3>1. \A x \in {a, b} : a <= x
      BY <2>2
    <3> QED
      BY <2>1, <2>2, <3>1, MinIs
  <2>3. CASE ~(a <= b)
    <3>1. \A x \in {a, b} : b <= x
      BY <2>3
    <3> QED
      BY <2>1, <2>3, <3>1, MinIs
  <2> QED
    BY <2>2, <2>3
<1>8. to \in Int /\ to <= n
  <2>1. from + Window - 1 \in Int
    BY <1>5, KeptAssumption
  <2> QED
    BY <1>7, <1>m, <2>1
<1> DEFINE near == {i \in from .. to : kept[i].shown}
<1>9. PICK first : first = IF near # {} THEN Kept!Min(near) ELSE from
  OBVIOUS
<1>10. markIndex' = Kept!Min({n, first})
  BY <1>1, <1>3, <1>7, <1>9 DEF Kept!ClickTimeline, Kept!JumpTarget
<1>11. /\ first \in Nat /\ first >= from /\ (first > n => from = n + 1)
       /\ from > n => first = from
       /\ \A j \in from .. first - 1 : ~kept[j].shown
  <2>1. CASE near # {}
    <3>1. near \in SUBSET Nat
      BY <1>5
    <3>2. PICK k \in near : \A m \in near : k <= m
      <4> HIDE DEF near
      <4> QED
        BY <2>1, <3>1, LeastNat
    <3>3. first = k
      <4>1. near \in SUBSET Int
        BY <3>1
      <4> HIDE DEF near
      <4>2. Kept!Min(near) = k
        BY <3>2, <4>1, MinIs
      <4> QED
        BY <1>9, <2>1, <4>2
    <3>4. k \in Nat /\ k >= from /\ k <= n /\ k <= to
      BY <1>1, <1>5, <1>8, <3>2
    <3>5. ASSUME NEW j \in from .. k - 1, kept[j].shown PROVE FALSE
      <4>1. j \in near /\ j < k /\ j \in Nat
        BY <1>5, <1>8, <3>4, <3>5
      <4> QED
        BY <3>2, <3>4, <4>1
    <3> QED
      BY <1>1, <1>5, <3>3, <3>4, <3>5
  <2>2. CASE near = {}
    <3>1. first = from
      <4> HIDE DEF near
      <4> QED
        BY <1>9, <2>2
    <3> QED
      BY <1>1, <1>5, <3>1
  <2> QED
    BY <2>1, <2>2
<1>12. PICK m \in 1 .. n : /\ m = markIndex' /\ m <= first
                           /\ (from <= n => m >= from) /\ (from > n => m = n)
  <2>1. Kept!Min({n, first}) = IF n <= first THEN n ELSE first
    BY <1>1, <1>11, <1>m
  <2> QED
    BY <1>1, <1>5, <1>10, <1>11, <2>1
<1>i. /\ n \in Int /\ from \in Int /\ first \in Int /\ m \in Int
      /\ from >= 1 /\ m <= n /\ m <= first
  <2>1. n \in Int /\ from \in Int /\ from >= 1
    BY <1>1, <1>5
  <2>2. first \in Int
    BY <1>11
  <2>3. m \in 1 .. n /\ m <= first
    BY <1>12
  <2> QED
    BY <2>1, <2>2, <2>3
<1>13. \A j \in from .. m - 1 : ~kept[j].shown
  <2> SUFFICES ASSUME NEW j \in from .. m - 1 PROVE ~kept[j].shown
    OBVIOUS
  <2>1. j \in from .. first - 1
    BY <1>i
  <2> QED
    BY <1>11, <2>1
<1>14. Kept!CrossesTime(t)
  <2>1. m >= Kept!Min({n, from})
    <3>1. Kept!Min({n, from}) = IF n <= from THEN n ELSE from
      BY <1>1, <1>5, <1>m
    <3> QED
      BY <1>1, <1>5, <1>12, <3>1
  <2> QED
    BY <1>1, <1>5, <1>12, <1>13, <2>1 DEF Kept!CrossesTime
<1>15. ASSUME Kept!InOrderAt(t)
       PROVE  Kept!FirstOfTime(t)
  <2>1. \A i, j \in 1 .. n : i <= j /\ kept[i].tsMs >= t => kept[j].tsMs >= t
    <3> SUFFICES ASSUME NEW i \in 1 .. n, NEW j \in 1 .. n, i <= j, kept[i].tsMs >= t
                 PROVE  kept[j].tsMs >= t
      OBVIOUS
    <3>1. CASE i < j
      BY <1>1, <1>15, <3>1 DEF Kept!InOrderAt
    <3>2. CASE i = j
      BY <3>2
    <3> QED
      BY <3>1, <3>2
  <2>2. \A i \in 1 .. n : kept[i].tsMs >= t => i >= from
    <3> SUFFICES ASSUME NEW i \in 1 .. n, kept[i].tsMs >= t, i < from PROVE FALSE
      BY <1>5
    <3>1. from > 1 /\ from - 1 \in 1 .. n /\ i <= from - 1 /\ kept[from - 1].tsMs < t
      BY <1>5
    <3>2. kept[from - 1].tsMs >= t
      BY <2>1, <3>1
    <3> QED
      BY <1>1, <3>1, <3>2
  <2>3. (\E i \in 1 .. n : kept[i].tsMs >= t) => kept[m].tsMs >= t
    <3> SUFFICES ASSUME NEW i \in 1 .. n, kept[i].tsMs >= t PROVE kept[m].tsMs >= t
      OBVIOUS
    <3>1. from <= n /\ from \in 1 .. n
      BY <1>5, <2>2
    <3>2. kept[from].tsMs >= t /\ m >= from
      BY <1>5, <1>12, <3>1
    <3> QED
      BY <2>1, <3>1, <3>2
  <2>4. \A i \in 1 .. m - 1 : kept[i].tsMs >= t => ~kept[i].shown
    <3> SUFFICES ASSUME NEW i \in 1 .. m - 1, kept[i].tsMs >= t PROVE ~kept[i].shown
      OBVIOUS
    <3>1. i \in 1 .. n
      BY <1>i
    <3>2. i >= from
      BY <2>2, <3>1
    <3>3. i \in from .. m - 1
      BY <1>i, <3>2
    <3> QED
      BY <1>13, <3>3
  <2> QED
    BY <1>1, <1>12, <2>3, <2>4 DEF Kept!FirstOfTime
<1> QED
  BY <1>14, <1>15 DEF Kept!FindsTime

\* A click on the timeline leads to a place where the log passes the time
\* clicked, in whatever order the lines have come, and to the first shown line of
\* that time or later if the lines are in order around it.
THEOREM ClicksLeadToTimes == Kept!Spec => Kept!ClickFindsTime
<1>1. KeptInv =>
          [\A t \in 1 .. MaxTs + 1 : Kept!ClickTimeline(t) => Kept!FindsTime(t)]_(Kept!vars)
  <2>1. \A t \in 1 .. MaxTs + 1 : t \in Nat
    BY KeptAssumption
  <2> QED
    BY <2>1, ClickLeadsToTime
<1> QED
  BY <1>1, InitKeptInv, NextKeptInv, PTL DEF Kept!Spec, Kept!ClickFindsTime

\* The same, in the behaviours that the run checks.
THEOREM ClicksLeadToTimesInParts == PartsSpec => ClickFindsTime
<1>1. (part = "kept" => KeptInv) =>
          [part = "kept" =>
              \A t \in 1 .. MaxTs + 1 : Kept!ClickTimeline(t) => Kept!FindsTime(t)]_keptVars
  <2>1. \A t \in 1 .. MaxTs + 1 : t \in Nat
    BY KeptAssumption
  <2> QED
    BY <2>1, ClickLeadsToTime
<1> QED
  BY <1>1, KeptInParts, PTL DEF ClickFindsTime

-----------------------------------------------------------------------------
(* The table of containers (Tables): order, and moves of a row              *)

\* The pairs of R order the elements of S one after the other.
Orders(R, S) ==
    /\ \A x, y \in S : x # y => <<x, y>> \in R \/ <<y, x>> \in R
    /\ \A x, y \in S : <<x, y>> \in R => <<y, x>> \notin R
    /\ \A x, y, z \in S : <<x, y>> \in R /\ <<y, z>> \in R => <<x, z>> \in R

\* The function f puts the elements of S into that order.
Lists(f, R, S) ==
    /\ f \in [1 .. Cardinality(S) -> S]
    /\ \A i, j \in DOMAIN f : i < j => <<f[i], f[j]>> \in R

\* A list of a finite set has each element once.
LEMMA ListsAll ==
  ASSUME NEW S, IsFiniteSet(S), NEW R, Orders(R, S), NEW f, Lists(f, R, S)
  PROVE  /\ Cardinality(S) \in Nat
         /\ \A i, j \in DOMAIN f : f[i] = f[j] => i = j
         /\ \A x \in S : \E i \in DOMAIN f : f[i] = x
<1>1. PICK n \in Nat : n = Cardinality(S)
  BY FS_CardinalityType
<1>2. f \in [1 .. n -> S] /\ DOMAIN f = 1 .. n
  BY <1>1 DEF Lists
<1>3. ASSUME NEW i \in 1 .. n, NEW j \in 1 .. n, f[i] = f[j], i < j
      PROVE  FALSE
  <2>1. <<f[i], f[j]>> \in R /\ f[i] \in S /\ f[j] \in S
    BY <1>2, <1>3 DEF Lists
  <2> QED
    BY <1>3, <2>1 DEF Orders
<1>4. \A i, j \in 1 .. n : f[i] = f[j] => i = j
  <2> SUFFICES ASSUME NEW i \in 1 .. n, NEW j \in 1 .. n, f[i] = f[j], i # j PROVE FALSE
    OBVIOUS
  <2>1. i < j \/ j < i
    OBVIOUS
  <2> QED
    BY <1>3, <2>1
<1>5. f \in Injection(1 .. n, S)
  BY <1>2, <1>4 DEF Injection, IsInjective
<1>6. Cardinality(1 .. n) = n
  <2>1. Cardinality(1 .. n) = IF 1 > n THEN 0 ELSE n - 1 + 1
    BY FS_Interval
  <2> QED
    BY <2>1
<1>7. f \in Surjection(1 .. n, S)
  BY <1>1, <1>5, <1>6, FS_Injection
<1> QED
  BY <1>1, <1>2, <1>4, <1>7 DEF Surjection

\* What is ordered can be listed: the greatest element goes last.
LEMMA ListExists ==
  ASSUME NEW K, IsFiniteSet(K), NEW R, Orders(R, K)
  PROVE  \E f : Lists(f, R, K)
<1> DEFINE G == {s \in SUBSET K : \E f : Lists(f, R, s)}
<1>0. {} \in G
  <2>1. Cardinality({}) = 0
    BY FS_EmptySet
  <2> DEFINE f == [i \in 1 .. 0 |-> 0]
  <2>2. f \in [1 .. 0 -> {}] /\ DOMAIN f = {}
    OBVIOUS
  <2>3. Lists(f, R, {})
    BY <2>1, <2>2 DEF Lists
  <2> QED
    BY <2>3
<1>1. ASSUME NEW s \in SUBSET K, s # {}, \A x \in s : s \ {x} \in G
      PROVE  s \in G
  <2>f. IsFiniteSet(s)
    BY FS_Subset
  <2>o. ASSUME NEW x
        PROVE  Orders(R, s) /\ Orders(R, s \ {x})
    BY DEF Orders
  <2>c. ASSUME NEW x \in s
        PROVE  /\ IsFiniteSet(s \ {x}) /\ Cardinality(s \ {x}) \in Nat
               /\ Cardinality(s) = Cardinality(s \ {x}) + 1
    <3>1. IsFiniteSet(s \ {x}) /\ Cardinality(s \ {x}) = Cardinality(s) - 1
      BY <2>f, FS_RemoveElement
    <3>2. Cardinality(s \ {x}) \in Nat /\ Cardinality(s) \in Nat
      BY <2>f, <3>1, FS_CardinalityType
    <3> QED
      BY <3>1, <3>2
  <2>1. \E x \in s : \A y \in s : y # x => <<y, x>> \in R
    <3>1. PICK a : a \in s
      BY <1>1
    <3>2. PICK g : Lists(g, R, s \ {a})
      BY <1>1, <3>1
    <3>3. PICK n \in Nat : n = Cardinality(s \ {a})
      BY <2>c, <3>1
    <3>4. g \in [1 .. n -> s \ {a}] /\ DOMAIN g = 1 .. n
      BY <3>2, <3>3 DEF Lists
    <3>5. \A y \in s \ {a} : \E i \in 1 .. n : g[i] = y
      <4>1. IsFiniteSet(s \ {a}) /\ Orders(R, s \ {a})
        BY <2>c, <2>o, <3>1
      <4> QED
        BY <3>2, <3>4, <4>1, ListsAll
    <3>6. CASE n = 0
      BY <3>1, <3>5, <3>6
    <3>7. CASE n # 0
      <4>1. n \in 1 .. n
        BY <3>7
      <4>2. g[n] \in s /\ g[n] # a
        BY <3>4, <4>1
      <4>3. \A y \in s \ {a} : y # g[n] => <<y, g[n]>> \in R
        <5> SUFFICES ASSUME NEW y \in s \ {a}, y # g[n] PROVE <<y, g[n]>> \in R
          OBVIOUS
        <5>1. PICK i \in 1 .. n : g[i] = y
          BY <3>5
        <5>2. i < n
          BY <5>1
        <5> QED
          BY <3>2, <3>4, <4>1, <5>1, <5>2 DEF Lists
      <4>4. CASE <<a, g[n]>> \in R
        BY <4>2, <4>3, <4>4
      <4>5. CASE <<g[n], a>> \in R
        <5>1. \A y \in s \ {a} : <<y, a>> \in R
          BY <2>o, <3>1, <4>2, <4>3, <4>5 DEF Orders
        <5> QED
          BY <3>1, <5>1
      <4> QED
        BY <2>o, <3>1, <4>2, <4>4, <4>5 DEF Orders
    <3> QED
      BY <3>6, <3>7
  <2>2. PICK x \in s : \A y \in s : y # x => <<y, x>> \in R
    BY <2>1
  <2>3. PICK g : Lists(g, R, s \ {x})
    BY <1>1
  <2>4. PICK n \in Nat : n = Cardinality(s \ {x}) /\ Cardinality(s) = n + 1
    BY <2>c
  <2>5. g \in [1 .. n -> s \ {x}] /\ DOMAIN g = 1 .. n
    BY <2>3, <2>4 DEF Lists
  <2> DEFINE f == [i \in 1 .. n + 1 |-> IF i = n + 1 THEN x ELSE g[i]]
  <2>6. \A i \in 1 .. n + 1 : i # n + 1 => i \in 1 .. n
    OBVIOUS
  <2>7. f \in [1 .. Cardinality(s) -> s] /\ DOMAIN f = 1 .. n + 1
    BY <2>4, <2>5, <2>6
  <2>8. ASSUME NEW i \in 1 .. n + 1, NEW j \in 1 .. n + 1, i < j
        PROVE  <<f[i], f[j]>> \in R
    <3>1. i \in 1 .. n /\ f[i] = g[i]
      BY <2>8
    <3>2. CASE j = n + 1
      <4>1. f[j] = x /\ g[i] \in s /\ g[i] # x
        BY <2>5, <3>1, <3>2
      <4> QED
        BY <2>2, <3>1, <4>1
    <3>3. CASE j # n + 1
      <4>1. j \in 1 .. n /\ f[j] = g[j]
        BY <3>3
      <4> QED
        BY <2>3, <2>5, <2>8, <3>1, <4>1 DEF Lists
    <3> QED
      BY <3>2, <3>3
  <2>9. Lists(f, R, s)
    <3> HIDE DEF f
    <3> QED
      BY <2>7, <2>8 DEF Lists
  <2> QED
    BY <2>9
<1>2. SUBSET K \subseteq G
  <2> HIDE DEF G
  <2> QED
    BY <1>0, <1>1, SubsetInduction
<1> QED
  BY <1>2

\* What Tables calls the elements in order is such a list.
LEMMA InOrderLists ==
  ASSUME NEW S, IsFiniteSet(S), NEW R, Orders(R, S)
  PROVE  Lists(Table!InOrder(S, R), R, S)
<1>1. Table!Cardinality(S) = Cardinality(S)
  BY DEF Table!Cardinality, Cardinality
<1>2. \E s \in [1 .. Cardinality(S) -> S] : \A i, j \in DOMAIN s : i < j => <<s[i], s[j]>> \in R
  BY ListExists DEF Lists
<1> QED
  BY <1>1, <1>2 DEF Lists, Table!InOrder

\* No element of a sequence comes twice.
Once(V) == \A i, j \in DOMAIN V : V[i] = V[j] => i = j

\* An element that moves to a later place lets those between move up.
Moved(V, W, p, e) ==
    /\ Len(W) = Len(V)
    /\ \A j \in 1 .. Len(V) : j < p \/ j > e => W[j] = V[j]
    /\ \A j \in 1 .. Len(V) : p <= j /\ j < e => W[j] = V[j + 1]
    /\ W[e] = V[p]

\* A row is moved before the one that follows position e, or to the end.
LEMMA MoveRow ==
  ASSUME NEW T, NEW V \in Seq(T), Once(V), NEW e \in 1 .. Len(V), NEW p \in 1 .. e, NEW ref,
         \/ e = Len(V) /\ ref = {}
         \/ e < Len(V) /\ ref = {V[e + 1]}
  PROVE  /\ Table!InsertBefore(V, V[p], ref) \in Seq(T)
         /\ Moved(V, Table!InsertBefore(V, V[p], ref), p, e)
<1>1. PICK n \in Nat : n = Len(V) /\ DOMAIN V = 1 .. n /\ \A i \in 1 .. n : V[i] \in T
  BY LenProperties, ElementOfSeq
<1>2. p \in 1 .. n /\ e \in 1 .. n /\ p <= e
  BY <1>1
<1>3. PICK r : r = V[p] /\ r \in T
  BY <1>1, <1>2
<1>4. (CHOOSE i \in DOMAIN V : V[i] = r) = p
  BY <1>1, <1>2, <1>3 DEF Once
<1>5. PICK a : a = SubSeq(V, 1, p - 1)
  OBVIOUS
<1>6. /\ a \in Seq(T) /\ Len(a) = p - 1
      /\ \A i \in 1 .. p - 1 : a[i] = V[i]
  <2>1. \A i \in 1 .. p - 1 : V[i] \in T
    BY <1>1, <1>2
  <2>2. /\ a \in Seq(T) /\ Len(a) = IF 1 <= p - 1 THEN p - 1 - 1 + 1 ELSE 0
        /\ \A i \in 1 .. p - 1 - 1 + 1 : a[i] = V[1 + i - 1]
    BY <1>2, <1>5, <2>1, SubSeqProperties
  <2> QED
    BY <1>2, <2>2
<1>7. PICK b : b = SubSeq(V, p + 1, n)
  OBVIOUS
<1>8. /\ b \in Seq(T) /\ Len(b) = n - p
      /\ \A i \in 1 .. n - p : b[i] = V[p + i]
  <2>1. \A i \in p + 1 .. n : V[i] \in T
    BY <1>1, <1>2
  <2>2. /\ b \in Seq(T) /\ Len(b) = IF p + 1 <= n THEN n - (p + 1) + 1 ELSE 0
        /\ \A i \in 1 .. n - (p + 1) + 1 : b[i] = V[p + 1 + i - 1]
    BY <1>2, <1>7, <2>1, SubSeqProperties
  <2> QED
    BY <1>2, <2>2
<1>9. PICK rest : rest = a \o b
  OBVIOUS
<1>10. /\ rest \in Seq(T) /\ Len(rest) = n - 1 /\ DOMAIN rest = 1 .. n - 1
       /\ \A j \in 1 .. n - 1 : j < p => rest[j] = V[j]
       /\ \A j \in 1 .. n - 1 : p <= j => rest[j] = V[j + 1]
  <2>1. /\ rest \in Seq(T) /\ Len(rest) = n - 1
        /\ \A j \in 1 .. n - 1 : rest[j] = IF j <= p - 1 THEN a[j] ELSE b[j - (p - 1)]
    <3>1. /\ rest \in Seq(T) /\ Len(rest) = Len(a) + Len(b)
          /\ \A j \in 1 .. Len(a) + Len(b) : rest[j] = IF j <= Len(a) THEN a[j] ELSE b[j - Len(a)]
      BY <1>6, <1>8, <1>9, ConcatProperties
    <3>2. Len(a) + Len(b) = n - 1
      BY <1>2, <1>6, <1>8
    <3> QED
      BY <1>6, <3>1, <3>2
  <2>2. \A j \in 1 .. n - 1 : j < p => rest[j] = V[j]
    BY <1>2, <1>6, <2>1
  <2>3. ASSUME NEW j \in 1 .. n - 1, p <= j
        PROVE  rest[j] = V[j + 1]
    <3>1. PICK k \in 1 .. n - p : k = j - (p - 1)
      BY <1>2, <2>3
    <3>2. rest[j] = b[k] /\ b[k] = V[p + k] /\ p + k = j + 1
      BY <1>2, <1>8, <2>1, <2>3, <3>1
    <3> QED
      BY <3>2
  <2> QED
    BY <2>1, <2>2, <2>3, LenProperties
<1>11. Table!Without(V, r) = rest
  BY <1>1, <1>4, <1>5, <1>7, <1>9 DEF Table!Without, Table!RemoveAt
<1>12. PICK W : W = Table!InsertBefore(V, r, ref)
  OBVIOUS
<1>13. W = Table!PutBefore(rest, r, ref)
  BY <1>11, <1>12 DEF Table!InsertBefore
<1>14. CASE e = n /\ ref = {}
  <2>1. W = Append(rest, r)
    <3>1. {i \in DOMAIN rest : rest[i] \in ref} = {}
      BY <1>14
    <3> QED
      BY <1>13, <3>1 DEF Table!PutBefore
  <2>2. /\ W \in Seq(T) /\ Len(W) = n /\ W[n] = r
        /\ \A j \in 1 .. n - 1 : W[j] = rest[j]
    <3>1. /\ W \in Seq(T) /\ Len(W) = Len(rest) + 1 /\ W[Len(rest) + 1] = r
          /\ \A j \in 1 .. Len(rest) : W[j] = rest[j]
      BY <1>3, <1>10, <2>1, AppendProperties
    <3> QED
      BY <1>1, <1>10, <3>1
  <2>3. \A j \in 1 .. n : j < p \/ j > e => W[j] = V[j]
    BY <1>2, <1>10, <1>14, <2>2, SMTT(30)
  <2>4. \A j \in 1 .. n : p <= j /\ j < e => W[j] = V[j + 1]
    <3>1. \A j \in 1 .. n : j < e => j \in 1 .. n - 1
      BY <1>14
    <3> QED
      BY <1>10, <2>2, <3>1
  <2> QED
    BY <1>1, <1>3, <1>12, <1>14, <2>2, <2>3, <2>4 DEF Moved
<1>15. CASE e < n /\ ref = {V[e + 1]}
  <2>1. PICK f \in 1 .. n : f = e + 1
    BY <1>2, <1>15
  <2>2. \A i \in 1 .. n - 1 : rest[i] = V[f] => i = e
    <3> SUFFICES ASSUME NEW i \in 1 .. n - 1, rest[i] = V[f] PROVE i = e
      OBVIOUS
    <3>1. CASE i < p
      <4>1. V[i] = V[f] /\ i \in 1 .. n
        BY <1>10, <3>1
      <4> QED
        BY <1>1, <1>2, <2>1, <3>1, <4>1 DEF Once
    <3>2. CASE p <= i
      <4>1. PICK k \in 1 .. n : k = i + 1
        OBVIOUS
      <4>2. V[k] = V[f]
        BY <1>10, <3>2, <4>1
      <4>3. k = f
        BY <1>1, <4>2 DEF Once
      <4> QED
        BY <2>1, <4>1, <4>3
    <3> QED
      BY <1>2, <3>1, <3>2
  <2>3. e \in 1 .. n - 1 /\ rest[e] = V[f]
    BY <1>2, <1>10, <1>15, <2>1
  <2>4. {i \in DOMAIN rest : rest[i] \in ref} = {e}
    BY <1>10, <1>15, <2>1, <2>2, <2>3
  <2>5. W = Table!InsertAt(rest, e, r)
    <3>1. (CHOOSE i \in {e} : TRUE) = e
      OBVIOUS
    <3>2. {e} # {}
      OBVIOUS
    <3> QED
      BY <1>13, <2>4, <3>1, <3>2 DEF Table!PutBefore
  <2>6. PICK c : c = SubSeq(rest, 1, e - 1)
    OBVIOUS
  <2>7. /\ c \in Seq(T) /\ Len(c) = e - 1
        /\ \A i \in 1 .. e - 1 : c[i] = rest[i]
    <3>1. \A i \in 1 .. e - 1 : rest[i] \in T
      <4>1. \A i \in 1 .. e - 1 : i \in 1 .. Len(rest)
        BY <1>10, <2>3
      <4> QED
        BY <1>10, <4>1, ElementOfSeq
    <3>2. /\ c \in Seq(T) /\ Len(c) = IF 1 <= e - 1 THEN e - 1 - 1 + 1 ELSE 0
          /\ \A i \in 1 .. e - 1 - 1 + 1 : c[i] = rest[1 + i - 1]
      BY <1>2, <2>6, <3>1, SubSeqProperties
    <3> QED
      BY <1>2, <3>2
  <2>8. PICK d : d = SubSeq(rest, e, n - 1)
    OBVIOUS
  <2>9. /\ d \in Seq(T) /\ Len(d) = n - e
        /\ \A i \in 1 .. n - e : d[i] = rest[e + i - 1]
    <3>1. \A i \in e .. n - 1 : rest[i] \in T
      <4>1. \A i \in e .. n - 1 : i \in 1 .. Len(rest)
        BY <1>10, <2>3
      <4> QED
        BY <1>10, <4>1, ElementOfSeq
    <3>2. /\ d \in Seq(T) /\ Len(d) = IF e <= n - 1 THEN n - 1 - e + 1 ELSE 0
          /\ \A i \in 1 .. n - 1 - e + 1 : d[i] = rest[e + i - 1]
      BY <1>2, <2>8, <3>1, SubSeqProperties
    <3> QED
      BY <1>2, <1>15, <3>2
  <2>10. W = (c \o <<r>>) \o d
    BY <1>10, <2>5, <2>6, <2>8 DEF Table!InsertAt
  <2>11. PICK m : m = c \o <<r>>
    OBVIOUS
  <2>12. /\ m \in Seq(T) /\ Len(m) = e /\ m[e] = r
         /\ \A i \in 1 .. e - 1 : m[i] = rest[i]
    <3>1. <<r>> \in Seq(T) /\ Len(<<r>>) = 1 /\ <<r>>[1] = r
      BY <1>3
    <3>2. /\ m \in Seq(T) /\ Len(m) = Len(c) + 1
          /\ \A i \in 1 .. Len(c) + 1 : m[i] = IF i <= Len(c) THEN c[i] ELSE <<r>>[i - Len(c)]
      BY <2>7, <2>11, <3>1, ConcatProperties
    <3>3. Len(c) + 1 = e
      BY <1>2, <2>7
    <3>4. m[e] = <<r>>[1]
      <4>1. e \in 1 .. e /\ ~(e <= Len(c)) /\ e - Len(c) = 1
        BY <1>2, <2>7
      <4> QED
        BY <3>2, <3>3, <4>1
    <3> QED
      BY <1>2, <2>7, <3>1, <3>2, <3>3, <3>4
  <2>13. /\ W \in Seq(T) /\ Len(W) = n
         /\ \A i \in 1 .. n : W[i] = IF i <= e THEN m[i] ELSE d[i - e]
    <3>1. /\ W \in Seq(T) /\ Len(W) = Len(m) + Len(d)
          /\ \A i \in 1 .. Len(m) + Len(d) : W[i] = IF i <= Len(m) THEN m[i] ELSE d[i - Len(m)]
      <4>1. W = m \o d
        BY <2>10, <2>11
      <4> QED
        BY <2>9, <2>12, <4>1, ConcatProperties
    <3>2. Len(m) + Len(d) = n
      BY <1>2, <2>9, <2>12
    <3> QED
      BY <2>12, <3>1, <3>2
  <2>14. W[e] = r
    BY <1>2, <2>12, <2>13
  <2>15. \A j \in 1 .. n : j < p => W[j] = V[j]
    <3> SUFFICES ASSUME NEW j \in 1 .. n, j < p PROVE W[j] = V[j]
      OBVIOUS
    <3>1. j \in 1 .. e - 1 /\ j \in 1 .. n - 1 /\ j <= e
      BY <1>2
    <3> QED
      BY <1>10, <2>12, <2>13, <3>1
  <2>16. \A j \in 1 .. n : p <= j /\ j < e => W[j] = V[j + 1]
    <3> SUFFICES ASSUME NEW j \in 1 .. n, p <= j, j < e PROVE W[j] = V[j + 1]
      OBVIOUS
    <3>1. j \in 1 .. e - 1 /\ j \in 1 .. n - 1 /\ j <= e
      BY <1>2
    <3> QED
      BY <1>10, <2>12, <2>13, <3>1
  <2>17. \A j \in 1 .. n : j > e => W[j] = V[j]
    <3> SUFFICES ASSUME NEW j \in 1 .. n, j > e PROVE W[j] = V[j]
      OBVIOUS
    <3>1. PICK i \in 1 .. n - e : i = j - e
      BY <1>2
    <3>2. PICK k \in 1 .. n - 1 : k = e + i - 1
      BY <1>2, <3>1
    <3>3. W[j] = d[i] /\ d[i] = rest[k] /\ p <= k /\ k + 1 = j
      BY <1>2, <2>9, <2>13, <3>1, <3>2
    <3> QED
      BY <1>10, <3>3
  <2> QED
    BY <1>1, <1>3, <1>12, <2>13, <2>14, <2>15, <2>16, <2>17 DEF Moved
<1> QED
  BY <1>1, <1>14, <1>15

\* In places a to e there are the same elements.
SameIn(V, W, a, e) ==
    /\ \A j \in a .. e : \E i \in a .. e : W[j] = V[i]
    /\ \A i \in a .. e : \E j \in a .. e : W[j] = V[i]

\* After a move there is still each element once, and in places a to e the same
\* ones as before.
LEMMA MovedKeeps ==
  ASSUME NEW T, NEW V \in Seq(T), Once(V), NEW W \in Seq(T),
         NEW e \in 1 .. Len(V), NEW p \in 1 .. e, Moved(V, W, p, e),
         NEW a \in 1 .. p
  PROVE  Once(W) /\ SameIn(V, W, a, e)
<1>1. PICK n \in Nat : n = Len(V) /\ DOMAIN V = 1 .. n /\ n = Len(W) /\ DOMAIN W = 1 .. n
  BY LenProperties DEF Moved
<1>2. p \in 1 .. n /\ e \in 1 .. n /\ p <= e /\ a \in 1 .. n /\ a <= p
  BY <1>1
<1> DEFINE From(j) == IF j = e THEN p ELSE IF j < p \/ j > e THEN j ELSE j + 1
<1>3. \A j \in 1 .. n : From(j) \in 1 .. n
  BY <1>2
<1>4. \A j \in 1 .. n : W[j] = V[From(j)]
  <2> SUFFICES ASSUME NEW j \in 1 .. n PROVE W[j] = V[From(j)]
    OBVIOUS
  <2>1. CASE j = e
    BY <1>2, <2>1 DEF Moved
  <2>2. CASE j # e /\ (j < p \/ j > e)
    BY <1>1, <1>2, <2>2 DEF Moved
  <2>3. CASE j # e /\ ~(j < p \/ j > e)
    <3>1. p <= j /\ j < e
      BY <1>2, <2>3
    <3> QED
      BY <1>1, <1>2, <2>3, <3>1 DEF Moved
  <2> QED
    BY <2>1, <2>2, <2>3
<1>5. \A i, j \in 1 .. n : From(i) = From(j) => i = j
  BY <1>2
<1>6. \A j \in a .. e : From(j) \in a .. e
  BY <1>2
<1>7. ASSUME NEW i \in a .. e
      PROVE  \E j \in a .. e : From(j) = i
  <2>1. CASE i = p
    <3>1. e \in a .. e /\ From(e) = p
      BY <1>2
    <3> QED
      BY <2>1, <3>1
  <2>2. CASE i < p
    <3>1. i # e /\ From(i) = i
      BY <1>2, <2>2
    <3> QED
      BY <3>1
  <2>3. CASE i > p
    <3>1. PICK j \in a .. e : j = i - 1
      BY <1>2, <2>3
    <3>2. From(j) = i
      BY <1>2, <2>3, <3>1
    <3> QED
      BY <3>2
  <2> QED
    BY <1>2, <2>1, <2>2, <2>3
<1>8. \A j \in a .. e : j \in 1 .. n
  BY <1>2
<1> HIDE DEF From
<1>9. Once(W)
  BY <1>1, <1>3, <1>4, <1>5 DEF Once
<1>10. \A j \in a .. e : \E i \in a .. e : W[j] = V[i]
  BY <1>4, <1>6, <1>8
<1>11. \A i \in a .. e : \E j \in a .. e : W[j] = V[i]
  BY <1>4, <1>7, <1>8
<1> QED
  BY <1>9, <1>10, <1>11 DEF SameIn

-----------------------------------------------------------------------------
(* The table of containers: groups                                          *)

\* A row of the table: the header of a group or a container.
TableRow == [header : BOOLEAN, key : Nat, value : Nat, collapsed : BOOLEAN, shown : BOOLEAN]

\* The rows of a group end at position e: with the table or before a header.
EndsAt(t, i, e) ==
    /\ Table!RowsOf(t, i) = i + 1 .. e
    /\ \/ e = Len(t) /\ Table!RefOf(t, i) = {}
       \/ e < Len(t) /\ e + 1 \in Table!Headers(t) /\ Table!RefOf(t, i) = {t[e + 1]}

\* The rows of a group follow its header without a gap.
LEMMA GroupRange ==
  ASSUME NEW t \in Seq(TableRow), NEW i \in Table!Headers(t)
  PROVE  \E e \in i .. Len(t) : EndsAt(t, i, e)
<1>1. PICK n \in Nat : n = Len(t) /\ DOMAIN t = 1 .. n
  BY LenProperties
<1>2. Table!Headers(t) \subseteq 1 .. n /\ i \in 1 .. n
  BY <1>1 DEF Table!Headers
<1> DEFINE Later == {h \in Table!Headers(t) : h > i}
<1>3. CASE Later = {}
  <2>1. Table!RowsOf(t, i) = i + 1 .. n
    BY <1>1, <1>2, <1>3 DEF Table!RowsOf
  <2>2. Table!NextHeader(t, i) = {}
    BY <1>3 DEF Table!NextHeader
  <2>3. Table!RefOf(t, i) = {}
    BY <2>2 DEF Table!RefOf
  <2>4. n \in i .. Len(t)
    BY <1>1, <1>2
  <2> QED
    BY <1>1, <2>1, <2>3, <2>4 DEF EndsAt
<1>4. CASE Later # {}
  <2>1. Later \in SUBSET Nat
    BY <1>2
  <2>2. PICK h \in Later : \A k \in Later : h <= k
    <3> HIDE DEF Later
    <3> QED
      BY <1>4, <2>1, LeastNat
  <2>3. h \in Table!Headers(t) /\ h \in 1 .. n /\ h > i
    BY <1>2, <2>2
  <2>4. PICK e \in i .. n : e = h - 1 /\ e + 1 = h /\ e < n
    BY <1>2, <2>3
  <2>5. Table!RowsOf(t, i) = i + 1 .. e
    <3>1. ASSUME NEW j \in 1 .. n
          PROVE  (j > i /\ \A k \in Table!Headers(t) : ~(i < k /\ k <= j)) <=> j \in i + 1 .. e
      <4>1. CASE j > i /\ j < h
        <5>1. ASSUME NEW k \in Table!Headers(t), i < k, k <= j PROVE FALSE
          <6>1. k \in Later /\ k \in 1 .. n
            BY <1>2, <5>1
          <6> QED
            BY <1>2, <2>2, <2>3, <4>1, <5>1, <6>1
        <5>2. j \in i + 1 .. e
          BY <1>2, <2>3, <2>4, <4>1
        <5> QED
          BY <4>1, <5>1, <5>2
      <4>2. CASE ~(j > i /\ j < h)
        <5>1. j \notin i + 1 .. e
          BY <1>2, <2>3, <2>4, <4>2
        <5>2. j > i => i < h /\ h <= j
          BY <1>2, <2>3, <4>2
        <5> QED
          BY <2>3, <5>1, <5>2
      <4> QED
        BY <4>1, <4>2
    <3>2. i + 1 .. e \subseteq 1 .. n
      BY <1>2
    <3> QED
      BY <1>1, <3>1, <3>2 DEF Table!RowsOf
  <2>6. Table!NextHeader(t, i) = {h}
    <3>1. \A k \in Table!Headers(t) : k > i => h <= k
      BY <2>2
    <3>2. \A k \in Table!Headers(t) : k \in 1 .. n
      BY <1>2
    <3> HIDE DEF Later
    <3> QED
      BY <1>2, <2>3, <3>1, <3>2 DEF Table!NextHeader
  <2>7. Table!RefOf(t, i) = {t[h]}
    BY <2>6 DEF Table!RefOf
  <2> QED
    BY <1>1, <2>3, <2>4, <2>5, <2>7 DEF EndsAt
<1> QED
  BY <1>3, <1>4

\* A row is in one group, that of its HeaderOf.
LEMMA GroupOfRow ==
  ASSUME NEW t \in Seq(TableRow), t # <<>> => t[1].header, NEW j \in DOMAIN t, ~t[j].header
  PROVE  /\ Table!HeaderOf(t, j) \in Table!Headers(t)
         /\ j \in Table!RowsOf(t, Table!HeaderOf(t, j))
         /\ \A h \in Table!Headers(t) : j \in Table!RowsOf(t, h) => h = Table!HeaderOf(t, j)
<1>1. PICK n \in Nat : n = Len(t) /\ DOMAIN t = 1 .. n
  BY LenProperties
<1>2. Table!Headers(t) \subseteq 1 .. n /\ j \in 1 .. n /\ j \notin Table!Headers(t)
  BY <1>1 DEF Table!Headers
<1>3. 1 \in Table!Headers(t)
  <2>1. t # <<>> /\ 1 \in 1 .. n
    BY <1>1, <1>2
  <2> QED
    BY <1>1, <2>1 DEF Table!Headers
<1> DEFINE Back == {d \in Nat : j - d \in Table!Headers(t)}
<1>4. PICK d \in Back : \A k \in Back : d <= k
  <2>1. j - 1 \in Nat /\ j - (j - 1) = 1
    BY <1>2
  <2>2. j - 1 \in Back
    BY <1>3, <2>1
  <2>3. Back \in SUBSET Nat /\ Back # {}
    BY <2>2
  <2> HIDE DEF Back
  <2> QED
    BY <2>3, LeastNat
<1>5. PICK h \in Table!Headers(t) : h = j - d
  OBVIOUS
<1>6. h \in 1 .. n /\ h < j
  BY <1>2, <1>5
<1>7. \A k \in Table!Headers(t) : k <= j => k <= h
  <2> SUFFICES ASSUME NEW k \in Table!Headers(t), k <= j PROVE k <= h
    OBVIOUS
  <2>1. k \in 1 .. n /\ j - k \in Nat /\ j - (j - k) = k
    BY <1>2
  <2>2. j - k \in Back
    BY <2>1
  <2> QED
    BY <1>2, <1>4, <1>5, <2>1, <2>2
<1>8. j \in Table!RowsOf(t, h)
  <2>1. \A k \in Table!Headers(t) : ~(h < k /\ k <= j)
    BY <1>2, <1>6, <1>7
  <2> QED
    BY <1>1, <1>2, <1>6, <2>1 DEF Table!RowsOf
<1>9. \A k \in Table!Headers(t) : j \in Table!RowsOf(t, k) => k = h
  <2> SUFFICES ASSUME NEW k \in Table!Headers(t), j \in Table!RowsOf(t, k) PROVE k = h
    OBVIOUS
  <2>1. k \in 1 .. n /\ j > k /\ ~(k < h /\ h <= j)
    BY <1>2 DEF Table!RowsOf
  <2> QED
    BY <1>2, <1>6, <1>7, <2>1
<1>10. Table!HeaderOf(t, j) = h
  BY <1>8, <1>9 DEF Table!HeaderOf
<1> QED
  BY <1>8, <1>9, <1>10

-----------------------------------------------------------------------------
(* The table of containers: sorting                                         *)

\* Not after, for a sort in a direction.
InDirection(x, y, asc) == IF asc THEN x <= y ELSE y <= x

\* The cells of a row are numbers.
LEMMA CellNat == ASSUME NEW r \in TableRow, NEW col PROVE Table!Cell(r, col) \in Nat
BY DEF TableRow, Table!Cell

\* The pairs of positions of which the first sorts before the second.
SortPairs(t, is, col, asc) == {p \in is \X is : Table!SortsBefore(t, p[1], p[2], col, asc)}

\* The comparison of a sort orders the positions of any group.
LEMMA SortOrders ==
  ASSUME NEW t \in Seq(TableRow), NEW is, is \subseteq DOMAIN t, NEW col, NEW asc \in BOOLEAN
  PROVE  /\ Orders(SortPairs(t, is, col, asc), is)
         /\ \A j, k \in is : <<j, k>> \in SortPairs(t, is, col, asc) =>
               InDirection(Table!Cell(t[j], col), Table!Cell(t[k], col), asc)
<1>1. is \subseteq Nat /\ \A j \in is : Table!Cell(t[j], col) \in Nat
  <2>1. DOMAIN t = 1 .. Len(t) /\ Len(t) \in Nat /\ \A j \in 1 .. Len(t) : t[j] \in TableRow
    BY LenProperties, ElementOfSeq
  <2> QED
    BY <2>1, CellNat
<1>2. PICK c : c = [j \in is |-> Table!Cell(t[j], col)]
  OBVIOUS
<1>3. c \in [is -> Nat]
  BY <1>1, <1>2
<1>r. PICK R : R = SortPairs(t, is, col, asc)
  OBVIOUS
<1>4. \A j, k \in is : <<j, k>> \in R <=>
         IF c[j] = c[k] THEN j < k ELSE IF asc THEN c[j] < c[k] ELSE c[k] < c[j]
  BY <1>2, <1>r DEF Table!SortsBefore, SortPairs
<1>5. \A j, k \in is : j # k => <<j, k>> \in R \/ <<k, j>> \in R
  BY <1>1, <1>3, <1>4
<1>6. \A j, k \in is : <<j, k>> \in R => <<k, j>> \notin R
  BY <1>1, <1>3, <1>4
<1>7. \A j, k, l \in is : <<j, k>> \in R /\ <<k, l>> \in R => <<j, l>> \in R
  <2> SUFFICES ASSUME NEW j \in is, NEW k \in is, NEW l \in is,
                      <<j, k>> \in R, <<k, l>> \in R
               PROVE  <<j, l>> \in R
    OBVIOUS
  <2>1. c[j] \in Nat /\ c[k] \in Nat /\ c[l] \in Nat /\ j \in Nat /\ k \in Nat /\ l \in Nat
    BY <1>1, <1>3
  <2>2. /\ IF c[j] = c[k] THEN j < k ELSE IF asc THEN c[j] < c[k] ELSE c[k] < c[j]
        /\ IF c[k] = c[l] THEN k < l ELSE IF asc THEN c[k] < c[l] ELSE c[l] < c[k]
    BY <1>4
  <2>3. IF c[j] = c[l] THEN j < l ELSE IF asc THEN c[j] < c[l] ELSE c[l] < c[j]
    BY <2>1, <2>2
  <2> QED
    BY <1>4, <2>3
<1>8. \A j, k \in is : <<j, k>> \in R => InDirection(c[j], c[k], asc)
  BY <1>1, <1>3, <1>4 DEF InDirection
<1> QED
  BY <1>2, <1>5, <1>6, <1>7, <1>8, <1>r DEF Orders

\* What the rows s of the group i to e are when they are sorted.
GroupSorted(t, i, e, s, col, asc) ==
    /\ s \in Seq(TableRow) /\ Len(s) = e - i
    /\ \A k \in 1 .. e - i : \E j \in i + 1 .. e : s[k] = t[j]
    /\ \A j \in i + 1 .. e : \E k \in 1 .. e - i : s[k] = t[j]
    /\ Once(s)
    /\ \A k, l \in 1 .. e - i : k < l =>
          InDirection(Table!Cell(s[k], col), Table!Cell(s[l], col), asc)

\* Sorted rows are those of the group, each once, in the direction of the sort.
LEMMA SortedRowsAre ==
  ASSUME NEW t \in Seq(TableRow), Once(t), NEW i \in Table!Headers(t), NEW e \in i .. Len(t),
         EndsAt(t, i, e), NEW col, NEW asc \in BOOLEAN
  PROVE  GroupSorted(t, i, e, Table!SortedRows(t, Table!RowsOf(t, i), col, asc), col, asc)
<1>1. PICK n \in Nat : n = Len(t) /\ DOMAIN t = 1 .. n /\ \A j \in 1 .. n : t[j] \in TableRow
  BY LenProperties, ElementOfSeq
<1>2. i \in 1 .. n /\ e \in 1 .. n /\ i <= e
  BY <1>1 DEF Table!Headers
<1>3. PICK is : is = i + 1 .. e /\ Table!RowsOf(t, i) = is /\ is \subseteq DOMAIN t
  BY <1>1, <1>2 DEF EndsAt
<1>4. PICK m \in Nat : m = e - i
  BY <1>2
<1>5. IsFiniteSet(is) /\ Cardinality(is) = m
  <2>1. IsFiniteSet(is) /\ Cardinality(is) = IF i + 1 > e THEN 0 ELSE e - (i + 1) + 1
    BY <1>2, <1>3, FS_Interval
  <2> QED
    BY <1>2, <1>4, <2>1
<1>6. PICK R : R = SortPairs(t, is, col, asc)
  OBVIOUS
<1>7. /\ Orders(R, is)
      /\ \A j, k \in is : <<j, k>> \in R =>
            InDirection(Table!Cell(t[j], col), Table!Cell(t[k], col), asc)
  BY <1>3, <1>6, SortOrders
<1>8. PICK f : f = Table!InOrder(is, R)
  OBVIOUS
<1>9. Lists(f, R, is)
  BY <1>5, <1>7, <1>8, InOrderLists
<1>10. f \in [1 .. m -> is] /\ DOMAIN f = 1 .. m
  BY <1>5, <1>9 DEF Lists
<1>11. /\ \A k, l \in 1 .. m : f[k] = f[l] => k = l
       /\ \A j \in is : \E k \in 1 .. m : f[k] = j
  BY <1>5, <1>7, <1>9, <1>10, ListsAll
<1>12. PICK s : s = Table!SortedRows(t, Table!RowsOf(t, i), col, asc)
  OBVIOUS
<1>13. s = [k \in 1 .. m |-> t[f[k]]]
  BY <1>3, <1>6, <1>8, <1>10, <1>12 DEF Table!SortedRows, SortPairs
<1>14. s \in [1 .. m -> TableRow]
  BY <1>1, <1>3, <1>10, <1>13
<1>15. s \in Seq(TableRow) /\ Len(s) = m /\ DOMAIN s = 1 .. m
  BY <1>14, SeqDef
<1>16. \A k \in 1 .. m : s[k] = t[f[k]] /\ f[k] \in is /\ f[k] \in DOMAIN t
  BY <1>3, <1>10, <1>13
<1>17. Once(s)
  <2> SUFFICES ASSUME NEW k \in 1 .. m, NEW l \in 1 .. m, s[k] = s[l] PROVE k = l
    BY <1>15 DEF Once
  <2>1. t[f[k]] = t[f[l]] /\ f[k] \in DOMAIN t /\ f[l] \in DOMAIN t
    BY <1>16
  <2>2. f[k] = f[l]
    BY <2>1 DEF Once
  <2> QED
    BY <1>11, <2>2
<1>18. ASSUME NEW k \in 1 .. m, NEW l \in 1 .. m, k < l
       PROVE  InDirection(Table!Cell(s[k], col), Table!Cell(s[l], col), asc)
  <2>1. <<f[k], f[l]>> \in R
    BY <1>9, <1>10, <1>18 DEF Lists
  <2> QED
    BY <1>7, <1>16, <2>1
<1>19. \A k \in 1 .. m : \E j \in is : s[k] = t[j]
  BY <1>16
<1>20. \A j \in is : \E k \in 1 .. m : s[k] = t[j]
  BY <1>11, <1>16
<1> QED
  BY <1>3, <1>4, <1>12, <1>15, <1>17, <1>18, <1>19, <1>20 DEF GroupSorted

\* The first k rows of s have been moved to the end of the group.
MovedUpTo(t, acc, i, e, s, V, k) ==
    /\ V \in Seq(TableRow) /\ Len(V) = Len(t) /\ Once(V)
    /\ \A j \in 1 .. Len(t) : j <= i \/ j > e => V[j] = acc[j]
    /\ \A j \in i + 1 .. e : \E l \in i + 1 .. e : V[j] = t[l]
    /\ \A l \in i + 1 .. e : \E j \in i + 1 .. e : V[j] = t[l]
    /\ \A j \in 1 .. k : V[e - k + j] = s[j]

\* One more is moved.
LEMMA MoveOne ==
  ASSUME NEW t \in Seq(TableRow), NEW acc, NEW i \in 1 .. Len(t),
         NEW e \in i .. Len(t), NEW s, NEW col, NEW asc, GroupSorted(t, i, e, s, col, asc),
         e < Len(t) => acc[e + 1] = t[e + 1],
         NEW ref, \/ e = Len(t) /\ ref = {}
                  \/ e < Len(t) /\ ref = {t[e + 1]},
         NEW V, NEW k \in Nat, k + 1 <= e - i, MovedUpTo(t, acc, i, e, s, V, k)
  PROVE  MovedUpTo(t, acc, i, e, s, Table!InsertBefore(V, s[k + 1], ref), k + 1)
<1>1. PICK n \in Nat : n = Len(t) /\ n = Len(V) /\ DOMAIN V = 1 .. n
  BY LenProperties DEF MovedUpTo
<1>2. i \in 1 .. n /\ e \in 1 .. n /\ i < e
  BY <1>1
<1>3. V \in Seq(TableRow) /\ Once(V) /\ DOMAIN s = 1 .. e - i
  BY LenProperties DEF MovedUpTo, GroupSorted
<1>4. PICK m \in 1 .. e - i : m = k + 1
  BY <1>1
<1>5. PICK p \in i + 1 .. e : s[m] = V[p]
  <2>1. PICK l \in i + 1 .. e : s[m] = t[l]
    BY <1>4 DEF GroupSorted
  <2> QED
    BY <2>1, ZenonT(30) DEF MovedUpTo
<1>6. p <= e - k
  <2> SUFFICES ASSUME p > e - k PROVE FALSE
    BY <1>1
  <2>1. PICK j \in 1 .. k : j = p - (e - k) /\ e - k + j = p
    BY <1>1
  <2>2. V[p] = s[j] /\ j \in 1 .. e - i
    BY <1>2, <1>4, <2>1 DEF MovedUpTo
  <2>3. j = m
    BY <1>3, <1>5, <2>2 DEF GroupSorted, Once
  <2> QED
    BY <1>4, <2>1, <2>3
<1>7. PICK W : W = Table!InsertBefore(V, V[p], ref)
  OBVIOUS
<1>8. /\ \/ e = Len(V) /\ ref = {}
         \/ e < Len(V) /\ ref = {V[e + 1]}
      /\ e \in 1 .. Len(V) /\ p \in 1 .. e
  <2>1. CASE e < n
    <3>1. PICK f \in 1 .. n : f = e + 1 /\ f > e
      BY <1>2, <2>1, SMTT(30)
    <3>2. V[f] = acc[f]
      BY <1>1, <3>1 DEF MovedUpTo
    <3> QED
      BY <1>1, <1>2, <2>1, <3>1, <3>2
  <2> QED
    BY <1>1, <1>2, <2>1
<1>9. W \in Seq(TableRow) /\ Moved(V, W, p, e)
  BY <1>3, <1>7, <1>8, MoveRow
<1>10. PICK a \in 1 .. p : a = i + 1
  BY <1>1
<1>11. Once(W) /\ SameIn(V, W, a, e)
  <2>1. V \in Seq(TableRow) /\ Once(V) /\ W \in Seq(TableRow) /\ Moved(V, W, p, e)
    BY <1>3, <1>9
  <2>2. e \in 1 .. Len(V) /\ p \in 1 .. e /\ a \in 1 .. p
    BY <1>8, <1>10
  <2> HIDE DEF Moved
  <2> QED
    BY <2>1, <2>2, MovedKeeps
<1>12. Len(W) = Len(t)
  BY <1>1, <1>9 DEF Moved
<1>13. \A j \in 1 .. n : j <= i \/ j > e => W[j] = acc[j]
  <2>1. \A j \in 1 .. n : j <= i => j < p
    BY <1>2
  <2> QED
    BY <1>1, <1>9, <2>1 DEF Moved, MovedUpTo
<1>14. ASSUME NEW j \in i + 1 .. e
       PROVE  \E l \in i + 1 .. e : W[j] = t[l]
  <2>1. PICK h \in i + 1 .. e : W[j] = V[h]
    BY <1>10, <1>11 DEF SameIn
  <2>2. PICK l \in i + 1 .. e : V[h] = t[l]
    BY DEF MovedUpTo
  <2> QED
    BY <2>1, <2>2
<1>15. ASSUME NEW l \in i + 1 .. e
       PROVE  \E j \in i + 1 .. e : W[j] = t[l]
  <2>1. PICK h \in i + 1 .. e : V[h] = t[l]
    BY DEF MovedUpTo
  <2>2. PICK j \in i + 1 .. e : W[j] = V[h]
    BY <1>10, <1>11 DEF SameIn
  <2> QED
    BY <2>1, <2>2
<1>16. ASSUME NEW j \in 1 .. m
       PROVE  W[e - m + j] = s[j]
  <2>1. CASE j = m
    <3>1. e - m + j = e
      BY <1>2, <1>4, <2>1
    <3> QED
      BY <1>5, <1>9, <2>1, <3>1 DEF Moved
  <2>2. CASE j # m
    <3>1. j \in 1 .. k
      BY <1>4, <2>2
    <3>2. PICK l \in 1 .. n : l = e - m + j /\ l < e /\ l + 1 = e - k + j
      BY <1>2, <1>4, <3>1
    <3>3. p <= l
      BY <1>4, <1>6, <3>1, <3>2
    <3>4. W[l] = V[l + 1]
      BY <1>1, <1>9, <3>2, <3>3 DEF Moved
    <3> QED
      BY <3>1, <3>2, <3>4 DEF MovedUpTo
  <2> QED
    BY <2>1, <2>2
<1>17. W = Table!InsertBefore(V, s[k + 1], ref)
  BY <1>4, <1>5, <1>7
<1>18. MovedUpTo(t, acc, i, e, s, W, m)
  BY <1>1, <1>9, <1>11, <1>12, <1>13, <1>14, <1>15, <1>16 DEF MovedUpTo
<1> QED
  BY <1>4, <1>17, <1>18

\* The rows of a group have been moved, one after the other, and stand sorted.
LEMMA SortGroupIs ==
  ASSUME NEW t \in Seq(TableRow), Once(t), NEW i \in Table!Headers(t), NEW e \in i .. Len(t),
         EndsAt(t, i, e), NEW col, NEW asc \in BOOLEAN,
         NEW acc \in Seq(TableRow), Len(acc) = Len(t), Once(acc),
         \A j \in i + 1 .. e : acc[j] = t[j],
         e < Len(t) => acc[e + 1] = t[e + 1]
  PROVE  MovedUpTo(t, acc, i, e, Table!SortedRows(t, Table!RowsOf(t, i), col, asc),
                   Table!SortGroup(t, acc, i, col, asc), e - i)
<1>1. PICK n \in Nat : n = Len(t) /\ DOMAIN t = 1 .. n
  BY LenProperties
<1>2. i \in 1 .. n /\ e \in 1 .. n /\ i <= e
  BY <1>1 DEF Table!Headers
<1>3. PICK s : s = Table!SortedRows(t, Table!RowsOf(t, i), col, asc)
  OBVIOUS
<1>4. GroupSorted(t, i, e, s, col, asc)
  BY <1>3, SortedRowsAre
<1>5. PICK N \in Nat : N = e - i /\ N = Len(s)
  BY <1>2, <1>4 DEF GroupSorted
<1>6. PICK ref : ref = Table!RefOf(t, i)
  OBVIOUS
<1>7. \/ e = Len(t) /\ ref = {}
      \/ e < Len(t) /\ ref = {t[e + 1]}
  BY <1>6 DEF EndsAt
<1> DEFINE Rec(g, k) == IF k = 0 THEN acc ELSE Table!InsertBefore(g[k - 1], s[k], ref)
           Good == {m \in Nat : \E g : g = [k \in 0 .. m |-> Rec(g, k)]}
<1>8. 0 \in Good
  <2> DEFINE g == [k \in 0 .. 0 |-> acc]
  <2>1. g = [k \in 0 .. 0 |-> Rec(g, k)]
    OBVIOUS
  <2> HIDE DEF g, Rec
  <2> QED
    BY <2>1
<1>9. ASSUME NEW m \in Nat, m \in Good
      PROVE  m + 1 \in Good
  <2>1. PICK g : g = [k \in 0 .. m |-> Rec(g, k)]
    BY <1>9
  <2> DEFINE h == [k \in 0 .. m + 1 |-> Rec(g, k)]
  <2>2. \A k \in 0 .. m : h[k] = g[k]
    <3>1. \A k \in 0 .. m : k \in 0 .. m + 1
      OBVIOUS
    <3> HIDE DEF Rec
    <3> QED
      BY <2>1, <3>1
  <2>3. \A k \in 0 .. m + 1 : Rec(g, k) = Rec(h, k)
    <3>1. \A k \in 0 .. m + 1 : k # 0 => k - 1 \in 0 .. m
      OBVIOUS
    <3> HIDE DEF h
    <3> QED
      BY <2>2, <3>1
  <2>4. h = [k \in 0 .. m + 1 |-> Rec(h, k)]
    <3> HIDE DEF Rec
    <3> QED
      BY <2>3
  <2> HIDE DEF h, Rec
  <2> QED
    BY <2>4
<1>10. N \in Good
  <2> HIDE DEF Good
  <2> QED
    BY <1>8, <1>9, SetInduction
<1>11. PICK all : /\ all = [k \in 0 .. N |-> Rec(all, k)]
                  /\ Table!SortGroup(t, acc, i, col, asc) = all[N]
  <2>1. \E g : g = [k \in 0 .. N |-> Rec(g, k)]
    BY <1>10
  <2> QED
    BY <1>3, <1>5, <1>6, <2>1 DEF Table!SortGroup
<1>12. /\ all[0] = acc
       /\ \A k \in 1 .. N : all[k] = Table!InsertBefore(all[k - 1], s[k], ref)
  <2>1. \A k \in 1 .. N : k \in 0 .. N /\ k # 0
    OBVIOUS
  <2>2. 0 \in 0 .. N
    OBVIOUS
  <2> QED
    BY <1>11, <2>1, <2>2
<1> HIDE DEF Rec, Good
<1> DEFINE P == {k \in Nat : k <= N => MovedUpTo(t, acc, i, e, s, all[k], k)}
<1>13. 0 \in P
  <2>1. \A j \in i + 1 .. e : acc[j] = t[j]
    OBVIOUS
  <2> QED
    BY <1>12, <2>1 DEF MovedUpTo
<1>14. ASSUME NEW k \in Nat, k \in P
       PROVE  k + 1 \in P
  <2> SUFFICES ASSUME k + 1 <= N
               PROVE  MovedUpTo(t, acc, i, e, s, all[k + 1], k + 1)
    OBVIOUS
  <2>1. k + 1 \in 1 .. N /\ k + 1 - 1 = k
    BY <1>5
  <2>2. all[k + 1] = Table!InsertBefore(all[k], s[k + 1], ref)
    BY <1>12, <2>1
  <2>3. MovedUpTo(t, acc, i, e, s, all[k], k)
    BY <1>14, <2>1
  <2>4. PICK V : V = all[k]
    OBVIOUS
  <2>5. MovedUpTo(t, acc, i, e, s, Table!InsertBefore(V, s[k + 1], ref), k + 1)
    BY <1>1, <1>2, <1>4, <1>5, <1>7, <2>1, <2>3, <2>4, MoveOne
  <2> QED
    BY <2>2, <2>4, <2>5
<1>15. N \in P
  <2> HIDE DEF P
  <2> QED
    BY <1>13, <1>14, SetInduction
<1> QED
  BY <1>3, <1>5, <1>11, <1>15

\* What can be said of a table whatever its rows show.
IsTable(t) ==
    /\ t \in Seq(TableRow)
    /\ \A i, j \in DOMAIN t : (t[i].header = t[j].header /\ t[i].key = t[j].key) => i = j
    /\ t # <<>> => t[1].header
    /\ \A i \in Table!Headers(t) :
           /\ Table!RowsOf(t, i) # {}
           /\ \A j \in Table!RowsOf(t, i) : Project[t[j].key] = t[i].key

\* The groups with headers up to row k are sorted, and the others as they were.
SortedUpTo(t, U, k, col, asc) ==
    /\ U \in Seq(TableRow) /\ Len(U) = Len(t) /\ Once(U)
    /\ \A h \in Table!Headers(t) :
          /\ U[h] = t[h]
          /\ \A e \in h .. Len(t) : EndsAt(t, h, e) =>
                IF h <= k
                THEN \A j \in 1 .. e - h :
                         U[h + j] = Table!SortedRows(t, Table!RowsOf(t, h), col, asc)[j]
                ELSE \A j \in h + 1 .. e : U[j] = t[j]

\* A table has no two equal rows.
LEMMA TableOnce == ASSUME NEW t, IsTable(t) PROVE Once(t)
BY DEF IsTable, Once

\* One more group is sorted.
LEMMA SortOneGroup ==
  ASSUME NEW t, IsTable(t), NEW col, NEW asc \in BOOLEAN,
         NEW U, NEW k \in Nat, k + 1 \in Table!Headers(t), SortedUpTo(t, U, k, col, asc)
  PROVE  SortedUpTo(t, Table!SortGroup(t, U, k + 1, col, asc), k + 1, col, asc)
<1>1. PICK n \in Nat : n = Len(t) /\ DOMAIN t = 1 .. n
  BY LenProperties DEF IsTable
<1>2. t \in Seq(TableRow) /\ Once(t)
  BY TableOnce DEF IsTable
<1>3. PICK i \in Table!Headers(t) : i = k + 1
  OBVIOUS
<1>4. PICK e \in i .. n : EndsAt(t, i, e)
  BY <1>1, <1>2, GroupRange
<1>5. \A h \in Table!Headers(t) : h \in 1 .. n
  BY <1>1 DEF Table!Headers
<1>6. U \in Seq(TableRow) /\ Len(U) = n /\ Once(U)
  BY <1>1 DEF SortedUpTo
<1>7. \A j \in i + 1 .. e : U[j] = t[j]
  <2>1. ~(i <= k)
    BY <1>3
  <2> QED
    BY <1>1, <1>4, <2>1 DEF SortedUpTo
<1>8. e < n => U[e + 1] = t[e + 1]
  <2> SUFFICES ASSUME e < n PROVE U[e + 1] = t[e + 1]
    OBVIOUS
  <2>1. e + 1 \in Table!Headers(t)
    BY <1>1, <1>4 DEF EndsAt
  <2> QED
    BY <2>1 DEF SortedUpTo
<1>9. PICK s : s = Table!SortedRows(t, Table!RowsOf(t, i), col, asc)
  OBVIOUS
<1>10. PICK W : W = Table!SortGroup(t, U, i, col, asc)
  OBVIOUS
<1>11. MovedUpTo(t, U, i, e, s, W, e - i)
  BY <1>1, <1>2, <1>4, <1>6, <1>7, <1>8, <1>9, <1>10, SortGroupIs
<1>12. W \in Seq(TableRow) /\ Len(W) = Len(t) /\ Once(W)
  BY <1>11 DEF MovedUpTo
<1>13. \A j \in 1 .. n : j <= i \/ j > e => W[j] = U[j]
  BY <1>1, <1>11 DEF MovedUpTo
<1>14. \A j \in 1 .. e - i : W[i + j] = s[j]
  <2>1. i \in 1 .. n /\ e \in Nat
    BY <1>5
  <2>2. e - (e - i) = i
    BY <2>1
  <2> QED
    BY <1>11, <2>2 DEF MovedUpTo
<1>15. ASSUME NEW h \in Table!Headers(t)
       PROVE  h <= i \/ h > e
  <2> SUFFICES ASSUME i < h, h <= e PROVE FALSE
    BY <1>4, <1>5
  <2>1. h \in Table!RowsOf(t, i)
    BY <1>4, <1>5 DEF EndsAt
  <2> QED
    BY <1>5, <2>1 DEF Table!RowsOf
<1>16. ASSUME NEW h \in Table!Headers(t)
       PROVE  W[h] = t[h]
  BY <1>5, <1>13, <1>15 DEF SortedUpTo
<1>17. ASSUME NEW h \in Table!Headers(t), NEW f \in h .. n, EndsAt(t, h, f)
       PROVE  IF h <= i
              THEN \A j \in 1 .. f - h :
                       W[h + j] = Table!SortedRows(t, Table!RowsOf(t, h), col, asc)[j]
              ELSE \A j \in h + 1 .. f : W[j] = t[j]
  <2>h. h \in 1 .. n /\ i \in 1 .. n
    BY <1>5
  <2>1. CASE h = i
    <3>1. i + 1 .. f = i + 1 .. e
      BY <1>4, <1>17, <2>1 DEF EndsAt
    <3>2. f = e
      <4>1. CASE f > i
        <5>1. f \in i + 1 .. e
          BY <2>h, <3>1, <4>1
        <5>2. e \in i + 1 .. f
          BY <2>h, <3>1, <4>1, <5>1
        <5> QED
          BY <2>h, <5>1, <5>2
      <4>2. CASE f = i
        <5>1. e \notin i + 1 .. e
          BY <2>h, <3>1, <4>2
        <5> QED
          BY <2>h, <4>2, <5>1
      <4> QED
        BY <1>17, <2>1, <2>h, <4>1, <4>2
    <3> QED
      BY <1>9, <1>14, <2>1, <2>h, <3>2
  <2>2. CASE h < i
    <3>1. f < i
      <4> SUFFICES ASSUME i <= f PROVE FALSE
        BY <2>h
      <4>1. i \in Table!RowsOf(t, h)
        BY <1>17, <2>2, <2>h DEF EndsAt
      <4> QED
        BY <2>2, <2>h, <4>1 DEF Table!RowsOf
    <3>2. \A j \in 1 .. f - h : W[h + j] = U[h + j]
      <4> SUFFICES ASSUME NEW j \in 1 .. f - h PROVE W[h + j] = U[h + j]
        OBVIOUS
      <4>1. h + j \in 1 .. n /\ h + j <= i
        BY <2>h, <3>1
      <4> QED
        BY <1>13, <4>1
    <3>3. h <= k
      BY <1>3, <2>2, <2>h
    <3>4. \A j \in 1 .. f - h :
              U[h + j] = Table!SortedRows(t, Table!RowsOf(t, h), col, asc)[j]
      BY <1>1, <1>17, <3>3 DEF SortedUpTo
    <3> QED
      BY <2>2, <2>h, <3>2, <3>4
  <2>3. CASE h > i
    <3>1. h > e
      BY <1>15, <2>3, <2>h
    <3>2. \A j \in h + 1 .. f : j \in 1 .. n /\ j > e
      BY <2>h, <3>1
    <3>3. ~(h <= k) /\ ~(h <= i)
      BY <1>3, <2>3, <2>h
    <3>4. \A j \in h + 1 .. f : U[j] = t[j]
      BY <1>1, <1>17, <3>3 DEF SortedUpTo
    <3> QED
      BY <1>13, <3>2, <3>3, <3>4
  <2> QED
    BY <2>1, <2>2, <2>3, <2>h
<1>18. SortedUpTo(t, W, i, col, asc)
  BY <1>1, <1>12, <1>16, <1>17 DEF SortedUpTo
<1> QED
  BY <1>3, <1>10, <1>18

\* All groups are sorted in the end.
LEMMA ApplySortIs ==
  ASSUME NEW t, IsTable(t), NEW col, NEW asc \in BOOLEAN
  PROVE  SortedUpTo(t, Table!ApplySort(t, col, asc), Len(t), col, asc)
<1>1. PICK N \in Nat : N = Len(t) /\ DOMAIN t = 1 .. N
  BY LenProperties DEF IsTable
<1>2. \A h \in Table!Headers(t) : h \in 1 .. N
  BY <1>1 DEF Table!Headers
<1> DEFINE Rec(g, k) == IF k = 0 THEN t
                        ELSE IF t[k].header THEN Table!SortGroup(t, g[k - 1], k, col, asc)
                        ELSE g[k - 1]
           Good == {m \in Nat : \E g : g = [k \in 0 .. m |-> Rec(g, k)]}
<1>3. 0 \in Good
  <2> DEFINE g == [k \in 0 .. 0 |-> t]
  <2>1. g = [k \in 0 .. 0 |-> Rec(g, k)]
    OBVIOUS
  <2> HIDE DEF g, Rec
  <2> QED
    BY <2>1
<1>4. ASSUME NEW m \in Nat, m \in Good
      PROVE  m + 1 \in Good
  <2>1. PICK g : g = [k \in 0 .. m |-> Rec(g, k)]
    BY <1>4
  <2> DEFINE h == [k \in 0 .. m + 1 |-> Rec(g, k)]
  <2>2. \A k \in 0 .. m : h[k] = g[k]
    <3>1. \A k \in 0 .. m : k \in 0 .. m + 1
      OBVIOUS
    <3> HIDE DEF Rec
    <3> QED
      BY <2>1, <3>1
  <2>3. \A k \in 0 .. m + 1 : Rec(g, k) = Rec(h, k)
    <3>1. \A k \in 0 .. m + 1 : k # 0 => k - 1 \in 0 .. m
      OBVIOUS
    <3> HIDE DEF h
    <3> QED
      BY <2>2, <3>1
  <2>4. h = [k \in 0 .. m + 1 |-> Rec(h, k)]
    <3> HIDE DEF Rec
    <3> QED
      BY <2>3
  <2> HIDE DEF h, Rec
  <2> QED
    BY <2>4
<1>5. N \in Good
  <2> HIDE DEF Good
  <2> QED
    BY <1>3, <1>4, SetInduction
<1>6. PICK all : /\ all = [k \in 0 .. N |-> Rec(all, k)]
                 /\ Table!ApplySort(t, col, asc) = all[N]
  <2>1. \E g : g = [k \in 0 .. N |-> Rec(g, k)]
    BY <1>5
  <2> QED
    BY <1>1, <2>1 DEF Table!ApplySort
<1>7. /\ all[0] = t
      /\ \A k \in 1 .. N : all[k] = IF t[k].header
                                    THEN Table!SortGroup(t, all[k - 1], k, col, asc)
                                    ELSE all[k - 1]
  <2>1. \A k \in 1 .. N : k \in 0 .. N /\ k # 0
    OBVIOUS
  <2>2. 0 \in 0 .. N
    OBVIOUS
  <2> QED
    BY <1>6, <2>1, <2>2
<1> HIDE DEF Rec, Good
<1> DEFINE P == {k \in Nat : k <= N => SortedUpTo(t, all[k], k, col, asc)}
<1>8. 0 \in P
  <2>1. t \in Seq(TableRow) /\ Once(t)
    BY TableOnce DEF IsTable
  <2>2. \A h \in Table!Headers(t) : ~(h <= 0)
    BY <1>2
  <2> QED
    BY <1>7, <2>1, <2>2 DEF SortedUpTo
<1>9. ASSUME NEW k \in Nat, k \in P
      PROVE  k + 1 \in P
  <2> SUFFICES ASSUME k + 1 <= N
               PROVE  SortedUpTo(t, all[k + 1], k + 1, col, asc)
    OBVIOUS
  <2>1. k + 1 \in 1 .. N /\ k + 1 - 1 = k
    BY <1>1
  <2>2. SortedUpTo(t, all[k], k, col, asc)
    BY <1>9, <2>1
  <2>3. CASE t[k + 1].header
    <3>1. k + 1 \in Table!Headers(t)
      BY <1>1, <2>1, <2>3 DEF Table!Headers
    <3>2. all[k + 1] = Table!SortGroup(t, all[k], k + 1, col, asc)
      BY <1>7, <2>1, <2>3
    <3>3. PICK U : U = all[k]
      OBVIOUS
    <3>4. SortedUpTo(t, Table!SortGroup(t, U, k + 1, col, asc), k + 1, col, asc)
      BY <2>2, <3>1, <3>3, SortOneGroup
    <3> QED
      BY <3>2, <3>3, <3>4
  <2>4. CASE ~t[k + 1].header
    <3>1. all[k + 1] = all[k]
      BY <1>7, <2>1, <2>4
    <3>2. \A h \in Table!Headers(t) : h # k + 1 /\ (h <= k + 1 <=> h <= k)
      <4>1. \A h \in Table!Headers(t) : h # k + 1
        BY <2>4 DEF Table!Headers
      <4> QED
        BY <1>2, <4>1
    <3> QED
      BY <2>2, <3>1, <3>2 DEF SortedUpTo
  <2> QED
    BY <2>3, <2>4
<1>10. N \in P
  <2> HIDE DEF P
  <2> QED
    BY <1>8, <1>9, SetInduction
<1> QED
  BY <1>1, <1>6, <1>10

\* The tables t and u have the same headers in the same places, and below each
\* the same rows.
SameGroups(t, u) ==
    /\ Table!Headers(u) = Table!Headers(t)
    /\ \A h \in Table!Headers(t) :
          /\ u[h] = t[h]
          /\ Table!RowsOf(u, h) = Table!RowsOf(t, h)
          /\ \A j \in Table!RowsOf(t, h) : \E l \in Table!RowsOf(t, h) : u[j] = t[l]
          /\ \A l \in Table!RowsOf(t, h) : \E j \in Table!RowsOf(t, h) : u[j] = t[l]

\* The rows of each group are in the order of a sort.
InOrderOf(t, col, asc) ==
    \A h \in Table!Headers(t) : \A j, k \in Table!RowsOf(t, h) :
        j < k => InDirection(Table!Cell(t[j], col), Table!Cell(t[k], col), asc)

\* A sort of a table keeps its groups and puts each of them in order.
LEMMA SortKeepsGroups ==
  ASSUME NEW t, IsTable(t), NEW col, NEW asc \in BOOLEAN
  PROVE  /\ IsTable(Table!ApplySort(t, col, asc))
         /\ SameGroups(t, Table!ApplySort(t, col, asc))
         /\ InOrderOf(Table!ApplySort(t, col, asc), col, asc)
<1>1. PICK n \in Nat : n = Len(t) /\ DOMAIN t = 1 .. n
  BY LenProperties DEF IsTable
<1>2. t \in Seq(TableRow) /\ Once(t)
  BY TableOnce DEF IsTable
<1>3. Table!Headers(t) \subseteq 1 .. n
  BY <1>1 DEF Table!Headers
<1>4. PICK u : u = Table!ApplySort(t, col, asc)
  OBVIOUS
<1>5. SortedUpTo(t, u, n, col, asc)
  BY <1>1, <1>4, ApplySortIs
<1>6. u \in Seq(TableRow) /\ Len(u) = n /\ Once(u) /\ DOMAIN u = 1 .. n
  BY <1>1, <1>5, LenProperties DEF SortedUpTo
<1>7. ASSUME NEW h \in Table!Headers(t)
      PROVE  /\ u[h] = t[h]
             /\ \A j \in Table!RowsOf(t, h) : \E l \in Table!RowsOf(t, h) : u[j] = t[l]
             /\ \A l \in Table!RowsOf(t, h) : \E j \in Table!RowsOf(t, h) : u[j] = t[l]
             /\ \A j, k \in Table!RowsOf(t, h) :
                   j < k => InDirection(Table!Cell(u[j], col), Table!Cell(u[k], col), asc)
  <2>1. PICK e \in h .. n : EndsAt(t, h, e)
    BY <1>1, <1>2, GroupRange
  <2>2. h \in 1 .. n /\ h <= n
    BY <1>3
  <2>3. PICK s : s = Table!SortedRows(t, Table!RowsOf(t, h), col, asc)
    OBVIOUS
  <2>4. GroupSorted(t, h, e, s, col, asc)
    BY <1>1, <1>2, <2>1, <2>3, SortedRowsAre
  <2>5. \A j \in 1 .. e - h : u[h + j] = s[j]
    BY <1>1, <1>5, <2>1, <2>2, <2>3 DEF SortedUpTo
  <2>6. Table!RowsOf(t, h) = h + 1 .. e
    BY <2>1 DEF EndsAt
  <2>7. \A j \in h + 1 .. e : j - h \in 1 .. e - h /\ u[j] = s[j - h]
    <3> SUFFICES ASSUME NEW j \in h + 1 .. e PROVE j - h \in 1 .. e - h /\ u[j] = s[j - h]
      OBVIOUS
    <3>1. j - h \in 1 .. e - h /\ h + (j - h) = j
      BY <2>2
    <3> QED
      BY <2>5, <3>1
  <2>8. ASSUME NEW j \in h + 1 .. e
        PROVE  \E l \in h + 1 .. e : u[j] = t[l]
    BY <2>4, <2>7, ZenonT(30) DEF GroupSorted
  <2>9. ASSUME NEW l \in h + 1 .. e
        PROVE  \E j \in h + 1 .. e : u[j] = t[l]
    <3>1. PICK k \in 1 .. e - h : s[k] = t[l]
      BY <2>4 DEF GroupSorted
    <3>2. PICK j \in h + 1 .. e : j = h + k
      BY <2>2
    <3> QED
      BY <2>5, <3>1, <3>2
  <2>10. ASSUME NEW j \in h + 1 .. e, NEW k \in h + 1 .. e, j < k
         PROVE  InDirection(Table!Cell(u[j], col), Table!Cell(u[k], col), asc)
    <3>1. j - h \in 1 .. e - h /\ k - h \in 1 .. e - h /\ j - h < k - h
      BY <2>2, <2>10
    <3>2. InDirection(Table!Cell(s[j - h], col), Table!Cell(s[k - h], col), asc)
      BY <2>4, <3>1 DEF GroupSorted
    <3> QED
      BY <2>7, <3>2
  <2>11. u[h] = t[h]
    BY <1>5 DEF SortedUpTo
  <2> QED
    BY <2>6, <2>8, <2>9, <2>10, <2>11
<1>8. ASSUME NEW j \in 1 .. n, j \notin Table!Headers(t)
      PROVE  \E h \in Table!Headers(t) : j \in Table!RowsOf(t, h)
  <2>1. ~t[j].header
    BY <1>1, <1>8 DEF Table!Headers
  <2> QED
    BY <1>1, <2>1, GroupOfRow DEF IsTable
<1>9. \A h \in Table!Headers(t) : \A j \in Table!RowsOf(t, h) :
          j \in 1 .. n /\ j \notin Table!Headers(t)
  BY <1>1, <1>3 DEF Table!RowsOf
<1>10. ASSUME NEW j \in 1 .. n
       PROVE  \E l \in 1 .. n : u[j] = t[l] /\ (l \in Table!Headers(t) <=> j \in Table!Headers(t))
  <2>1. CASE j \in Table!Headers(t)
    BY <1>7, <2>1
  <2>2. CASE j \notin Table!Headers(t)
    <3>1. PICK h \in Table!Headers(t) : j \in Table!RowsOf(t, h)
      BY <1>8, <2>2
    <3>2. PICK l \in Table!RowsOf(t, h) : u[j] = t[l]
      BY <1>7, <3>1
    <3> QED
      BY <1>9, <2>2, <3>2
  <2> QED
    BY <2>1, <2>2
<1>11. Table!Headers(u) = Table!Headers(t)
  <2>1. \A j \in 1 .. n : u[j].header <=> j \in Table!Headers(t)
    <3> SUFFICES ASSUME NEW j \in 1 .. n PROVE u[j].header <=> j \in Table!Headers(t)
      OBVIOUS
    <3>1. PICK l \in 1 .. n : u[j] = t[l] /\ (l \in Table!Headers(t) <=> j \in Table!Headers(t))
      BY <1>10
    <3>2. l \in Table!Headers(t) <=> t[l].header
      BY <1>1 DEF Table!Headers
    <3> QED
      BY <3>1, <3>2
  <2>2. \A j : j \in Table!Headers(u) <=> j \in 1 .. n /\ u[j].header
    BY <1>6 DEF Table!Headers
  <2> QED
    BY <1>3, <2>1, <2>2
<1>12. \A h : Table!RowsOf(u, h) = Table!RowsOf(t, h)
  BY <1>1, <1>6, <1>11 DEF Table!RowsOf
<1>13. SameGroups(t, u)
  BY <1>7, <1>11, <1>12 DEF SameGroups
<1>14. InOrderOf(u, col, asc)
  BY <1>7, <1>11, <1>12 DEF InOrderOf
<1>15. IsTable(u)
  <2>1. ASSUME NEW i \in 1 .. n, NEW j \in 1 .. n, u[i].header = u[j].header, u[i].key = u[j].key
        PROVE  i = j
    <3>1. PICK a \in 1 .. n : u[i] = t[a]
      BY <1>10
    <3>2. PICK b \in 1 .. n : u[j] = t[b]
      BY <1>10
    <3>3. a = b
      BY <1>1, <2>1, <3>1, <3>2 DEF IsTable
    <3>4. u[i] = u[j]
      BY <3>1, <3>2, <3>3
    <3> QED
      BY <1>6, <3>4 DEF Once
  <2>2. u # <<>> => u[1].header
    <3> SUFFICES ASSUME u # <<>> PROVE u[1].header
      OBVIOUS
    <3>1. n # 0
      BY <1>6, EmptySeq
    <3>2. 1 \in 1 .. n /\ t # <<>>
      BY <1>1, <3>1
    <3>3. 1 \in Table!Headers(t)
      BY <1>1, <3>2 DEF IsTable, Table!Headers
    <3> QED
      BY <1>11, <3>3 DEF Table!Headers
  <2>3. ASSUME NEW h \in Table!Headers(u)
        PROVE  /\ Table!RowsOf(u, h) # {}
               /\ \A j \in Table!RowsOf(u, h) : Project[u[j].key] = u[h].key
    <3>1. /\ h \in Table!Headers(t) /\ u[h] = t[h]
          /\ Table!RowsOf(u, h) = Table!RowsOf(t, h)
      BY <1>7, <1>11, <1>12
    <3>2. \A j \in Table!RowsOf(t, h) : \E l \in Table!RowsOf(t, h) : u[j] = t[l]
      BY <1>7, <3>1
    <3>3. /\ Table!RowsOf(t, h) # {}
          /\ \A l \in Table!RowsOf(t, h) : Project[t[l].key] = t[h].key
      BY <3>1 DEF IsTable
    <3> QED
      BY <3>1, <3>2, <3>3
  <2> QED
    BY <1>6, <2>1, <2>2, <2>3 DEF IsTable
<1> QED
  BY <1>4, <1>13, <1>14, <1>15

-----------------------------------------------------------------------------
(* The table of containers: what the server sends                           *)

\* A row is sent neither collapsed nor hidden.
AsSent(r) == ~r.collapsed /\ r.shown

\* The rows of a group are its header and the containers of its project.
IsGroup(g, p) ==
    /\ g \in Seq(TableRow) /\ Len(g) >= 2
    /\ g[1].header /\ g[1].key = p
    /\ \A k \in 2 .. Len(g) : ~g[k].header /\ Project[g[k].key] = p
    /\ \A k, l \in 2 .. Len(g) : g[k].key = g[l].key => k = l
    /\ \A k \in 1 .. Len(g) : AsSent(g[k])

\* The project that a row or a header belongs to.
ProjectOf(r) == IF r.header THEN r.key ELSE Project[r.key]

\* A table with a group of another project after it is a table.
LEMMA AppendGroup ==
  ASSUME NEW t, IsTable(t), NEW p, NEW g, IsGroup(g, p),
         \A i \in DOMAIN t : ProjectOf(t[i]) # p
  PROVE  /\ IsTable(t \o g)
         /\ \A j \in DOMAIN (t \o g) : \/ \E i \in DOMAIN t : (t \o g)[j] = t[i]
                                       \/ ProjectOf((t \o g)[j]) = p /\ AsSent((t \o g)[j])
<1>1. PICK n \in Nat : n = Len(t) /\ DOMAIN t = 1 .. n
  BY LenProperties DEF IsTable
<1>2. PICK m \in Nat : m = Len(g) /\ DOMAIN g = 1 .. m /\ m >= 2
  BY LenProperties DEF IsGroup
<1>3. PICK u : u = t \o g
  OBVIOUS
<1>4. /\ u \in Seq(TableRow) /\ Len(u) = n + m /\ DOMAIN u = 1 .. n + m
      /\ \A j \in 1 .. n : u[j] = t[j]
      /\ \A k \in 1 .. m : u[n + k] = g[k]
  <2>1. /\ u \in Seq(TableRow) /\ Len(u) = n + m
        /\ \A j \in 1 .. n + m : u[j] = IF j <= n THEN t[j] ELSE g[j - n]
    BY <1>1, <1>2, <1>3, ConcatProperties DEF IsTable, IsGroup
  <2>2. \A j \in 1 .. n : j \in 1 .. n + m /\ j <= n
    OBVIOUS
  <2>3. \A k \in 1 .. m : n + k \in 1 .. n + m /\ ~(n + k <= n) /\ n + k - n = k
    OBVIOUS
  <2> QED
    BY <2>1, <2>2, <2>3, LenProperties
<1>5. \A j \in 1 .. n + m : j \in 1 .. n \/ \E k \in 1 .. m : j = n + k
  <2> SUFFICES ASSUME NEW j \in 1 .. n + m, j \notin 1 .. n PROVE \E k \in 1 .. m : j = n + k
    OBVIOUS
  <2>1. j - n \in 1 .. m /\ j = n + (j - n)
    OBVIOUS
  <2> QED
    BY <2>1
<1>6. /\ Table!Headers(t) \subseteq 1 .. n
      /\ n + 1 \in 1 .. n + m /\ u[n + 1] = g[1]
      /\ \A k \in 2 .. m : k \in 1 .. m /\ ~u[n + k].header
  <2>1. 1 \in 1 .. m /\ \A k \in 2 .. m : k \in 1 .. m
    BY <1>2
  <2> QED
    BY <1>1, <1>2, <1>4, <2>1 DEF Table!Headers, IsGroup
<1>7. \A j : j \in Table!Headers(u) <=> j \in Table!Headers(t) \/ j = n + 1
  <2>1. ASSUME NEW j \in 1 .. n
        PROVE  u[j].header <=> j \in Table!Headers(t)
    BY <1>1, <1>4 DEF Table!Headers
  <2>2. ASSUME NEW k \in 1 .. m
        PROVE  u[n + k].header <=> k = 1
    <3>1. k = 1 \/ k \in 2 .. m
      OBVIOUS
    <3> QED
      BY <1>2, <1>6, <3>1 DEF IsGroup
  <2>3. \A j : j \in Table!Headers(u) <=> j \in 1 .. n + m /\ u[j].header
    BY <1>4 DEF Table!Headers
  <2>4. \A k \in 1 .. m : n + k \notin 1 .. n
    OBVIOUS
  <2>5. 1 \in 1 .. m /\ 1 .. n \subseteq 1 .. n + m
    BY <1>2
  <2> QED
    BY <1>5, <1>6, <2>1, <2>2, <2>3, <2>4, <2>5
<1>8. ASSUME NEW h \in Table!Headers(t)
      PROVE  Table!RowsOf(u, h) = Table!RowsOf(t, h)
  <2>1. h \in 1 .. n
    BY <1>6
  <2>2. \A j \in 1 .. n : j \in Table!RowsOf(u, h) <=> j \in Table!RowsOf(t, h)
    <3> SUFFICES ASSUME NEW j \in 1 .. n
                 PROVE  j \in Table!RowsOf(u, h) <=> j \in Table!RowsOf(t, h)
      OBVIOUS
    <3>1. j \in 1 .. n + m /\ ~(n + 1 <= j)
      OBVIOUS
    <3> QED
      BY <1>1, <1>4, <1>7, <3>1 DEF Table!RowsOf
  <2>3. \A k \in 1 .. m : n + k \notin Table!RowsOf(u, h)
    <3> SUFFICES ASSUME NEW k \in 1 .. m PROVE n + k \notin Table!RowsOf(u, h)
      OBVIOUS
    <3>1. h < n + 1 /\ n + 1 <= n + k
      BY <2>1
    <3> QED
      BY <1>7, <3>1 DEF Table!RowsOf
  <2>4. Table!RowsOf(u, h) \subseteq 1 .. n + m /\ Table!RowsOf(t, h) \subseteq 1 .. n
    BY <1>1, <1>4 DEF Table!RowsOf
  <2> QED
    BY <1>5, <2>2, <2>3, <2>4
<1>9. \A j : j \in Table!RowsOf(u, n + 1) <=> \E k \in 2 .. m : j = n + k
  <2>1. ASSUME NEW k \in 2 .. m
        PROVE  n + k \in Table!RowsOf(u, n + 1)
    <3>1. n + k \in 1 .. n + m /\ n + k > n + 1
      BY <1>2
    <3>2. \A h \in Table!Headers(u) : ~(n + 1 < h /\ h <= n + k)
      BY <1>6, <1>7
    <3> QED
      BY <1>4, <3>1, <3>2 DEF Table!RowsOf
  <2>2. ASSUME NEW j \in Table!RowsOf(u, n + 1)
        PROVE  \E k \in 2 .. m : j = n + k
    <3>1. j \in 1 .. n + m /\ j > n + 1
      BY <1>4 DEF Table!RowsOf
    <3>2. j - n \in 2 .. m /\ j = n + (j - n)
      BY <3>1
    <3> QED
      BY <3>2
  <2> QED
    BY <2>1, <2>2
<1>10. \A k \in 1 .. m : ProjectOf(u[n + k]) = p /\ AsSent(u[n + k])
  <2> SUFFICES ASSUME NEW k \in 1 .. m PROVE ProjectOf(u[n + k]) = p /\ AsSent(u[n + k])
    OBVIOUS
  <2>1. u[n + k] = g[k] /\ (k = 1 \/ k \in 2 .. m)
    BY <1>4
  <2> QED
    BY <1>2, <2>1 DEF ProjectOf, IsGroup
<1>11. ASSUME NEW i \in 1 .. n + m, NEW j \in 1 .. n + m,
              u[i].header = u[j].header, u[i].key = u[j].key
       PROVE  i = j
  <2>1. ProjectOf(u[i]) = ProjectOf(u[j])
    BY <1>11 DEF ProjectOf
  <2>2. CASE i \in 1 .. n /\ j \in 1 .. n
    BY <1>1, <1>4, <1>11, <2>2 DEF IsTable
  <2>3. CASE i \in 1 .. n /\ j \notin 1 .. n
    BY <1>1, <1>4, <1>5, <1>10, <2>1, <2>3
  <2>4. CASE i \notin 1 .. n /\ j \in 1 .. n
    BY <1>1, <1>4, <1>5, <1>10, <2>1, <2>4
  <2>5. CASE i \notin 1 .. n /\ j \notin 1 .. n
    <3>1. PICK k \in 1 .. m : i = n + k
      BY <1>5, <2>5
    <3>2. PICK l \in 1 .. m : j = n + l
      BY <1>5, <2>5
    <3>3. g[k].header = g[l].header /\ g[k].key = g[l].key
      BY <1>4, <1>11, <3>1, <3>2
    <3>4. (k = 1 \/ k \in 2 .. m) /\ (l = 1 \/ l \in 2 .. m)
      OBVIOUS
    <3>5. k = l
      BY <1>2, <3>3, <3>4 DEF IsGroup
    <3> QED
      BY <3>1, <3>2, <3>5
  <2> QED
    BY <2>2, <2>3, <2>4, <2>5
<1>12. u[1].header
  <2>1. CASE n = 0
    <3>1. u[n + 1].header /\ n + 1 = 1
      BY <1>6, <2>1 DEF IsGroup
    <3> QED
      BY <3>1
  <2>2. CASE n # 0
    <3>1. 1 \in 1 .. n /\ t # <<>>
      BY <1>1, <2>2
    <3> QED
      BY <1>4, <3>1 DEF IsTable
  <2> QED
    BY <2>1, <2>2
<1>13. ASSUME NEW h \in Table!Headers(u)
       PROVE  /\ Table!RowsOf(u, h) # {}
              /\ \A j \in Table!RowsOf(u, h) : Project[u[j].key] = u[h].key
  <2>1. CASE h \in Table!Headers(t)
    <3>1. h \in 1 .. n /\ Table!RowsOf(t, h) \subseteq 1 .. n
      BY <1>1, <1>6, <2>1 DEF Table!RowsOf
    <3> QED
      BY <1>4, <1>8, <2>1, <3>1 DEF IsTable
  <2>2. CASE h = n + 1
    <3>1. n + 2 \in Table!RowsOf(u, h)
      <4>1. 2 \in 2 .. m
        BY <1>2
      <4> QED
        BY <1>9, <2>2, <4>1
    <3>2. u[h].key = p
      BY <1>6, <2>2 DEF IsGroup
    <3>3. \A k \in 2 .. m : Project[u[n + k].key] = p
      BY <1>2, <1>4, <1>6 DEF IsGroup
    <3> QED
      BY <1>9, <2>2, <3>1, <3>2, <3>3
  <2> QED
    BY <1>7, <2>1, <2>2
<1>14. IsTable(u)
  BY <1>4, <1>11, <1>12, <1>13 DEF IsTable
<1>15. ASSUME NEW j \in DOMAIN u
       PROVE  \/ \E i \in DOMAIN t : u[j] = t[i]
              \/ ProjectOf(u[j]) = p /\ AsSent(u[j])
  <2>1. CASE j \in 1 .. n
    BY <1>1, <1>4, <2>1
  <2>2. CASE \E k \in 1 .. m : j = n + k
    BY <1>10, <2>2
  <2> QED
    BY <1>4, <1>5, <2>1, <2>2
<1> QED
  BY <1>3, <1>14, <1>15

\* Numbers are listed from the lowest to the highest.
LEMMA IncreasingLists ==
  ASSUME NEW S \in SUBSET Nat, IsFiniteSet(S)
  PROVE  \E m \in Nat : /\ m = Cardinality(S)
                        /\ Table!Increasing(S) \in [1 .. m -> S]
                        /\ \A i, j \in 1 .. m : Table!Increasing(S)[i] = Table!Increasing(S)[j] => i = j
                        /\ \A x \in S : \E i \in 1 .. m : Table!Increasing(S)[i] = x
<1>1. PICK R : R = {p \in S \X S : p[1] < p[2]}
  OBVIOUS
<1>2. Orders(R, S)
  <2>1. \A x, y \in S : <<x, y>> \in R <=> x < y
    BY <1>1
  <2>2. \A x, y \in S : x # y => <<x, y>> \in R \/ <<y, x>> \in R
    BY <2>1
  <2>3. \A x, y \in S : <<x, y>> \in R => <<y, x>> \notin R
    BY <2>1
  <2>4. \A x, y, z \in S : <<x, y>> \in R /\ <<y, z>> \in R => <<x, z>> \in R
    BY <2>1
  <2> QED
    BY <2>2, <2>3, <2>4 DEF Orders
<1>3. PICK f : f = Table!Increasing(S) /\ f = Table!InOrder(S, R)
  BY <1>1 DEF Table!Increasing
<1>4. Lists(f, R, S)
  BY <1>2, <1>3, InOrderLists
<1>5. PICK m \in Nat : m = Cardinality(S)
  BY FS_CardinalityType
<1>6. f \in [1 .. m -> S] /\ DOMAIN f = 1 .. m
  BY <1>4, <1>5 DEF Lists
<1>7. /\ \A i, j \in DOMAIN f : f[i] = f[j] => i = j
      /\ \A x \in S : \E i \in DOMAIN f : f[i] = x
  BY <1>2, <1>4, ListsAll
<1> QED
  BY <1>3, <1>5, <1>6, <1>7

\* What GroupOf makes of the containers of a project is a group.
LEMMA GroupOfIsGroup ==
  ASSUME NEW cs \in Snapshots, NEW n0 \in DOMAIN cs
  PROVE  IsGroup(Table!GroupOf(cs, Project[n0]), Project[n0])
<1>1. PICK p \in Nat : p = Project[n0]
  BY TablesAssumption
<1>2. PICK S : S = {n \in DOMAIN cs : Project[n] = p}
  OBVIOUS
<1>3. S \in SUBSET Nat /\ IsFiniteSet(S) /\ n0 \in S
  <2>1. S \in SUBSET (DOMAIN cs) /\ IsFiniteSet(DOMAIN cs)
    BY <1>2, TablesAssumption
  <2>2. IsFiniteSet(S)
    BY <2>1, FS_Subset
  <2>3. S \in SUBSET Nat
    BY <2>1, TablesAssumption
  <2> QED
    BY <1>1, <1>2, <2>2, <2>3
<1>4. PICK f : f = Table!Increasing(S)
  OBVIOUS
<1>5. PICK m \in Nat : /\ f \in [1 .. m -> S]
                       /\ \A i, j \in 1 .. m : f[i] = f[j] => i = j
                       /\ \A x \in S : \E i \in 1 .. m : f[i] = x
  BY <1>3, <1>4, IncreasingLists
<1>6. m >= 1
  <2>1. PICK i \in 1 .. m : f[i] = n0
    BY <1>3, <1>5
  <2> QED
    BY <2>1
<1>7. PICK b : b = [i \in 1 .. m |-> Table!Row(f[i], cs[f[i]])]
  OBVIOUS
<1>8. ASSUME NEW i \in 1 .. m
      PROVE  /\ b[i] \in TableRow /\ ~b[i].header /\ b[i].key = f[i]
             /\ Project[f[i]] = p /\ AsSent(b[i])
  <2>1. f[i] \in S /\ f[i] \in DOMAIN cs /\ f[i] \in Nat /\ cs[f[i]] \in Nat /\ Project[f[i]] = p
    BY <1>2, <1>3, <1>5, TablesAssumption
  <2>2. b[i] = Table!Row(f[i], cs[f[i]])
    BY <1>7
  <2> QED
    BY <2>1, <2>2 DEF Table!Row, TableRow, AsSent
<1>9. b \in Seq(TableRow) /\ Len(b) = m
  <2>1. b \in [1 .. m -> TableRow]
    BY <1>7, <1>8
  <2> QED
    BY <2>1, SeqDef
<1>10. PICK a : a = <<Table!Header(p)>>
  OBVIOUS
<1>11. a \in Seq(TableRow) /\ Len(a) = 1 /\ a[1].header /\ a[1].key = p /\ AsSent(a[1])
  BY <1>10 DEF Table!Header, TableRow, AsSent
<1>12. PICK g : g = Table!GroupOf(cs, p)
  OBVIOUS
<1>13. g = a \o b
  <2>1. DOMAIN f = 1 .. m
    BY <1>5
  <2> QED
    BY <1>2, <1>4, <1>7, <1>10, <1>12, <2>1 DEF Table!GroupOf
<1>14. /\ g \in Seq(TableRow) /\ Len(g) = 1 + m
       /\ \A i \in 1 .. 1 + m : g[i] = IF i <= 1 THEN a[i] ELSE b[i - 1]
  <2>1. /\ a \o b \in Seq(TableRow) /\ Len(a \o b) = Len(a) + Len(b)
        /\ \A i \in 1 .. Len(a) + Len(b) :
               (a \o b)[i] = IF i <= Len(a) THEN a[i] ELSE b[i - Len(a)]
    <3>1. a \in Seq(TableRow) /\ b \in Seq(TableRow)
      BY <1>9, <1>11
    <3> QED
      BY <3>1, ConcatProperties
  <2> QED
    BY <1>9, <1>11, <1>13, <2>1
<1>15. g[1] = a[1]
  <2>1. 1 \in 1 .. 1 + m /\ 1 <= 1
    OBVIOUS
  <2> QED
    BY <1>14, <2>1
<1>16. \A k \in 2 .. 1 + m : k - 1 \in 1 .. m /\ g[k] = b[k - 1]
  <2>1. \A k \in 2 .. 1 + m : k - 1 \in 1 .. m /\ k \in 1 .. 1 + m /\ ~(k <= 1)
    OBVIOUS
  <2> QED
    BY <1>14, <2>1
<1>17. \A k \in 2 .. 1 + m : ~g[k].header /\ Project[g[k].key] = p
  BY <1>8, <1>16
<1>18. ASSUME NEW k \in 2 .. 1 + m, NEW l \in 2 .. 1 + m, g[k].key = g[l].key
       PROVE  k = l
  <2>1. f[k - 1] = f[l - 1] /\ k - 1 \in 1 .. m /\ l - 1 \in 1 .. m
    BY <1>8, <1>16, <1>18
  <2>2. k - 1 = l - 1
    BY <1>5, <2>1
  <2> QED
    BY <2>2
<1>19. \A k \in 1 .. 1 + m : AsSent(g[k])
  <2>1. \A k \in 1 .. 1 + m : k = 1 \/ k \in 2 .. 1 + m
    OBVIOUS
  <2> QED
    BY <1>8, <1>11, <1>15, <1>16, <2>1
<1>20. IsGroup(g, p)
  BY <1>6, <1>11, <1>14, <1>15, <1>17, <1>18, <1>19 DEF IsGroup
<1> QED
  BY <1>1, <1>12, <1>20

\* The sequences of w are put together one after the other.
LEMMA FlattenIs ==
  ASSUME NEW w, NEW m \in Nat, m # 0, Len(w) = m
  PROVE  \E f : /\ f[1] = w[1]
                /\ \A i \in 2 .. m : f[i] = f[i - 1] \o w[i]
                /\ Table!FlattenSeq(w) = f[m]
<1> DEFINE Rec(g, i) == IF i = 1 THEN w[i] ELSE g[i - 1] \o w[i]
           Good == {n \in Nat : \E g : g = [i \in 1 .. n |-> Rec(g, i)]}
<1>1. 0 \in Good
  <2> DEFINE g == [i \in 1 .. 0 |-> 0]
  <2>1. g = [i \in 1 .. 0 |-> Rec(g, i)]
    OBVIOUS
  <2> HIDE DEF g, Rec
  <2> QED
    BY <2>1
<1>2. ASSUME NEW n \in Nat, n \in Good
      PROVE  n + 1 \in Good
  <2>1. PICK g : g = [i \in 1 .. n |-> Rec(g, i)]
    BY <1>2
  <2> DEFINE h == [i \in 1 .. n + 1 |-> Rec(g, i)]
  <2>2. \A i \in 1 .. n : h[i] = g[i]
    <3>1. \A i \in 1 .. n : i \in 1 .. n + 1
      OBVIOUS
    <3> HIDE DEF Rec
    <3> QED
      BY <2>1, <3>1
  <2>3. \A i \in 1 .. n + 1 : Rec(g, i) = Rec(h, i)
    <3>1. \A i \in 1 .. n + 1 : i # 1 => i - 1 \in 1 .. n
      OBVIOUS
    <3> HIDE DEF h
    <3> QED
      BY <2>2, <3>1
  <2>4. h = [i \in 1 .. n + 1 |-> Rec(h, i)]
    <3> HIDE DEF Rec
    <3> QED
      BY <2>3
  <2> HIDE DEF h, Rec
  <2> QED
    BY <2>4
<1>3. m \in Good
  <2> HIDE DEF Good
  <2> QED
    BY <1>1, <1>2, SetInduction
<1>4. PICK f : f = [i \in 1 .. m |-> Rec(f, i)] /\ Table!FlattenSeq(w) = f[m]
  <2>1. \E g : g = [i \in 1 .. m |-> Rec(g, i)]
    BY <1>3
  <2> QED
    BY <2>1 DEF Table!FlattenSeq
<1>5. \A i \in 2 .. m : i \in 1 .. m /\ i # 1
  OBVIOUS
<1>6. 1 \in 1 .. m
  OBVIOUS
<1> QED
  BY <1>4, <1>5, <1>6

\* All rows are as the server sends them.
AllAsSent(t) == \A j \in DOMAIN t : AsSent(t[j])

\* What the server sends is a table.
LEMMA ServerSendsTable ==
  ASSUME NEW cs \in Snapshots
  PROVE  IsTable(Table!GroupContainers(cs)) /\ AllAsSent(Table!GroupContainers(cs))
<1>1. PICK S : S = {Project[n] : n \in DOMAIN cs}
  OBVIOUS
<1>2. S \in SUBSET Nat /\ IsFiniteSet(S)
  <2>1. IsFiniteSet(DOMAIN cs) /\ \A n \in DOMAIN cs : Project[n] \in Nat
    BY TablesAssumption
  <2>2. S \in SUBSET Nat
    BY <1>1, <2>1
  <2>3. [n \in DOMAIN cs |-> Project[n]] \in Surjection(DOMAIN cs, S)
    BY <1>1 DEF Surjection
  <2> QED
    BY <2>1, <2>2, <2>3, FS_Surjection
<1>3. PICK f : f = Table!Increasing(S)
  OBVIOUS
<1>4. PICK m \in Nat : /\ f \in [1 .. m -> S]
                       /\ \A i, j \in 1 .. m : f[i] = f[j] => i = j
  BY <1>2, <1>3, IncreasingLists
<1>5. PICK w : w = [i \in 1 .. m |-> Table!GroupOf(cs, f[i])]
  OBVIOUS
<1>6. DOMAIN w = 1 .. m /\ Len(w) = m
  BY <1>5
<1>7. ASSUME NEW i \in 1 .. m
      PROVE  IsGroup(w[i], f[i])
  <2>1. PICK n \in DOMAIN cs : f[i] = Project[n]
    BY <1>1, <1>4
  <2> QED
    BY <1>5, <2>1, GroupOfIsGroup
<1>8. PICK t : t = Table!GroupContainers(cs) /\ t = Table!FlattenSeq(w)
  <2>1. DOMAIN f = 1 .. m
    BY <1>4
  <2> QED
    BY <1>1, <1>3, <1>5, <2>1 DEF Table!GroupContainers
<1>e. IsTable(<<>>) /\ DOMAIN <<>> = {}
  <2>1. DOMAIN <<>> = {}
    OBVIOUS
  <2> QED
    BY <2>1, EmptySeq DEF IsTable, Table!Headers
<1>9. CASE m = 0
  <2>1. w = <<>>
    BY <1>5, <1>9
  <2>2. t = <<>>
    BY <1>6, <1>8, <1>9, <2>1 DEF Table!FlattenSeq
  <2> QED
    BY <1>8, <1>e, <2>2 DEF AllAsSent
<1>10. CASE m # 0
  <2>1. PICK g : /\ g[1] = w[1]
                 /\ \A i \in 2 .. m : g[i] = g[i - 1] \o w[i]
                 /\ Table!FlattenSeq(w) = g[m]
    BY <1>6, <1>10, FlattenIs
  <2> DEFINE Upto(k) == /\ IsTable(g[k])
                        /\ \A j \in DOMAIN g[k] : \E i \in 1 .. k : ProjectOf(g[k][j]) = f[i]
                        /\ AllAsSent(g[k])
             P == {k \in Nat : k + 1 <= m => Upto(k + 1)}
  <2>2. 0 \in P
    <3>1. PICK a : a = w[1] /\ IsGroup(a, f[1])
      BY <1>7, <1>10
    <3>2. <<>> \o a = a
      BY <3>1, ConcatEmptySeq DEF IsGroup
    <3>3. PICK b : b = <<>> /\ IsTable(b) /\ DOMAIN b = {}
      BY <1>e
    <3>4. IsTable(b \o a) /\ \A j \in DOMAIN (b \o a) : ProjectOf((b \o a)[j]) = f[1] /\ AsSent((b \o a)[j])
      <4>1. \A i \in DOMAIN b : ProjectOf(b[i]) # f[1]
        BY <3>3
      <4>2. PICK p : p = f[1] /\ IsGroup(a, p) /\ IsTable(b)
                     /\ \A i \in DOMAIN b : ProjectOf(b[i]) # p
        BY <3>1, <3>3, <4>1
      <4>3. /\ IsTable(b \o a)
            /\ \A j \in DOMAIN (b \o a) : \/ \E i \in DOMAIN b : (b \o a)[j] = b[i]
                                          \/ ProjectOf((b \o a)[j]) = p /\ AsSent((b \o a)[j])
        BY <4>2, AppendGroup
      <4> QED
        BY <3>3, <4>2, <4>3
    <3>5. IsTable(g[1]) /\ \A j \in DOMAIN g[1] : ProjectOf(g[1][j]) = f[1] /\ AsSent(g[1][j])
      BY <2>1, <3>1, <3>2, <3>3, <3>4
    <3>6. 0 + 1 = 1 /\ 1 \in 1 .. 1
      OBVIOUS
    <3> QED
      BY <3>5, <3>6 DEF AllAsSent
  <2>3. ASSUME NEW k \in Nat, k \in P
        PROVE  k + 1 \in P
    <3> SUFFICES ASSUME k + 1 + 1 <= m
                 PROVE  Upto(k + 1 + 1)
      OBVIOUS
    <3>1. PICK i \in 2 .. m : i = k + 1 + 1 /\ i - 1 = k + 1 /\ i \in 1 .. m
      OBVIOUS
    <3>2. PICK a : a = g[i - 1]
      OBVIOUS
    <3>3. /\ IsTable(a) /\ AllAsSent(a)
          /\ \A j \in DOMAIN a : \E l \in 1 .. i - 1 : ProjectOf(a[j]) = f[l]
      <4>1. Upto(k + 1)
        BY <2>3, <3>1
      <4> QED
        BY <3>1, <3>2, <4>1
    <3>4. PICK b : b = w[i] /\ IsGroup(b, f[i])
      BY <1>7, <3>1
    <3>5. \A j \in DOMAIN a : ProjectOf(a[j]) # f[i]
      <4> SUFFICES ASSUME NEW j \in DOMAIN a, ProjectOf(a[j]) = f[i] PROVE FALSE
        OBVIOUS
      <4>1. PICK l \in 1 .. i - 1 : ProjectOf(a[j]) = f[l]
        BY <3>3
      <4>2. l \in 1 .. m /\ l # i
        BY <3>1, <4>1
      <4> QED
        BY <1>4, <3>1, <4>1, <4>2
    <3>6. /\ IsTable(a \o b)
          /\ \A j \in DOMAIN (a \o b) : \/ \E h \in DOMAIN a : (a \o b)[j] = a[h]
                                        \/ ProjectOf((a \o b)[j]) = f[i] /\ AsSent((a \o b)[j])
      BY <3>3, <3>4, <3>5, AppendGroup
    <3>7. g[i] = a \o b
      BY <2>1, <3>1, <3>2, <3>4
    <3>8. ASSUME NEW j \in DOMAIN g[i]
          PROVE  (\E l \in 1 .. i : ProjectOf(g[i][j]) = f[l]) /\ AsSent(g[i][j])
      <4>1. CASE \E h \in DOMAIN a : (a \o b)[j] = a[h]
        <5>1. PICK h \in DOMAIN a : (a \o b)[j] = a[h]
          BY <4>1
        <5>2. PICK l \in 1 .. i - 1 : ProjectOf(a[h]) = f[l]
          BY <3>3
        <5>3. l \in 1 .. i
          BY <3>1, <5>2
        <5> QED
          BY <3>3, <3>7, <5>1, <5>2, <5>3 DEF AllAsSent
      <4>2. CASE ProjectOf((a \o b)[j]) = f[i] /\ AsSent((a \o b)[j])
        <5>1. i \in 1 .. i
          OBVIOUS
        <5> QED
          BY <3>7, <4>2, <5>1
      <4> QED
        BY <3>6, <3>7, <3>8, <4>1, <4>2
    <3>9. Upto(i)
      BY <3>6, <3>7, <3>8 DEF AllAsSent
    <3> QED
      BY <3>1, <3>9
  <2>4. Nat \subseteq P
    <3> HIDE DEF P
    <3> QED
      BY <2>2, <2>3, SetInduction
  <2>5. m - 1 \in P /\ m - 1 + 1 = m
    BY <1>10, <2>4
  <2>6. IsTable(g[m]) /\ AllAsSent(g[m])
    BY <2>5
  <2> QED
    BY <1>8, <2>1, <2>6
<1> QED
  BY <1>8, <1>9, <1>10

-----------------------------------------------------------------------------
(* The table of containers: what is displayed                               *)

\* The rows of u are those of t but for what they show.
SameCells(t, u) ==
    /\ u \in Seq(TableRow) /\ Len(u) = Len(t)
    /\ \A i \in DOMAIN t : u[i].header = t[i].header /\ u[i].key = t[i].key /\ u[i].value = t[i].value

\* Nothing of a table depends on what its rows show.
LEMMA SameCellsKeep ==
  ASSUME NEW t, IsTable(t), NEW u, SameCells(t, u)
  PROVE  /\ IsTable(u) /\ DOMAIN u = DOMAIN t
         /\ Table!Headers(u) = Table!Headers(t)
         /\ \A h : Table!RowsOf(u, h) = Table!RowsOf(t, h)
         /\ \A col, asc : InOrderOf(t, col, asc) => InOrderOf(u, col, asc)
<1>1. PICK n \in Nat : n = Len(t) /\ DOMAIN t = 1 .. n /\ DOMAIN u = 1 .. n /\ Len(u) = n
  BY LenProperties DEF IsTable, SameCells
<1>2. \A i \in 1 .. n : u[i].header = t[i].header /\ u[i].key = t[i].key /\ u[i].value = t[i].value
  BY <1>1 DEF SameCells
<1>3. Table!Headers(u) = Table!Headers(t)
  BY <1>1, <1>2 DEF Table!Headers
<1>4. \A h : Table!RowsOf(u, h) = Table!RowsOf(t, h)
  BY <1>1, <1>3 DEF Table!RowsOf
<1>5. \A h : Table!RowsOf(t, h) \subseteq 1 .. n
  BY <1>1 DEF Table!RowsOf
<1>6. Table!Headers(t) \subseteq 1 .. n
  BY <1>1 DEF Table!Headers
<1>7. \A col : \A i \in 1 .. n : Table!Cell(u[i], col) = Table!Cell(t[i], col)
  BY <1>2 DEF Table!Cell
<1>8. \A col, asc : InOrderOf(t, col, asc) => InOrderOf(u, col, asc)
  BY <1>3, <1>4, <1>5, <1>7 DEF InOrderOf
<1>9. IsTable(u)
  <2>1. \A i, j \in 1 .. n : (u[i].header = u[j].header /\ u[i].key = u[j].key) => i = j
    BY <1>1, <1>2 DEF IsTable
  <2>2. u # <<>> => u[1].header
    <3> SUFFICES ASSUME u # <<>> PROVE u[1].header
      OBVIOUS
    <3>1. n # 0
      BY <1>1, EmptySeq DEF SameCells
    <3>2. 1 \in 1 .. n /\ t # <<>>
      BY <1>1, <3>1
    <3> QED
      BY <1>2, <3>2 DEF IsTable
  <2>3. ASSUME NEW h \in Table!Headers(u)
        PROVE  /\ Table!RowsOf(u, h) # {}
               /\ \A j \in Table!RowsOf(u, h) : Project[u[j].key] = u[h].key
    <3>1. h \in Table!Headers(t) /\ h \in 1 .. n
      BY <1>3, <1>6
    <3> QED
      BY <1>2, <1>4, <1>5, <3>1 DEF IsTable
  <2> QED
    BY <1>1, <2>1, <2>2, <2>3 DEF IsTable, SameCells
<1> QED
  BY <1>1, <1>3, <1>4, <1>8, <1>9

\* The headers are collapsed that the list names.
CollapsedAs(t, list) == \A h \in Table!Headers(t) : t[h].collapsed = (t[h].key \in list)

\* ApplyCollapsed collapses them and changes nothing else of a table.
LEMMA CollapsedIs ==
  ASSUME NEW t, IsTable(t), NEW list
  PROVE  SameCells(t, Table!ApplyCollapsed(t, list)) /\ CollapsedAs(Table!ApplyCollapsed(t, list), list)
<1>1. PICK n \in Nat : n = Len(t) /\ DOMAIN t = 1 .. n /\ \A i \in 1 .. n : t[i] \in TableRow
  BY LenProperties, ElementOfSeq DEF IsTable
<1>2. PICK u : u = Table!ApplyCollapsed(t, list)
  OBVIOUS
<1>3. u = [i \in 1 .. n |-> IF t[i].header THEN [t[i] EXCEPT !.collapsed = t[i].key \in list] ELSE t[i]]
  BY <1>1, <1>2 DEF Table!ApplyCollapsed
<1>4. ASSUME NEW i \in 1 .. n
      PROVE  /\ u[i] \in TableRow
             /\ u[i].header = t[i].header /\ u[i].key = t[i].key /\ u[i].value = t[i].value
             /\ t[i].header => u[i].collapsed = (t[i].key \in list)
  <2>1. t[i] \in TableRow
    BY <1>1
  <2>2. CASE t[i].header
    <3>1. u[i] = [t[i] EXCEPT !.collapsed = t[i].key \in list]
      BY <1>3, <2>2
    <3>2. (t[i].key \in list) \in BOOLEAN
      OBVIOUS
    <3> QED
      BY <2>1, <2>2, <3>1, <3>2 DEF TableRow
  <2>3. CASE ~t[i].header
    <3>1. u[i] = t[i]
      BY <1>3, <2>3
    <3> QED
      BY <2>1, <2>3, <3>1
  <2> QED
    BY <2>2, <2>3
<1>5. u \in Seq(TableRow) /\ Len(u) = n /\ DOMAIN u = 1 .. n
  <2>1. u \in [1 .. n -> TableRow]
    BY <1>3, <1>4
  <2> QED
    BY <2>1, SeqDef
<1>6. SameCells(t, u)
  BY <1>1, <1>4, <1>5 DEF SameCells
<1>7. CollapsedAs(u, list)
  BY <1>4, <1>5 DEF CollapsedAs, Table!Headers
<1> QED
  BY <1>2, <1>6, <1>7

\* What the table shows, when the groups in list are collapsed, those in open
\* have been expanded past the filter, and the filter is q.
Shows(t, list, open, q) ==
    \A i \in Table!Headers(t) :
        /\ t[i].collapsed = (t[i].key \in list)
        /\ \A j \in Table!RowsOf(t, i) :
               t[j].shown = (t[i].key \notin list /\ (t[i].key \in open \/ Table!RowMatches(t[j], q)))
        /\ t[i].shown = (t[i].key \in list \/ \E j \in Table!RowsOf(t, i) : t[j].shown)

\* ApplyFilter shows what the filter and the headers say and changes nothing
\* else of a table.
LEMMA FilterIs ==
  ASSUME NEW t, IsTable(t), NEW list, CollapsedAs(t, list), NEW q \in BOOLEAN
  PROVE  /\ SameCells(t, Table!ApplyFilter(t, q))
         /\ Shows(Table!ApplyFilter(t, q), list, {}, q)
<1>1. PICK n \in Nat : n = Len(t) /\ DOMAIN t = 1 .. n /\ \A i \in 1 .. n : t[i] \in TableRow
  BY LenProperties, ElementOfSeq DEF IsTable
<1>2. PICK u : u = Table!ApplyFilter(t, q)
  OBVIOUS
<1> DEFINE Group(i) == t[i].collapsed \/ \E j \in Table!RowsOf(t, i) : Table!RowMatches(t[j], q)
           Single(i) == ~t[Table!HeaderOf(t, i)].collapsed /\ Table!RowMatches(t[i], q)
<1>3. u = [i \in 1 .. n |-> IF t[i].header THEN [t[i] EXCEPT !.shown = Group(i)]
                            ELSE [t[i] EXCEPT !.shown = Single(i)]]
  BY <1>1, <1>2 DEF Table!ApplyFilter
<1>h. Table!Headers(t) \subseteq 1 .. n /\ \A h : Table!RowsOf(t, h) \subseteq 1 .. n
  BY <1>1 DEF Table!Headers, Table!RowsOf
<1>g. \A h \in Table!Headers(t) : t[h].collapsed \in BOOLEAN
  BY <1>1, <1>h DEF TableRow
<1>b. \A i \in 1 .. n : /\ t[i].header => Group(i) \in BOOLEAN
                        /\ ~t[i].header => Single(i) \in BOOLEAN
  <2>1. \A i \in 1 .. n : t[i].collapsed \in BOOLEAN
    BY <1>1 DEF TableRow
  <2> QED
    BY <2>1
<1> HIDE DEF Group, Single
<1>4. ASSUME NEW i \in 1 .. n
      PROVE  /\ u[i] \in TableRow
             /\ u[i].header = t[i].header /\ u[i].key = t[i].key /\ u[i].value = t[i].value
             /\ u[i].collapsed = t[i].collapsed
             /\ t[i].header => u[i].shown = Group(i)
             /\ ~t[i].header => u[i].shown = Single(i)
  <2>1. t[i] \in TableRow
    BY <1>1
  <2>2. CASE t[i].header
    <3>1. u[i] = [t[i] EXCEPT !.shown = Group(i)]
      BY <1>3, <2>2
    <3> QED
      BY <1>b, <2>1, <2>2, <3>1 DEF TableRow
  <2>3. CASE ~t[i].header
    <3>1. u[i] = [t[i] EXCEPT !.shown = Single(i)]
      BY <1>3, <2>3
    <3> QED
      BY <1>b, <2>1, <2>3, <3>1 DEF TableRow
  <2> QED
    BY <2>2, <2>3
<1>5. u \in Seq(TableRow) /\ Len(u) = n /\ DOMAIN u = 1 .. n
  <2>1. u \in [1 .. n -> TableRow]
    BY <1>3, <1>4
  <2> QED
    BY <2>1, SeqDef
<1>6. SameCells(t, u)
  BY <1>1, <1>4, <1>5 DEF SameCells
<1>7. Table!Headers(u) = Table!Headers(t) /\ \A h : Table!RowsOf(u, h) = Table!RowsOf(t, h)
  BY <1>6, SameCellsKeep
<1>8. ASSUME NEW i \in Table!Headers(t)
      PROVE  /\ u[i].collapsed = (u[i].key \in list)
             /\ \A j \in Table!RowsOf(t, i) :
                    u[j].shown = (u[i].key \notin list /\ Table!RowMatches(u[j], q))
             /\ u[i].shown = (u[i].key \in list \/ \E j \in Table!RowsOf(t, i) : u[j].shown)
  <2>1. i \in 1 .. n /\ t[i].header
    BY <1>h DEF Table!Headers
  <2>2. /\ u[i].collapsed = (t[i].key \in list) /\ t[i].collapsed = (t[i].key \in list)
        /\ u[i].key = t[i].key
    BY <1>4, <2>1 DEF CollapsedAs
  <2>3. ASSUME NEW j \in Table!RowsOf(t, i)
        PROVE  /\ u[j].shown = (t[i].key \notin list /\ Table!RowMatches(t[j], q))
               /\ Table!RowMatches(t[j], q) = Table!RowMatches(u[j], q)
    <3>1. j \in 1 .. n /\ j \notin Table!Headers(t)
      <4>1. j \in 1 .. n /\ j > i
        BY <1>1 DEF Table!RowsOf
      <4> QED
        BY <2>1, <4>1 DEF Table!RowsOf
    <3>2. ~t[j].header
      BY <1>1, <3>1 DEF Table!Headers
    <3>3. Table!HeaderOf(t, j) = i
      BY <1>1, <3>1, <3>2, GroupOfRow DEF IsTable
    <3>4. u[j].shown = Single(j) /\ u[j].value = t[j].value
      BY <1>4, <3>1, <3>2
    <3>5. Single(j) = (~t[i].collapsed /\ Table!RowMatches(t[j], q))
      BY <3>3 DEF Single
    <3> QED
      BY <2>2, <3>4, <3>5 DEF Table!RowMatches
  <2>4. u[i].shown = Group(i)
    BY <1>4, <2>1
  <2>5. Group(i) <=> t[i].key \in list \/ \E j \in Table!RowsOf(t, i) : u[j].shown
    BY <2>2, <2>3 DEF Group
  <2>6. Group(i) = (t[i].key \in list \/ \E j \in Table!RowsOf(t, i) : u[j].shown)
    BY <1>b, <2>1, <2>5
  <2> QED
    BY <2>2, <2>3, <2>4, <2>6
<1>9. Shows(u, list, {}, q)
  BY <1>7, <1>8 DEF Shows
<1> QED
  BY <1>2, <1>6, <1>9

\* The inductive invariant of the table: what GroupsKeepTheirRows and
\* DisplayFollowsSettings say, of typed rows, and that an answer on its way has
\* a table too.
TableInv ==
    /\ containers \in Snapshots
    /\ polls \in [1 .. MaxPolls -> [at : {"none", "asked", "answered"}, rows : Seq(TableRow)]]
    /\ \A p \in 1 .. MaxPolls : polls[p].at = "answered" => IsTable(polls[p].rows)
    /\ tableQuery \in BOOLEAN
    /\ sorted = Table!NoSort \/ sorted \in [col : Table!Columns, asc : BOOLEAN]
    /\ thAsc \in [Table!Columns -> BOOLEAN]
    /\ IsTable(tbody)
    /\ sorted # Table!NoSort => InOrderOf(tbody, sorted.col, sorted.asc)
    /\ fresh \/ allBtn = Table!AllCollapsed(tbody)
    /\ Shows(tbody, collapsed, unfiltered, tableQuery)

\* What ApplyUI makes of a table is shown as the settings say.
FollowsSettings(u) ==
    /\ IsTable(u)
    /\ sorted # Table!NoSort => InOrderOf(u, sorted.col, sorted.asc)
    /\ Shows(u, collapsed, {}, tableQuery)

\* It does so for every table.
LEMMA ApplyUIIs ==
  ASSUME NEW t, IsTable(t), tableQuery \in BOOLEAN,
         sorted = Table!NoSort \/ sorted \in [col : Table!Columns, asc : BOOLEAN]
  PROVE  FollowsSettings(Table!ApplyUI(t))
<1>1. PICK a : a = IF sorted = Table!NoSort THEN t ELSE Table!ApplySort(t, sorted.col, sorted.asc)
  OBVIOUS
<1>2. IsTable(a) /\ (sorted # Table!NoSort => InOrderOf(a, sorted.col, sorted.asc))
  <2>1. CASE sorted = Table!NoSort
    BY <1>1, <2>1
  <2>2. CASE sorted # Table!NoSort
    <3>1. sorted.asc \in BOOLEAN
      BY <2>2
    <3> QED
      BY <1>1, <2>2, <3>1, SortKeepsGroups
  <2> QED
    BY <2>1, <2>2
<1>3. PICK b : b = Table!ApplyCollapsed(a, collapsed)
  OBVIOUS
<1>4. SameCells(a, b) /\ CollapsedAs(b, collapsed)
  BY <1>2, <1>3, CollapsedIs
<1>5. IsTable(b) /\ \A col, asc : InOrderOf(a, col, asc) => InOrderOf(b, col, asc)
  BY <1>2, <1>4, SameCellsKeep
<1>6. PICK u : u = Table!ApplyFilter(b, tableQuery)
  OBVIOUS
<1>7. SameCells(b, u) /\ Shows(u, collapsed, {}, tableQuery)
  BY <1>4, <1>5, <1>6, FilterIs
<1>8. IsTable(u) /\ \A col, asc : InOrderOf(b, col, asc) => InOrderOf(u, col, asc)
  BY <1>5, <1>7, SameCellsKeep
<1>9. u = Table!ApplyUI(t)
  BY <1>1, <1>3, <1>6 DEF Table!ApplyUI
<1> QED
  BY <1>2, <1>5, <1>7, <1>8, <1>9 DEF FollowsSettings

\* A sort changes nothing of what a table shows.
LEMMA SortedShows ==
  ASSUME NEW t, NEW u, SameGroups(t, u), NEW list, NEW open, NEW q, Shows(t, list, open, q)
  PROVE  /\ Shows(u, list, open, q)
         /\ Table!AllCollapsed(u) = Table!AllCollapsed(t)
<1>1. ASSUME NEW h \in Table!Headers(t)
      PROVE  /\ u[h].collapsed = (u[h].key \in list)
             /\ \A j \in Table!RowsOf(u, h) :
                    u[j].shown = (u[h].key \notin list
                                     /\ (u[h].key \in open \/ Table!RowMatches(u[j], q)))
             /\ u[h].shown = (u[h].key \in list \/ \E j \in Table!RowsOf(u, h) : u[j].shown)
  <2>1. u[h] = t[h] /\ Table!RowsOf(u, h) = Table!RowsOf(t, h)
    BY DEF SameGroups
  <2>2. ASSUME NEW j \in Table!RowsOf(t, h)
        PROVE  u[j].shown = (t[h].key \notin list
                                /\ (t[h].key \in open \/ Table!RowMatches(u[j], q)))
    <3>1. PICK l \in Table!RowsOf(t, h) : u[j] = t[l]
      BY DEF SameGroups
    <3> QED
      BY <3>1 DEF Shows
  <2>3. (\E j \in Table!RowsOf(t, h) : u[j].shown) <=> \E l \in Table!RowsOf(t, h) : t[l].shown
    BY DEF SameGroups
  <2>4. t[h].shown = (t[h].key \in list \/ \E l \in Table!RowsOf(t, h) : t[l].shown)
    BY DEF Shows
  <2>5. t[h].shown = (t[h].key \in list \/ \E j \in Table!RowsOf(t, h) : u[j].shown)
    BY <2>3, <2>4
  <2>6. t[h].collapsed = (t[h].key \in list)
    BY DEF Shows
  <2> QED
    BY <2>1, <2>2, <2>5, <2>6
<1>2. Shows(u, list, open, q)
  <2>1. Table!Headers(u) = Table!Headers(t)
    BY DEF SameGroups
  <2> QED
    BY <1>1, <2>1 DEF Shows
<1>3. Table!AllCollapsed(u) = Table!AllCollapsed(t)
  BY DEF SameGroups, Table!AllCollapsed
<1> QED
  BY <1>2, <1>3

\* The table after a click on the header of group i.
Clicked(t, i, hide) ==
    [j \in DOMAIN t |->
        IF j = i THEN [t[j] EXCEPT !.collapsed = hide]
        ELSE IF j \in Table!RowsOf(t, i) THEN [t[j] EXCEPT !.shown = ~hide]
        ELSE t[j]]

\* A click collapses or expands one group and changes nothing of the others.
LEMMA ClickedShows ==
  ASSUME NEW t, IsTable(t), NEW i \in Table!Headers(t), t[i].shown, NEW hide \in BOOLEAN,
         NEW list, NEW open, NEW q, Shows(t, list, open, q),
         NEW list2, list2 = IF hide THEN list \cup {t[i].key} ELSE list \ {t[i].key},
         NEW open2, open2 = IF hide THEN open \ {t[i].key} ELSE open \cup {t[i].key}
  PROVE  SameCells(t, Clicked(t, i, hide)) /\ Shows(Clicked(t, i, hide), list2, open2, q)
<1>1. PICK n \in Nat : n = Len(t) /\ DOMAIN t = 1 .. n /\ \A j \in 1 .. n : t[j] \in TableRow
  BY LenProperties, ElementOfSeq DEF IsTable
<1>2. PICK u : u = Clicked(t, i, hide)
  OBVIOUS
<1>h. Table!Headers(t) \subseteq 1 .. n /\ \A h : Table!RowsOf(t, h) \subseteq 1 .. n
  BY <1>1 DEF Table!Headers, Table!RowsOf
<1>r. \A h : \A j \in Table!RowsOf(t, i) : j # i
  BY <1>h DEF Table!RowsOf
<1>3. \A j \in 1 .. n : u[j] = IF j = i THEN [t[j] EXCEPT !.collapsed = hide]
                               ELSE IF j \in Table!RowsOf(t, i) THEN [t[j] EXCEPT !.shown = ~hide]
                               ELSE t[j]
  BY <1>1, <1>2 DEF Clicked
<1>4. ASSUME NEW j \in 1 .. n
      PROVE  /\ u[j] \in TableRow
             /\ u[j].header = t[j].header /\ u[j].key = t[j].key /\ u[j].value = t[j].value
             /\ u[j].collapsed = IF j = i THEN hide ELSE t[j].collapsed
             /\ u[j].shown = IF j # i /\ j \in Table!RowsOf(t, i) THEN ~hide ELSE t[j].shown
  <2>1. t[j] \in TableRow
    BY <1>1
  <2>2. CASE j = i
    <3>1. u[j] = [t[j] EXCEPT !.collapsed = hide]
      BY <1>3, <2>2
    <3> QED
      BY <2>1, <2>2, <3>1 DEF TableRow
  <2>3. CASE j # i /\ j \in Table!RowsOf(t, i)
    <3>1. u[j] = [t[j] EXCEPT !.shown = ~hide]
      BY <1>3, <2>3
    <3> QED
      BY <2>1, <2>3, <3>1 DEF TableRow
  <2>4. CASE j # i /\ j \notin Table!RowsOf(t, i)
    BY <1>3, <2>1, <2>4
  <2> QED
    BY <2>2, <2>3, <2>4
<1>5. u \in Seq(TableRow) /\ Len(u) = n /\ DOMAIN u = 1 .. n
  <2>1. DOMAIN u = 1 .. n /\ u = [j \in 1 .. n |-> u[j]]
    BY <1>1, <1>2 DEF Clicked
  <2>2. u \in [1 .. n -> TableRow]
    BY <1>4, <2>1
  <2> QED
    BY <2>2, SeqDef
<1>6. SameCells(t, u)
  BY <1>1, <1>4, <1>5 DEF SameCells
<1>7. Table!Headers(u) = Table!Headers(t) /\ \A h : Table!RowsOf(u, h) = Table!RowsOf(t, h)
  BY <1>6, SameCellsKeep
<1>8. \A h \in Table!Headers(t) : \A j \in Table!RowsOf(t, h) :
          /\ j \in 1 .. n /\ j \notin Table!Headers(t)
          /\ \A k \in Table!Headers(t) : j \in Table!RowsOf(t, k) => k = h
  <2> SUFFICES ASSUME NEW h \in Table!Headers(t), NEW j \in Table!RowsOf(t, h)
               PROVE  /\ j \in 1 .. n /\ j \notin Table!Headers(t)
                      /\ \A k \in Table!Headers(t) : j \in Table!RowsOf(t, k) => k = h
    OBVIOUS
  <2>1. h \in 1 .. n /\ j \in 1 .. n /\ j > h /\ j \notin Table!Headers(t)
    <3>1. h \in 1 .. n /\ j \in 1 .. n
      BY <1>h
    <3> QED
      BY <3>1 DEF Table!RowsOf
  <2>2. ~t[j].header
    BY <1>1, <2>1 DEF Table!Headers
  <2> QED
    BY <1>1, <2>1, <2>2, GroupOfRow DEF IsTable
<1>9. ASSUME NEW h \in Table!Headers(t), h # i
      PROVE  /\ t[h].key # t[i].key /\ u[h] = t[h]
             /\ \A j \in Table!RowsOf(t, h) : u[j] = t[j]
  <2>1. h \in 1 .. n /\ i \in 1 .. n /\ t[h].header /\ t[i].header
    BY <1>1, <1>h DEF Table!Headers
  <2>2. t[h].key # t[i].key
    BY <1>1, <1>9, <2>1 DEF IsTable
  <2>3. h \notin Table!RowsOf(t, i)
    BY <1>8
  <2>4. u[h] = t[h]
    BY <1>3, <1>9, <2>1, <2>3
  <2>5. ASSUME NEW j \in Table!RowsOf(t, h)
        PROVE  u[j] = t[j]
    <3>1. j \in 1 .. n /\ j # i /\ j \notin Table!RowsOf(t, i)
      BY <1>8, <1>9
    <3> QED
      BY <1>3, <3>1
  <2> QED
    BY <2>2, <2>4, <2>5
<1>10. ASSUME NEW h \in Table!Headers(t)
       PROVE  /\ u[h].collapsed = (u[h].key \in list2)
              /\ \A j \in Table!RowsOf(t, h) :
                     u[j].shown = (u[h].key \notin list2
                                      /\ (u[h].key \in open2 \/ Table!RowMatches(u[j], q)))
              /\ u[h].shown = (u[h].key \in list2 \/ \E j \in Table!RowsOf(t, h) : u[j].shown)
  <2>1. CASE h # i
    <3>1. u[h] = t[h] /\ \A j \in Table!RowsOf(t, h) : u[j] = t[j]
      BY <1>9, <2>1
    <3>2. /\ u[h].key \in list2 <=> t[h].key \in list
          /\ u[h].key \in open2 <=> t[h].key \in open
      BY <1>9, <2>1
    <3>3. /\ t[h].collapsed = (t[h].key \in list)
          /\ \A j \in Table!RowsOf(t, h) :
                 t[j].shown = (t[h].key \notin list
                                  /\ (t[h].key \in open \/ Table!RowMatches(t[j], q)))
          /\ t[h].shown = (t[h].key \in list \/ \E j \in Table!RowsOf(t, h) : t[j].shown)
      BY DEF Shows
    <3>4. \A j \in Table!RowsOf(t, h) :
              u[j].shown = (u[h].key \notin list2
                               /\ (u[h].key \in open2 \/ Table!RowMatches(u[j], q)))
      BY <3>1, <3>2, <3>3
    <3>5. u[h].shown = (u[h].key \in list2 \/ \E j \in Table!RowsOf(t, h) : u[j].shown)
      <4>1. (\E j \in Table!RowsOf(t, h) : u[j].shown) <=> \E j \in Table!RowsOf(t, h) : t[j].shown
        BY <3>1
      <4> QED
        BY <3>1, <3>2, <3>3, <4>1
    <3> QED
      BY <3>1, <3>2, <3>3, <3>4, <3>5
  <2>2. CASE h = i
    <3>1. i \in 1 .. n /\ i \notin Table!RowsOf(t, i)
      BY <1>h, <1>8
    <3>2. u[i].collapsed = hide /\ u[i].shown = t[i].shown /\ u[i].key = t[i].key
      BY <1>4, <3>1
    <3>3. \A j \in Table!RowsOf(t, i) : u[j].shown = ~hide
      BY <1>4, <1>8, <3>1
    <3>4. (t[i].key \in list2) = hide /\ (~hide => t[i].key \in open2)
      OBVIOUS
    <3>5. \E j \in Table!RowsOf(t, i) : TRUE
      <4>1. Table!RowsOf(t, i) # {}
        BY DEF IsTable
      <4> QED
        BY <4>1
    <3>6. \A j \in Table!RowsOf(t, i) :
              u[j].shown = (u[i].key \notin list2
                               /\ (u[i].key \in open2 \/ Table!RowMatches(u[j], q)))
      BY <3>2, <3>3, <3>4
    <3>7. u[i].key \in list2 \/ \E j \in Table!RowsOf(t, i) : u[j].shown
      BY <3>2, <3>3, <3>4, <3>5
    <3>8. u[i].shown = TRUE
      <4>1. t[i].shown \in BOOLEAN
        BY <1>1, <3>1 DEF TableRow
      <4> QED
        BY <3>2, <4>1
    <3> QED
      BY <2>2, <3>2, <3>4, <3>6, <3>7, <3>8
  <2> QED
    BY <2>1, <2>2
<1>11. Shows(u, list2, open2, q)
  BY <1>7, <1>10 DEF Shows
<1> QED
  BY <1>2, <1>6, <1>11

\* A table that is shown without settings follows them.
LEMMA SentShows ==
  ASSUME NEW t, IsTable(t), AllAsSent(t)
  PROVE  Shows(t, {}, {}, FALSE)
<1> SUFFICES ASSUME NEW h \in Table!Headers(t)
             PROVE  /\ t[h].collapsed = (t[h].key \in {})
                    /\ \A j \in Table!RowsOf(t, h) :
                           t[j].shown = (t[h].key \notin {}
                                            /\ (t[h].key \in {} \/ Table!RowMatches(t[j], FALSE)))
                    /\ t[h].shown = (t[h].key \in {} \/ \E j \in Table!RowsOf(t, h) : t[j].shown)
  BY DEF Shows
<1>1. /\ h \in DOMAIN t /\ Table!RowsOf(t, h) \subseteq DOMAIN t
      /\ \A j \in DOMAIN t : t[j] \in TableRow
  BY ElementOfSeq, LenProperties DEF IsTable, Table!Headers, Table!RowsOf
<1>2. \A j \in DOMAIN t : t[j].collapsed = FALSE /\ t[j].shown = TRUE
  BY <1>1 DEF AllAsSent, AsSent, TableRow
<1>3. Table!RowsOf(t, h) # {}
  BY DEF IsTable
<1>4. \A j : Table!RowMatches(t[j], FALSE) = TRUE
  BY DEF Table!RowMatches
<1>5. t[h].collapsed = FALSE /\ t[h].shown = TRUE /\ \A j \in Table!RowsOf(t, h) : t[j].shown = TRUE
  BY <1>1, <1>2
<1>6. \E j \in Table!RowsOf(t, h) : t[j].shown
  BY <1>3, <1>5
<1>7. t[h].collapsed = (t[h].key \in {})
  <2>1. (t[h].key \in {}) = FALSE
    OBVIOUS
  <2> QED
    BY <1>5, <2>1, Zenon
<1>8. ASSUME NEW j \in Table!RowsOf(t, h)
      PROVE  t[j].shown = (t[h].key \notin {}
                              /\ (t[h].key \in {} \/ Table!RowMatches(t[j], FALSE)))
  <2>1. t[j].shown = TRUE
    BY <1>5
  <2> QED
    BY <1>4, <2>1, Zenon
<1>9. t[h].shown = (t[h].key \in {} \/ \E j \in Table!RowsOf(t, h) : t[j].shown)
  BY <1>5, <1>6
<1> QED
  BY <1>7, <1>8, <1>9

\* So is the table of the first page.
LEMMA InitTableInv == Table!Init => TableInv
<1> SUFFICES ASSUME Table!Init PROVE TableInv
  OBVIOUS
<1>1. containers \in Snapshots /\ tbody = Table!GroupContainers(containers)
  BY DEF Table!Init
<1>2. IsTable(tbody) /\ AllAsSent(tbody)
  BY <1>1, ServerSendsTable
<1>3. Shows(tbody, collapsed, unfiltered, tableQuery)
  BY <1>2, SentShows DEF Table!Init
<1>4. <<>> \in Seq(TableRow)
  BY EmptySeq
<1>5. /\ polls \in [1 .. MaxPolls -> [at : {"none", "asked", "answered"}, rows : Seq(TableRow)]]
      /\ \A p \in 1 .. MaxPolls : polls[p].at # "answered"
  BY <1>4 DEF Table!Init, Table!NoPoll
<1> QED
  BY <1>1, <1>2, <1>3, <1>5 DEF Table!Init, TableInv

\* What is said of the refreshes on their way.
PollsInv ==
    /\ polls \in [1 .. MaxPolls -> [at : {"none", "asked", "answered"}, rows : Seq(TableRow)]]
    /\ \A p \in 1 .. MaxPolls : polls[p].at = "answered" => IsTable(polls[p].rows)

\* What is said of the table and the settings.
PageInv ==
    /\ tableQuery \in BOOLEAN
    /\ sorted = Table!NoSort \/ sorted \in [col : Table!Columns, asc : BOOLEAN]
    /\ thAsc \in [Table!Columns -> BOOLEAN]
    /\ IsTable(tbody)
    /\ sorted # Table!NoSort => InOrderOf(tbody, sorted.col, sorted.asc)
    /\ fresh \/ allBtn = Table!AllCollapsed(tbody)
    /\ Shows(tbody, collapsed, unfiltered, tableQuery)

\* A step of a refresh leaves the answers on their way tables.
LEMMA NextPollsInv == TableInv /\ [Table!Next]_(Table!vars) => PollsInv'
<1> SUFFICES ASSUME TableInv, [Table!Next]_(Table!vars) PROVE PollsInv'
  OBVIOUS
<1> USE DEF PollsInv
<1>p. /\ containers \in Snapshots
      /\ PollsInv
  BY DEF TableInv
<1>n. Table!NoPoll \in [at : {"none", "asked", "answered"}, rows : Seq(TableRow)]
  <2>1. <<>> \in Seq(TableRow)
    BY EmptySeq
  <2> QED
    BY <2>1 DEF Table!NoPoll
<1>0. ASSUME UNCHANGED polls PROVE PollsInv'
  BY <1>p, <1>0
<1>1. ASSUME NEW p \in 1 .. MaxPolls,
             polls' = [polls EXCEPT ![p] = Table!NoPoll]
      PROVE  PollsInv'
  BY <1>p, <1>n, <1>1 DEF Table!NoPoll
<1>2. ASSUME NEW p \in 1 .. MaxPolls, Table!Poll(p)
      PROVE  PollsInv'
  BY <1>p, <1>2 DEF Table!Poll
<1>3. ASSUME NEW p \in 1 .. MaxPolls, Table!ServerAnswers(p)
      PROVE  PollsInv'
  <2>1. PICK t : t = Table!GroupContainers(containers)
    OBVIOUS
  <2>2. IsTable(t) /\ t \in Seq(TableRow)
    BY <1>p, <2>1, ServerSendsTable DEF IsTable
  <2>3. polls' = [polls EXCEPT ![p] = [at |-> "answered", rows |-> t]]
    BY <1>3, <2>1 DEF Table!ServerAnswers
  <2>4. [at |-> "answered", rows |-> t] \in [at : {"none", "asked", "answered"}, rows : Seq(TableRow)]
    BY <2>2
  <2>5. \A r \in 1 .. MaxPolls : polls'[r] = IF r = p THEN [at |-> "answered", rows |-> t] ELSE polls[r]
    BY <1>p, <2>3
  <2> QED
    BY <1>p, <2>2, <2>3, <2>4, <2>5
<1>4. CASE Table!Load
  BY <1>n, <1>4 DEF Table!Load, Table!NoPoll
<1> QED
  BY <1>0, <1>1, <1>2, <1>3, <1>4
     DEF Table!Next, Table!vars, Table!ContainersChange, Table!PollFails, Table!Update,
         Table!FilterInput, Table!SortClick, Table!GroupClick, Table!CollapseAllClick

\* The table after ApplyUI, with the settings that it was made with.
LEMMA UpdatedPage ==
  ASSUME PageInv, NEW t, IsTable(t), tbody' = Table!ApplyUI(t), unfiltered' = {},
         UNCHANGED <<tableQuery, sorted, collapsed>>,
         thAsc' \in [Table!Columns -> BOOLEAN],
         fresh' \/ allBtn' = Table!AllCollapsed(tbody')
  PROVE  PageInv'
<1>1. FollowsSettings(tbody')
  BY ApplyUIIs DEF PageInv
<1> QED
  BY <1>1 DEF PageInv, FollowsSettings

\* The columns are marked with directions.
LEMMA ThAscIs ==
  ASSUME PageInv, NEW asc \in [Table!Columns -> BOOLEAN]
  PROVE  Table!ThAscAfter(asc) \in [Table!Columns -> BOOLEAN]
<1>1. CASE sorted = Table!NoSort
  BY <1>1 DEF Table!ThAscAfter
<1>2. CASE sorted # Table!NoSort
  <2>1. sorted.asc \in BOOLEAN
    BY <1>2 DEF PageInv
  <2> QED
    BY <1>2, <2>1 DEF Table!ThAscAfter
<1> QED
  BY <1>1, <1>2

\* A step of the page keeps what is said of it.
LEMMA NextPageInv == TableInv /\ [Table!Next]_(Table!vars) => PageInv'
<1> SUFFICES ASSUME TableInv, [Table!Next]_(Table!vars) PROVE PageInv'
  OBVIOUS
<1>p. PageInv /\ IsTable(tbody) /\ tableQuery \in BOOLEAN
  BY DEF TableInv, PageInv
<1>0. ASSUME UNCHANGED <<tableQuery, sorted, collapsed, tbody, thAsc, allBtn, unfiltered, fresh>>
      PROVE  PageInv'
  BY <1>p, <1>0 DEF PageInv
<1>1. ASSUME NEW p \in 1 .. MaxPolls, Table!Update(p)
      PROVE  PageInv'
  <2>1. IsTable(polls[p].rows)
    BY <1>1 DEF Table!Update, TableInv
  <2>2. Table!ThAscAfter(thAsc) \in [Table!Columns -> BOOLEAN]
    BY <1>p, ThAscIs DEF PageInv
  <2>3. /\ tbody' = Table!ApplyUI(polls[p].rows) /\ unfiltered' = {}
        /\ UNCHANGED <<tableQuery, sorted, collapsed>>
        /\ thAsc' = Table!ThAscAfter(thAsc)
        /\ allBtn' = Table!AllCollapsed(tbody')
    BY <1>1 DEF Table!Update, Table!settings, Table!SyncCollapseAll
  <2> QED
    BY <1>p, <2>1, <2>2, <2>3, UpdatedPage
<1>2. ASSUME Table!Load PROVE PageInv'
  <2>1. IsTable(Table!GroupContainers(containers))
    BY ServerSendsTable DEF TableInv
  <2>2. [col \in Table!Columns |-> FALSE] \in [Table!Columns -> BOOLEAN]
    OBVIOUS
  <2>3. Table!ThAscAfter([col \in Table!Columns |-> FALSE]) \in [Table!Columns -> BOOLEAN]
    BY <1>p, <2>2, ThAscIs
  <2>4. /\ tbody' = Table!ApplyUI(Table!GroupContainers(containers)) /\ unfiltered' = {}
        /\ UNCHANGED <<tableQuery, sorted, collapsed>>
        /\ thAsc' = Table!ThAscAfter([col \in Table!Columns |-> FALSE])
        /\ fresh' = TRUE
    BY <1>2 DEF Table!Load, Table!settings
  <2> QED
    BY <1>p, <2>1, <2>3, <2>4, UpdatedPage
<1>3. ASSUME Table!FilterInput PROVE PageInv'
  <2>1. PICK q : q = tableQuery'
    OBVIOUS
  <2>2. q \in BOOLEAN /\ tbody' = Table!ApplyFilter(tbody, q) /\ unfiltered' = {}
        /\ UNCHANGED <<sorted, collapsed, thAsc, allBtn, fresh>>
    BY <1>3, <2>1 DEF Table!FilterInput
  <2>3. CollapsedAs(tbody, collapsed)
    BY <1>p DEF PageInv, Shows, CollapsedAs
  <2>4. SameCells(tbody, tbody') /\ Shows(tbody', collapsed, {}, q)
    BY <1>p, <2>2, <2>3, FilterIs
  <2>5. /\ IsTable(tbody') /\ Table!Headers(tbody') = Table!Headers(tbody)
        /\ \A col, asc : InOrderOf(tbody, col, asc) => InOrderOf(tbody', col, asc)
    BY <1>p, <2>4, SameCellsKeep
  <2>6. Table!AllCollapsed(tbody') = Table!AllCollapsed(tbody)
    <3>1. ASSUME NEW h \in Table!Headers(tbody)
          PROVE  tbody'[h].collapsed = tbody[h].collapsed
      <4>1. tbody'[h].key = tbody[h].key
        BY <2>4 DEF SameCells, Table!Headers
      <4>2. tbody'[h].collapsed = (tbody'[h].key \in collapsed)
        BY <2>4, <2>5 DEF Shows
      <4>3. tbody[h].collapsed = (tbody[h].key \in collapsed)
        BY <2>3 DEF CollapsedAs
      <4> QED
        BY <4>1, <4>2, <4>3
    <3> QED
      BY <2>5, <3>1 DEF Table!AllCollapsed
  <2> QED
    BY <1>p, <2>1, <2>2, <2>4, <2>5, <2>6 DEF PageInv
<1>4. ASSUME NEW col \in Table!Columns, Table!SortClick(col)
      PROVE  PageInv'
  <2>1. PICK asc : asc = ~thAsc[col]
    OBVIOUS
  <2>2. /\ asc \in BOOLEAN
        /\ tbody' = Table!ApplySort(tbody, col, asc)
        /\ thAsc' = [thAsc EXCEPT ![col] = asc]
        /\ sorted' = [col |-> col, asc |-> asc]
        /\ UNCHANGED <<tableQuery, collapsed, allBtn, unfiltered, fresh>>
    BY <1>p, <1>4, <2>1 DEF Table!SortClick, PageInv
  <2>3. IsTable(tbody') /\ SameGroups(tbody, tbody') /\ InOrderOf(tbody', col, asc)
    BY <1>p, <2>2, SortKeepsGroups
  <2>4. /\ Shows(tbody', collapsed, unfiltered, tableQuery)
        /\ Table!AllCollapsed(tbody') = Table!AllCollapsed(tbody)
    BY <1>p, <2>3, SortedShows DEF PageInv
  <2>5. thAsc' \in [Table!Columns -> BOOLEAN] /\ sorted' \in [col : Table!Columns, asc : BOOLEAN]
    BY <1>p, <2>2 DEF PageInv
  <2>6. sorted'.col = col /\ sorted'.asc = asc
    BY <2>2
  <2> QED
    BY <1>p, <2>2, <2>3, <2>4, <2>5, <2>6 DEF PageInv
<1>5. ASSUME NEW i \in DOMAIN tbody, Table!GroupClick(i)
      PROVE  PageInv'
  <2>1. PICK hide : hide = ~tbody[i].collapsed
    OBVIOUS
  <2>2. /\ hide \in BOOLEAN /\ i \in Table!Headers(tbody) /\ tbody[i].shown
        /\ tbody' = Clicked(tbody, i, hide)
        /\ collapsed' = IF hide THEN collapsed \cup {tbody[i].key} ELSE collapsed \ {tbody[i].key}
        /\ unfiltered' = IF hide THEN unfiltered \ {tbody[i].key} ELSE unfiltered \cup {tbody[i].key}
        /\ allBtn' = Table!AllCollapsed(tbody')
        /\ UNCHANGED <<tableQuery, sorted, thAsc>>
    <3>1. hide \in BOOLEAN
      BY <2>1
    <3>2. i \in Table!Headers(tbody) /\ tbody[i].shown
      BY <1>5 DEF Table!GroupClick, Table!Headers
    <3>3. tbody' = Clicked(tbody, i, hide)
      BY <1>5, <2>1 DEF Table!GroupClick, Clicked
    <3> QED
      BY <1>5, <2>1, <3>1, <3>2, <3>3
         DEF Table!GroupClick, Table!Remembered, Table!SyncCollapseAll
  <2>3. Shows(tbody, collapsed, unfiltered, tableQuery)
    BY <1>p DEF PageInv
  <2>4. SameCells(tbody, tbody') /\ Shows(tbody', collapsed', unfiltered', tableQuery)
    BY <1>p, <2>2, <2>3, ClickedShows
  <2>5. /\ IsTable(tbody')
        /\ \A col, asc : InOrderOf(tbody, col, asc) => InOrderOf(tbody', col, asc)
    BY <1>p, <2>4, SameCellsKeep
  <2> QED
    BY <1>p, <2>2, <2>4, <2>5 DEF PageInv
<1>6. ASSUME Table!CollapseAllClick PROVE PageInv'
  <2>1. PICK u : u = Table!ApplyCollapsed(tbody, collapsed')
    OBVIOUS
  <2>2. /\ tbody' = Table!ApplyFilter(u, tableQuery) /\ unfiltered' = {}
        /\ allBtn' = Table!AllCollapsed(tbody')
        /\ UNCHANGED <<tableQuery, sorted, thAsc>>
    BY <1>6, <2>1 DEF Table!CollapseAllClick, Table!SyncCollapseAll
  <2>3. SameCells(tbody, u) /\ CollapsedAs(u, collapsed')
    BY <1>p, <2>1, CollapsedIs
  <2>4. /\ IsTable(u)
        /\ \A col, asc : InOrderOf(tbody, col, asc) => InOrderOf(u, col, asc)
    BY <1>p, <2>3, SameCellsKeep
  <2>5. SameCells(u, tbody') /\ Shows(tbody', collapsed', {}, tableQuery)
    BY <1>p, <2>2, <2>3, <2>4, FilterIs
  <2>6. /\ IsTable(tbody')
        /\ \A col, asc : InOrderOf(u, col, asc) => InOrderOf(tbody', col, asc)
    BY <2>4, <2>5, SameCellsKeep
  <2> QED
    BY <1>p, <2>2, <2>4, <2>5, <2>6 DEF PageInv
<1> QED
  BY <1>0, <1>1, <1>2, <1>3, <1>4, <1>5, <1>6
     DEF Table!Next, Table!vars, Table!settings, Table!ContainersChange, Table!Poll,
         Table!ServerAnswers, Table!PollFails

\* So the whole invariant is inductive.
LEMMA NextTableInv == TableInv /\ [Table!Next]_(Table!vars) => TableInv'
<1> SUFFICES ASSUME TableInv, [Table!Next]_(Table!vars) PROVE TableInv'
  OBVIOUS
<1>1. (containers \in Snapshots)'
  BY DEF TableInv, Table!Next, Table!vars, Table!ContainersChange, Table!Poll,
         Table!ServerAnswers, Table!PollFails, Table!Update, Table!FilterInput,
         Table!SortClick, Table!GroupClick, Table!CollapseAllClick, Table!Load
<1> QED
  BY <1>1, NextPollsInv, NextPageInv DEF TableInv, PollsInv, PageInv

\* The inductive invariant says what the two properties say.
LEMMA TableInvSays == TableInv => Table!GroupsKeepTheirRows /\ Table!DisplayFollowsSettings
<1> SUFFICES ASSUME TableInv PROVE Table!GroupsKeepTheirRows /\ Table!DisplayFollowsSettings
  OBVIOUS
<1>1. ASSUME NEW i \in Table!Headers(tbody), NEW j \in Table!RowsOf(tbody, i),
             NEW k \in Table!RowsOf(tbody, i), j < k, sorted # Table!NoSort
      PROVE  IF sorted.asc
             THEN Table!Cell(tbody[j], sorted.col) <= Table!Cell(tbody[k], sorted.col)
             ELSE Table!Cell(tbody[k], sorted.col) <= Table!Cell(tbody[j], sorted.col)
  BY <1>1 DEF TableInv, InOrderOf, InDirection
<1>2. Table!GroupsKeepTheirRows
  BY <1>1 DEF TableInv, IsTable, Table!GroupsKeepTheirRows
<1>3. Table!DisplayFollowsSettings
  BY DEF TableInv, Shows, Table!DisplayFollowsSettings
<1> QED
  BY <1>2, <1>3

\* Each row stays below the header of its own project, in the order the user has
\* chosen last, whatever is clicked and refreshed (Tables, dashboard.js:35).
THEOREM GroupsKept == Table!Spec => [](Table!GroupsKeepTheirRows)
<1>1. TableInv => Table!GroupsKeepTheirRows
  BY TableInvSays
<1> QED
  BY InitTableInv, NextTableInv, <1>1, PTL DEF Table!Spec

\* What is displayed is what the settings say (Tables, dashboard.js:632).
THEOREM DisplayFollows == Table!Spec => [](Table!DisplayFollowsSettings)
<1>1. TableInv => Table!DisplayFollowsSettings
  BY TableInvSays
<1> QED
  BY InitTableInv, NextTableInv, <1>1, PTL DEF Table!Spec

\* The table keeps its invariant beside the other parts.
LEMMA TableInParts == PartsSpec => [](part = "table" => TableInv)
<1> DEFINE Inv == part = "table" => TableInv
<1>1. PartsInit => Inv
  BY InitTableInv DEF PartsInit
<1>2. Inv /\ [PartsNext]_partsVars => Inv'
  <2> SUFFICES ASSUME part = "table" => TableInv, [PartsNext]_partsVars, part' = "table"
               PROVE  TableInv'
    OBVIOUS
  <2>1. TableInv /\ [Table!Next]_(Table!vars)
    BY DEF PartsNext, partsVars, tableVars, Table!vars, Table!settings
  <2> QED
    BY <2>1, NextTableInv
<1> QED
  BY <1>1, <1>2, PTL DEF PartsSpec

\* So each row stays in its group there (Tables, dashboard.js:35).
THEOREM GroupsKeptInParts == PartsSpec => []GroupsKeepTheirRows
<1>1. (part = "table" => TableInv) => GroupsKeepTheirRows
  BY TableInvSays DEF GroupsKeepTheirRows
<1> QED
  BY TableInParts, <1>1, PTL

\* And what is displayed is what the settings say there (Tables, dashboard.js:632).
THEOREM DisplayFollowsInParts == PartsSpec => []DisplayFollowsSettings
<1>1. (part = "table" => TableInv) => DisplayFollowsSettings
  BY TableInvSays DEF DisplayFollowsSettings
<1> QED
  BY TableInParts, <1>1, PTL

=============================================================================
