----------------------------- MODULE LokiClient -----------------------------
(***************************************************************************)
(* The Loki client of internal/logs/loki.go: a bounded channel between the *)
(* streamer goroutines that call Send and one background goroutine,        *)
(* batchLoop, that groups lines into batches and pushes them, and Stop,    *)
(* which ends that goroutine.                                              *)
(*                                                                         *)
(* A line is its label key and its number among the lines sent with that   *)
(* key; its timestamp and text are opaque to this code.  A push is two     *)
(* steps, the request leaving and its outcome, because Send and Stop run   *)
(* while it is under way (for up to ten seconds).                          *)
(***************************************************************************)
EXTENDS Integers, Sequences, FiniteSetsExt, SequencesExt

CONSTANTS
    Keys,         \* label keys (one per container and output stream)
    BufferSize,   \* LOKI_BUFFER_LINES: capacity of the entries channel
    BatchSize,    \* LOKI_PUSH_LINES: size at which a batch is pushed
    MaxSends      \* bound: lines sent per key

\* NewClient accepts an environment value only when it is positive.
ASSUME SizesAssumption ==
    /\ BufferSize \in Nat \ {0}
    /\ BatchSize \in Nat \ {0}
    /\ MaxSends \in Nat

\* Containers come and go, but there are finitely many.
ASSUME KeysAssumption == IsFiniteSet(Keys)

VARIABLES
    sent,        \* lines handed to Send so far, per key
    entries,     \* the channel between Send and batchLoop
    done,        \* the done channel is closed
    dropped,     \* lines discarded because the channel was full
    streams,     \* batch in preparation: the lines of each key
    order,       \* keys of the batch, in order of appearance
    size,        \* lines in the batch
    tick,        \* a tick of the batch window waits in ticker.C
    loop,        \* where batchLoop is
    stopped,     \* Stop has returned
    received,    \* lines Loki has stored, per key, in order of arrival
    failed,      \* lines of the pushes that Loki did not store
    atStop       \* lines sent before Stop was called, per key

clientVars == <<sent, entries, done, dropped>>
batchVars  == <<streams, order, size>>
lokiVars   == <<received, failed>>
vars == <<clientVars, batchVars, tick, loop, stopped, lokiVars, atStop>>

Line == [key : Keys, num : Nat]

LoopState == {"select",       \* waiting in the select statement
              "push",         \* in push; the loop goes on afterwards
              "lastPush",     \* in push on behalf of the done case
              "exited"}       \* returned: wg.Done was called

EmptyBatch == [k \in Keys |-> <<>>]

Init ==
    /\ sent = [k \in Keys |-> 0]
    /\ entries = <<>>
    /\ done = FALSE
    /\ dropped = 0
    /\ streams = EmptyBatch
    /\ order = <<>>
    /\ size = 0
    /\ tick = FALSE
    /\ loop = "select"
    /\ stopped = FALSE
    /\ received = [k \in Keys |-> <<>>]
    /\ failed = 0
    /\ atStop = sent

-----------------------------------------------------------------------------
(* Send: one select statement, three ways out.  The default case is taken  *)
(* only when neither channel is ready; between two ready ones the choice   *)
(* is random, so that a line may still enter the channel after done.       *)

CountSend(k) ==
    /\ sent[k] < MaxSends
    /\ sent' = [sent EXCEPT ![k] = @ + 1]

Enqueue(k) ==
    /\ CountSend(k)
    /\ Len(entries) < BufferSize
    /\ entries' = Append(entries, [key |-> k, num |-> sent[k] + 1])
    /\ UNCHANGED <<done, dropped>>

GiveUp(k) ==
    /\ CountSend(k)
    /\ done
    /\ UNCHANGED <<entries, done, dropped>>

Drop(k) ==
    /\ CountSend(k)
    /\ ~done
    /\ Len(entries) >= BufferSize
    /\ dropped' = dropped + 1
    /\ UNCHANGED <<entries, done>>

Send(k) ==
    /\ Enqueue(k) \/ GiveUp(k) \/ Drop(k)
    /\ UNCHANGED <<batchVars, tick, loop, stopped, lokiVars, atStop>>

-----------------------------------------------------------------------------
(* batchLoop                                                               *)

\* The ticker's channel holds one tick and drops the next ones.
TickFires ==
    /\ loop # "exited"
    /\ ~tick
    /\ tick' = TRUE
    /\ UNCHANGED <<clientVars, batchVars, loop, stopped, lokiVars, atStop>>

\* Mutant: a key enters order only with the first line of the batch.
OrderListsFirstKeyOnly(e) ==
    /\ streams' = [streams EXCEPT ![e.key] = Append(@, e.num)]
    /\ order' = IF size = 0 THEN Append(order, e.key) ELSE order
    /\ size' = size + 1

\* Mutant: a line goes in front of the earlier lines of its stream.
PrependToBatch(e) ==
    /\ streams' = [streams EXCEPT ![e.key] = <<e.num>> \o @]
    /\ order' = IF streams[e.key] = <<>> THEN Append(order, e.key) ELSE order
    /\ size' = size + 1

AppendToBatch(e) ==
    /\ streams' = [streams EXCEPT ![e.key] = Append(@, e.num)]
    /\ order' = IF streams[e.key] = <<>> THEN Append(order, e.key) ELSE order
    /\ size' = size + 1

\* Mutant: the batch is pushed one line too late.
MoreThanBatch(lines) == lines > BatchSize

BatchIsFull(lines) == lines >= BatchSize

\* case e := <-l.entries
TakeEntry ==
    /\ loop = "select"
    /\ entries # <<>>
    /\ AppendToBatch(Head(entries))
    /\ entries' = Tail(entries)
    /\ loop' = IF BatchIsFull(size') THEN "push" ELSE "select"
    /\ UNCHANGED <<sent, done, dropped, tick, stopped, lokiVars, atStop>>

\* Mutant: the tick flushes full batches only.
TickIgnoresPartialBatch ==
    /\ loop = "select"
    /\ tick
    /\ tick' = FALSE
    /\ UNCHANGED <<clientVars, batchVars, loop, stopped, lokiVars, atStop>>

\* case <-ticker.C: flush is a no-op on an empty batch.
TakeTick ==
    /\ loop = "select"
    /\ tick
    /\ tick' = FALSE
    /\ loop' = IF size = 0 THEN "select" ELSE "push"
    /\ UNCHANGED <<clientVars, batchVars, stopped, lokiVars, atStop>>

\* Mutant: return without the flush.
DoneSkipsFlush ==
    /\ loop = "select"
    /\ done
    /\ loop' = "exited"
    /\ UNCHANGED <<clientVars, batchVars, tick, stopped, lokiVars, atStop>>

\* Mutant: flush without the return.
DoneForgetsReturn ==
    /\ loop = "select"
    /\ done
    /\ loop' = IF size = 0 THEN "select" ELSE "push"
    /\ UNCHANGED <<clientVars, batchVars, tick, stopped, lokiVars, atStop>>

\* case <-l.done: flush and return, whatever the entries channel still holds.
TakeDone ==
    /\ loop = "select"
    /\ done
    /\ loop' = IF size = 0 THEN "exited" ELSE "lastPush"
    /\ UNCHANGED <<clientVars, batchVars, tick, stopped, lokiVars, atStop>>

\* The payload of a push: the lines of the keys in order.
Payload(k) == IF k \in Range(order) THEN streams[k] ELSE <<>>

ForgetBatch == streams' = EmptyBatch /\ order' = <<>> /\ size' = 0

\* push comes back.  Loki has stored the batch or it has not; when the answer
\* is lost or late it may have stored it although push reports an error.  The
\* batch is forgotten in either case: flush does not look at the error.
PushReturns(stored) ==
    /\ loop \in {"push", "lastPush"}
    /\ received' = IF stored THEN [k \in Keys |-> received[k] \o Payload(k)] ELSE received
    /\ failed' = IF stored THEN failed ELSE failed + size
    /\ ForgetBatch
    /\ loop' = IF loop = "push" THEN "select" ELSE "exited"
    /\ UNCHANGED <<clientVars, tick, stopped, atStop>>

-----------------------------------------------------------------------------
(* Stop: close(l.done), then l.wg.Wait().                                  *)

StopCloses ==
    /\ ~done
    /\ done' = TRUE
    /\ atStop' = sent
    /\ UNCHANGED <<sent, entries, dropped, batchVars, tick, loop, stopped, lokiVars>>

StopReturns ==
    /\ done
    /\ ~stopped
    /\ loop = "exited"
    /\ stopped' = TRUE
    /\ UNCHANGED <<clientVars, batchVars, tick, loop, lokiVars, atStop>>

Next ==
    \/ \E k \in Keys : Send(k)
    \/ TickFires
    \/ TakeEntry
    \/ TakeTick
    \/ TakeDone
    \/ \E stored \in BOOLEAN : PushReturns(stored)
    \/ StopCloses
    \/ StopReturns

(***************************************************************************)
(* Fairness.  The runtime schedules batchLoop, the ticker fires, and push  *)
(* comes back because its context expires after ten seconds.  A select     *)
(* picks at random among its ready cases, so that a case that is ready     *)
(* again and again is taken in the end: strong fairness of each case.      *)
(* Nothing makes a streamer send or main call Stop.                        *)
(***************************************************************************)
Fairness ==
    /\ WF_vars(TickFires)
    /\ SF_vars(TakeEntry)
    /\ SF_vars(TakeTick)
    /\ SF_vars(TakeDone)
    /\ WF_vars(\E stored \in BOOLEAN : PushReturns(stored))
    /\ WF_vars(StopReturns)

Spec == Init /\ [][Next]_vars

FairSpec == Spec /\ Fairness

-----------------------------------------------------------------------------
(* Properties                                                              *)

\* Type correctness.  The batch never exceeds LOKI_PUSH_LINES and the channel
\* never exceeds LOKI_BUFFER_LINES.
TypeOK ==
    /\ sent \in [Keys -> Nat]
    /\ entries \in Seq(Line)
    /\ Len(entries) <= BufferSize
    /\ done \in BOOLEAN
    /\ dropped \in Nat
    /\ streams \in [Keys -> Seq(Nat)]
    /\ order \in Seq(Keys)
    /\ size \in 0 .. BatchSize
    /\ tick \in BOOLEAN
    /\ loop \in LoopState
    /\ stopped \in BOOLEAN
    /\ received \in [Keys -> Seq(Nat)]
    /\ failed \in Nat
    /\ atStop \in [Keys -> Nat]

Increasing(s) == \A i, j \in DOMAIN s : i < j => s[i] < s[j]

\* Loki stores the lines of a stream in the order they were sent and none of
\* them twice, although batches fail, a push runs while lines arrive, and the
\* lines of several streams share the channel and the batch.
StoredInOrderOnce == \A k \in Keys : Increasing(received[k])

\* The lines of a stream in the channel, by their position there.
PositionsOf(k) == {i \in DOMAIN entries : entries[i].key = k}

KeyInOrder(k) ==
    /\ Increasing(received[k])
    /\ Increasing(streams[k])
    /\ \A i, j \in PositionsOf(k) : i < j => entries[i].num < entries[j].num
    /\ \A i \in DOMAIN received[k], j \in DOMAIN streams[k] : received[k][i] < streams[k][j]
    /\ \A i \in DOMAIN received[k], j \in PositionsOf(k) : received[k][i] < entries[j].num
    /\ \A i \in DOMAIN streams[k], j \in PositionsOf(k) : streams[k][i] < entries[j].num
    /\ \A i \in DOMAIN received[k] : received[k][i] <= sent[k]
    /\ \A i \in DOMAIN streams[k] : streams[k][i] <= sent[k]
    /\ \A i \in PositionsOf(k) : entries[i].num <= sent[k]

\* Every line has one place at a time.  Along the path from Loki through the
\* batch to the channel, the numbers of a stream only increase and none is
\* beyond what was sent: nothing is duplicated, reordered or made up on the
\* way.  This is the inductive form of StoredInOrderOnce.
PathInOrder == \A k \in Keys : KeyInOrder(k)

Sum(count(_)) == MapThenSumSet(count, Keys)

\* Until Stop, every line handed to Send is in the channel, in the batch, in
\* Loki, in a push that was logged as failed, or counted as dropped: no line
\* disappears without a trace.  This holds through pushes because order lists
\* exactly the streams of the batch.
EveryLineAccountedFor ==
    ~done => Sum(LAMBDA k : sent[k]) =
                 Len(entries) + Sum(LAMBDA k : Len(streams[k]))
                 + Sum(LAMBDA k : Len(received[k])) + failed + dropped

\* batchLoop leaves nothing behind in the batch, and Stop returns only after
\* it has exited: the batch of a client that has stopped was pushed.
BatchPushedBeforeExit ==
    /\ stopped => loop = "exited"
    /\ loop = "exited" => done /\ size = 0 /\ \A k \in Keys : streams[k] = <<>>

\* A line taken in does not wait for ever: it leaves the client in a push,
\* unless Stop is called.  The ticker sees to it for the last, partial batch.
HoldsLine(k, n) ==
    \/ n \in Range(streams[k])
    \/ \E i \in DOMAIN entries : entries[i] = [key |-> k, num |-> n]

LinesLeave ==
    \A k \in Keys, n \in 1 .. MaxSends : HoldsLine(k, n) ~> (~HoldsLine(k, n) \/ done)

\* Stop returns, whatever Loki answers and however many lines arrive.
StopEnds == done ~> stopped

\* "Send the remaining records and stop background thread" (loki.go:87): when
\* Stop has returned, no line sent before it was called is still waiting.
StopSendsRemaining ==
    stopped => \A i \in DOMAIN entries : entries[i].num > atStop[entries[i].key]

-----------------------------------------------------------------------------
(* The client implements LogDelivery: what it holds of a stream is the part *)
(* in the batch followed by the part in the channel.                        *)

\* The numbers of the lines of stream k in a sequence of lines, in its order.
NumbersOf(k, lines) ==
    LET numbers[i \in 0 .. Len(lines)] ==
            IF i = 0 THEN <<>>
            ELSE IF lines[i].key = k THEN Append(numbers[i - 1], lines[i].num)
            ELSE numbers[i - 1]
    IN  numbers[Len(lines)]

Held == [k \in Keys |-> streams[k] \o NumbersOf(k, entries)]

Delivery == INSTANCE LogDelivery WITH
    Capacity <- BufferSize,
    held     <- Held,
    closing  <- done

ImplementsDelivery == Delivery!Spec

=============================================================================
