-------------------------- MODULE LokiClientProofs --------------------------
(***************************************************************************)
(* Type correctness of the Loki client, the order in which it delivers,    *)
(* and what its goroutine leaves behind, for every set of keys, every      *)
(* buffer and every batch size.                                            *)
(***************************************************************************)
EXTENDS LokiClient, Sums, SequenceTheorems, FiniteSetTheorems, TLAPS

(* While batchLoop waits, its batch has room for a line; an empty counter   *)
(* means an empty batch.  The first conjunct bounds the batch, the second   *)
(* is what lets flush be skipped when size is zero.                         *)
BatchInv ==
    /\ loop = "select" => size < BatchSize
    /\ size = 0 => streams = EmptyBatch
    /\ loop \in {"lastPush", "exited"} => done
    /\ loop = "exited" => size = 0
    /\ stopped => loop = "exited"

\* The inductive invariant of the typing theorem.
TypeInv == TypeOK /\ BatchInv

-----------------------------------------------------------------------------

\* It holds at first.
LEMMA InitTypeInv == Init => TypeInv
<1> SUFFICES ASSUME Init PROVE TypeInv
  OBVIOUS
<1>1. EmptyBatch \in [Keys -> Seq(Nat)]
  BY EmptySeq DEF EmptyBatch
<1>2. entries \in Seq(Line) /\ Len(entries) = 0 /\ order \in Seq(Keys)
  BY EmptySeq DEF Init
<1>3. received = EmptyBatch /\ streams = EmptyBatch
  BY DEF Init, EmptyBatch
<1>4. sent \in [Keys -> Nat] /\ atStop \in [Keys -> Nat]
  BY DEF Init
<1>5. TypeOK
  <2>1. /\ Len(entries) <= BufferSize
        /\ size \in 0 .. BatchSize
        /\ dropped \in Nat /\ failed \in Nat
    BY <1>2, SizesAssumption DEF Init
  <2>2. /\ done \in BOOLEAN /\ tick \in BOOLEAN /\ stopped \in BOOLEAN
        /\ loop \in LoopState
    BY DEF Init, LoopState
  <2> QED
    BY <1>1, <1>2, <1>3, <1>4, <2>1, <2>2 DEF TypeOK
<1>6. BatchInv
  BY SizesAssumption DEF Init, BatchInv
<1> QED
  BY <1>5, <1>6 DEF TypeInv

\* Send keeps TypeInv: only Enqueue touches the channel, and it checks for room.
LEMMA SendTypeInv ==
  ASSUME TypeInv, NEW k \in Keys, Send(k)
  PROVE  TypeInv'
<1> USE SizesAssumption DEF TypeInv, TypeOK, BatchInv, Send, CountSend,
        batchVars, lokiVars, EmptyBatch
<1>1. CASE Enqueue(k)
  <2>1. [key |-> k, num |-> sent[k] + 1] \in Line
    BY DEF Line
  <2>2. /\ entries' \in Seq(Line)
        /\ Len(entries') = Len(entries) + 1
    BY <1>1, <2>1, AppendProperties DEF Enqueue
  <2> QED
    BY <1>1, <2>2 DEF Enqueue
<1>2. CASE GiveUp(k)
  BY <1>2 DEF GiveUp
<1>3. CASE Drop(k)
  BY <1>3 DEF Drop
<1> QED
  BY <1>1, <1>2, <1>3

\* Taking an entry keeps TypeInv: the batch was not full, and is pushed when
\* it becomes full.
LEMMA TakeEntryTypeInv ==
  ASSUME TypeInv, TakeEntry
  PROVE  TypeInv'
<1> USE SizesAssumption DEF TypeInv, TypeOK
<1> DEFINE e == Head(entries)
<1>a. entries \in Seq(Line) /\ entries # <<>>
  BY DEF TakeEntry
<1>b. e \in Line
  BY <1>a, HeadTailProperties
<1>1. e.key \in Keys /\ e.num \in Nat
  BY <1>b DEF Line
<1>2. /\ Tail(entries) \in Seq(Line)
      /\ Len(Tail(entries)) <= BufferSize
  BY <1>a, HeadTailProperties
<1>3. /\ streams[e.key] \in Seq(Nat)
      /\ Append(streams[e.key], e.num) \in Seq(Nat)
  BY <1>1, AppendProperties
<1>4. streams' \in [Keys -> Seq(Nat)] /\ order' \in Seq(Keys)
  BY <1>1, <1>3, AppendProperties DEF TakeEntry, AppendToBatch
<1>5. size' = size + 1 /\ size < BatchSize
  BY DEF TakeEntry, AppendToBatch, BatchInv
<1>6. TypeOK'
  BY <1>2, <1>4, <1>5 DEF TakeEntry, BatchIsFull, lokiVars, LoopState
<1>7. BatchInv'
  BY <1>5 DEF BatchInv, TakeEntry, BatchIsFull, LoopState
<1> QED
  BY <1>6, <1>7

\* A push forgets the batch and keeps TypeInv.
LEMMA PushReturnsTypeInv ==
  ASSUME TypeInv, NEW stored \in BOOLEAN, PushReturns(stored)
  PROVE  TypeInv'
<1> USE SizesAssumption DEF TypeInv, TypeOK
<1>1. ASSUME NEW k \in Keys
      PROVE  received[k] \o Payload(k) \in Seq(Nat)
  BY ConcatProperties, EmptySeq DEF Payload
<1>2. received' \in [Keys -> Seq(Nat)]
  BY <1>1 DEF PushReturns
<1>3. streams' \in [Keys -> Seq(Nat)] /\ order' \in Seq(Keys)
  BY EmptySeq DEF PushReturns, ForgetBatch, EmptyBatch
<1>4. TypeOK'
  BY <1>2, <1>3 DEF PushReturns, ForgetBatch, clientVars, LoopState
<1>5. BatchInv'
  BY DEF BatchInv, PushReturns, ForgetBatch, clientVars
<1> QED
  BY <1>4, <1>5

\* Each step keeps it.
LEMMA NextTypeInv == TypeInv /\ [Next]_vars => TypeInv'
<1> SUFFICES ASSUME TypeInv, [Next]_vars
             PROVE  TypeInv'
  OBVIOUS
<1>1. CASE \E k \in Keys : Send(k)
  BY <1>1, SendTypeInv
<1>2. CASE TickFires
  BY <1>2 DEF TickFires, TypeInv, TypeOK, BatchInv, clientVars, batchVars, lokiVars
<1>3. CASE TakeEntry
  BY <1>3, TakeEntryTypeInv
<1>4. CASE TakeTick
  BY <1>4 DEF TakeTick, TypeInv, TypeOK, BatchInv, clientVars, batchVars, lokiVars, LoopState
<1>5. CASE TakeDone
  BY <1>5 DEF TakeDone, TypeInv, TypeOK, BatchInv, clientVars, batchVars, lokiVars, LoopState
<1>6. CASE \E stored \in BOOLEAN : PushReturns(stored)
  BY <1>6, PushReturnsTypeInv
<1>7. CASE StopCloses
  BY <1>7 DEF StopCloses, TypeInv, TypeOK, BatchInv, batchVars, lokiVars
<1>8. CASE StopReturns
  BY <1>8 DEF StopReturns, TypeInv, TypeOK, BatchInv, clientVars, batchVars, lokiVars
<1>9. CASE UNCHANGED vars
  BY <1>9 DEF vars, TypeInv, TypeOK, BatchInv, clientVars, batchVars, lokiVars
<1> QED
  BY <1>1, <1>2, <1>3, <1>4, <1>5, <1>6, <1>7, <1>8, <1>9 DEF Next

\* TypeInv is an invariant of the client.
LEMMA TypeInvInvariant == Spec => []TypeInv
  BY InitTypeInv, NextTypeInv, PTL DEF Spec

\* The channel never exceeds LOKI_BUFFER_LINES and a batch never exceeds
\* LOKI_PUSH_LINES, however Send, the ticker, pushes and Stop interleave.
THEOREM TypeCorrect == Spec => []TypeOK
<1>1. TypeInv => TypeOK
  BY DEF TypeInv
<1> QED
  BY <1>1, TypeInvInvariant, PTL

\* When batchLoop has exited, and so when Stop has returned, nothing is left
\* in the batch: every line batchLoop took from the channel was in a push.
THEOREM NoBatchLeftBehind == Spec => []BatchPushedBeforeExit
<1>1. TypeInv => BatchPushedBeforeExit
  BY DEF TypeInv, BatchInv, BatchPushedBeforeExit, EmptyBatch
<1> QED
  BY <1>1, TypeInvInvariant, PTL

-----------------------------------------------------------------------------
(* The order of the lines.  PathInOrder needs the typing invariant only to  *)
(* know that the channel, the batch and Loki hold sequences of numbers.     *)

\* What is known of the elements of a sequence.
LEMMA SeqElements ==
  ASSUME NEW S, NEW s \in Seq(S)
  PROVE  /\ Len(s) \in Nat
         /\ DOMAIN s = 1 .. Len(s)
         /\ \A i \in DOMAIN s : s[i] \in S
  BY ElementOfSeq, LenProperties

\* The channel holds lines, whose keys and numbers have the right types.
LEMMA EntriesTyped ==
  ASSUME TypeOK
  PROVE  /\ Len(entries) \in Nat
         /\ DOMAIN entries = 1 .. Len(entries)
         /\ \A i \in DOMAIN entries : entries[i].num \in Nat /\ entries[i].key \in Keys
<1>1. entries \in Seq(Line)
  BY DEF TypeOK
<1>2. \A i \in DOMAIN entries : entries[i] \in Line
  BY <1>1, SeqElements
<1> QED
  BY <1>1, <1>2, SeqElements DEF Line

\* Send puts a line with a number above all others at the end of the path.
LEMMA SendKeepsOrder ==
  ASSUME TypeOK, PathInOrder, NEW q \in Keys, Send(q)
  PROVE  PathInOrder'
<1> SUFFICES ASSUME NEW k \in Keys
             PROVE  KeyInOrder(k)'
  BY DEF PathInOrder
<1>1. KeyInOrder(k)
  BY DEF PathInOrder
<1>a. /\ streams[k] \in Seq(Nat) /\ received[k] \in Seq(Nat)
      /\ streams' = streams /\ received' = received
  BY DEF TypeOK, Send, batchVars, lokiVars
<1>b. sent' = [sent EXCEPT ![q] = @ + 1] /\ sent \in [Keys -> Nat]
  BY DEF TypeOK, Send, CountSend, Enqueue, GiveUp, Drop
<1>c. sent[k] \in Nat /\ sent'[k] \in Nat /\ sent[k] <= sent'[k]
  BY <1>b
<1>2. /\ streams' = streams /\ received' = received
      /\ sent[k] \in Nat /\ sent'[k] \in Nat /\ sent[k] <= sent'[k]
      /\ streams[k] \in Seq(Nat) /\ received[k] \in Seq(Nat)
  BY <1>a, <1>c
<1>3. CASE Enqueue(q)
  <2> DEFINE new == [key |-> q, num |-> sent[q] + 1]
  <2>1. new \in Line
    BY <1>b DEF Line
  <2>2. /\ entries \in Seq(Line)
        /\ entries' = Append(entries, new)
    BY <1>3 DEF TypeOK, Enqueue
  <2>3. /\ DOMAIN entries' = DOMAIN entries \cup {Len(entries) + 1}
        /\ \A i \in DOMAIN entries : entries'[i] = entries[i] /\ i < Len(entries) + 1
        /\ entries'[Len(entries) + 1] = new
        /\ \A i \in DOMAIN entries : entries[i].num \in Nat /\ i \in Nat
        /\ Len(entries) \in Nat
    <3>1. Len(entries) \in Nat /\ DOMAIN entries = 1 .. Len(entries)
      BY EntriesTyped
    <3>2. /\ Len(entries') = Len(entries) + 1
          /\ \A i \in 1 .. Len(entries) : entries'[i] = entries[i]
          /\ entries'[Len(entries) + 1] = new
          /\ entries' \in Seq(Line)
      BY <2>1, <2>2, AppendProperties
    <3>3. DOMAIN entries' = 1 .. Len(entries')
      BY <3>2, LenProperties
    <3>4. \A i \in DOMAIN entries : entries[i].num \in Nat
      BY EntriesTyped
    <3> HIDE DEF new
    <3> QED
      BY <3>1, <3>2, <3>3, <3>4
  <2>4. CASE k = q
    <3>1. PositionsOf(k)' = PositionsOf(k) \cup {Len(entries) + 1}
      BY <2>3, <2>4 DEF PositionsOf
    <3>2. sent'[k] = sent[k] + 1
      BY <1>b, <2>4
    <3>a. entries'[Len(entries) + 1].num = sent[k] + 1
      BY <2>3, <2>4
    <3>3. /\ \A i \in DOMAIN streams[k] : streams[k][i] \in Nat
          /\ \A i \in DOMAIN received[k] : received[k][i] \in Nat
      BY <1>a, SeqElements
    <3>4. /\ \A i \in PositionsOf(k)' : (i \in PositionsOf(k) /\ i \in DOMAIN entries) \/ i = Len(entries) + 1
          /\ \A i \in PositionsOf(k) : i < Len(entries) + 1 /\ entries'[i] = entries[i]
                           /\ entries[i].num \in Nat /\ i \in Nat
      BY <2>3, <3>1 DEF PositionsOf
    <3>b. /\ \A i, j \in PositionsOf(k) : i < j => entries[i].num < entries[j].num
          /\ \A i \in DOMAIN received[k], j \in PositionsOf(k) : received[k][i] < entries[j].num
          /\ \A i \in DOMAIN streams[k], j \in PositionsOf(k) : streams[k][i] < entries[j].num
          /\ \A i \in DOMAIN received[k] : received[k][i] <= sent[k]
          /\ \A i \in DOMAIN streams[k] : streams[k][i] <= sent[k]
          /\ \A i \in PositionsOf(k) : entries[i].num <= sent[k]
      BY <1>1 DEF KeyInOrder
    <3>c. Len(entries) \in Nat
      BY <2>3
    <3> HIDE DEF new
    <3>5. \A i, j \in PositionsOf(k)' : i < j => entries'[i].num < entries'[j].num
      BY <1>c, <3>a, <3>b, <3>c, <3>4
    <3>6. /\ \A i \in DOMAIN received[k], j \in PositionsOf(k)' : received[k][i] < entries'[j].num
          /\ \A i \in DOMAIN streams[k], j \in PositionsOf(k)' : streams[k][i] < entries'[j].num
      BY <1>c, <3>a, <3>b, <3>3, <3>4
    <3>7. /\ \A i \in DOMAIN received[k] : received[k][i] <= sent'[k]
          /\ \A i \in DOMAIN streams[k] : streams[k][i] <= sent'[k]
          /\ \A i \in PositionsOf(k)' : entries'[i].num <= sent'[k]
      BY <1>c, <3>2, <3>a, <3>b, <3>3, <3>4
    <3> QED
      BY <1>1, <1>2, <3>5, <3>6, <3>7 DEF KeyInOrder
  <2>5. CASE k # q
    <3>1. PositionsOf(k)' = PositionsOf(k)
      BY <2>3, <2>5 DEF PositionsOf
    <3>2. sent'[k] = sent[k]
      BY <1>b, <2>5
    <3> HIDE DEF new
    <3> QED
      BY <1>1, <1>2, <2>3, <3>1, <3>2 DEF KeyInOrder, PositionsOf
  <2> QED
    BY <2>4, <2>5
<1>4. CASE GiveUp(q) \/ Drop(q)
  <2>1. entries' = entries
    BY <1>4 DEF GiveUp, Drop
  <2>2. \A i \in PositionsOf(k) : entries[i].num \in Nat
    BY EntriesTyped DEF PositionsOf
  <2>3. /\ \A i \in DOMAIN streams[k] : streams[k][i] \in Nat
        /\ \A i \in DOMAIN received[k] : received[k][i] \in Nat
    BY <1>a, SeqElements
  <2> QED
    BY <1>1, <1>2, <2>1, <2>2, <2>3 DEF KeyInOrder, PositionsOf
<1> QED
  BY <1>3, <1>4 DEF Send

\* batchLoop moves the oldest line of the channel to the end of the batch.
LEMMA TakeEntryKeepsOrder ==
  ASSUME TypeOK, PathInOrder, TakeEntry
  PROVE  PathInOrder'
<1> SUFFICES ASSUME NEW k \in Keys
             PROVE  KeyInOrder(k)'
  BY DEF PathInOrder
<1> DEFINE e == Head(entries)
<1>1. KeyInOrder(k)
  BY DEF PathInOrder
<1>2. /\ entries \in Seq(Line) /\ entries # <<>>
      /\ entries' = Tail(entries)
      /\ received' = received /\ sent' = sent
      /\ streams' = [streams EXCEPT ![e.key] = Append(@, e.num)]
      /\ streams \in [Keys -> Seq(Nat)]
  BY DEF TakeEntry, AppendToBatch, lokiVars, TypeOK
<1>3. /\ Len(entries) \in Nat \ {0}
      /\ DOMAIN entries = 1 .. Len(entries)
      /\ DOMAIN entries' = 1 .. Len(entries) - 1
      /\ \A i \in DOMAIN entries' : entries'[i] = entries[i + 1]
      /\ e = entries[1]
      /\ \A i \in DOMAIN entries : entries[i].num \in Nat /\ entries[i].key \in Keys
  <2>1. Len(entries) \in Nat \ {0} /\ DOMAIN entries = 1 .. Len(entries)
    BY <1>2, LenProperties, EmptySeq
  <2>2. /\ entries' \in Seq(Line) /\ Len(entries') = Len(entries) - 1
        /\ \A i \in 1 .. Len(entries') : entries'[i] = entries[i + 1]
    BY <1>2, HeadTailProperties
  <2>3. DOMAIN entries' = 1 .. Len(entries')
    BY <2>2, LenProperties
  <2>4. \A i \in 1 .. Len(entries) : entries[i] \in Line
    BY <1>2, ElementOfSeq
  <2>5. e = entries[1]
    BY <1>2, <2>1
  <2> QED
    BY <2>1, <2>2, <2>3, <2>4, <2>5 DEF Line
<1>4. \A i \in PositionsOf(k)' : i + 1 \in PositionsOf(k) /\ entries'[i] = entries[i + 1]
                                  /\ i \in Nat /\ i >= 1
  BY <1>3 DEF PositionsOf
<1>5. CASE e.key = k
  <2> DEFINE n == Len(streams[k])
  <2>1. 1 \in PositionsOf(k) /\ e.num = entries[1].num /\ e.num \in Nat
    BY <1>3, <1>5 DEF PositionsOf
  <2>2. streams'[k] = Append(streams[k], e.num) /\ streams[k] \in Seq(Nat)
    BY <1>2, <1>5
  <2>3. /\ n \in Nat
        /\ DOMAIN streams[k] = 1 .. n
        /\ DOMAIN streams'[k] = 1 .. n + 1
        /\ \A i \in 1 .. n : streams'[k][i] = streams[k][i]
        /\ streams'[k][n + 1] = e.num
    BY <2>1, <2>2, AppendProperties, LenProperties
  <2>4. \A i \in DOMAIN streams'[k] : i \in DOMAIN streams[k] \/ i = n + 1
    BY <2>3
  <2> HIDE DEF n, e
  <2>5. /\ Increasing(streams'[k])
        /\ \A i \in DOMAIN streams'[k] : streams'[k][i] <= sent[k]
    BY <1>1, <2>1, <2>3, <2>4 DEF KeyInOrder, Increasing
  <2>6. \A i \in DOMAIN received[k], j \in DOMAIN streams'[k] : received[k][i] < streams'[k][j]
    BY <1>1, <2>1, <2>3, <2>4 DEF KeyInOrder
  <2>7. \A i \in DOMAIN streams'[k], j \in PositionsOf(k)' : streams'[k][i] < entries'[j].num
    BY <1>1, <1>4, <2>1, <2>3, <2>4 DEF KeyInOrder
  <2>8. /\ \A i, j \in PositionsOf(k)' : i < j => entries'[i].num < entries'[j].num
        /\ \A i \in DOMAIN received[k], j \in PositionsOf(k)' : received[k][i] < entries'[j].num
        /\ \A i \in PositionsOf(k)' : entries'[i].num <= sent[k]
    BY <1>1, <1>4 DEF KeyInOrder
  <2> QED
    BY <1>1, <1>2, <2>5, <2>6, <2>7, <2>8 DEF KeyInOrder
<1>6. CASE e.key # k
  <2>1. streams'[k] = streams[k]
    BY <1>2, <1>6
  <2> HIDE DEF e
  <2>2. /\ \A i, j \in PositionsOf(k)' : i < j => entries'[i].num < entries'[j].num
        /\ \A i \in DOMAIN received[k], j \in PositionsOf(k)' : received[k][i] < entries'[j].num
        /\ \A i \in DOMAIN streams[k], j \in PositionsOf(k)' : streams[k][i] < entries'[j].num
        /\ \A i \in PositionsOf(k)' : entries'[i].num <= sent[k]
    BY <1>1, <1>4 DEF KeyInOrder
  <2> QED
    BY <1>1, <1>2, <2>1, <2>2 DEF KeyInOrder
<1> QED
  BY <1>5, <1>6

\* A push appends the batch of a stream to what Loki has, or loses it, and
\* empties the batch.
LEMMA PushReturnsKeepsOrder ==
  ASSUME TypeOK, PathInOrder, NEW stored \in BOOLEAN, PushReturns(stored)
  PROVE  PathInOrder'
<1> SUFFICES ASSUME NEW k \in Keys
             PROVE  KeyInOrder(k)'
  BY DEF PathInOrder
<1> DEFINE r == received[k]
           s == streams[k]
<1>1. KeyInOrder(k)
  BY DEF PathInOrder
<1>2. /\ r \in Seq(Nat) /\ s \in Seq(Nat)
      /\ entries' = entries /\ sent' = sent
      /\ streams'[k] = <<>>
      /\ received'[k] = r \/ received'[k] = r \o s
  <2>1. r \in Seq(Nat) /\ s \in Seq(Nat)
    BY DEF TypeOK
  <2>2. r \o <<>> = r
    BY <2>1, ConcatEmptySeq
  <2>3. Payload(k) = s \/ Payload(k) = <<>>
    BY DEF Payload
  <2>4. received'[k] = r \/ received'[k] = r \o Payload(k)
    BY DEF PushReturns
  <2>5. entries' = entries /\ sent' = sent /\ streams'[k] = <<>>
    BY DEF PushReturns, ForgetBatch, clientVars, EmptyBatch
  <2> QED
    BY <2>1, <2>2, <2>3, <2>4, <2>5
<1>3. PositionsOf(k)' = PositionsOf(k)
  BY <1>2 DEF PositionsOf
<1>4. DOMAIN streams'[k] = {}
  BY <1>2
<1>5. CASE received'[k] = r
  BY <1>1, <1>2, <1>3, <1>4, <1>5 DEF KeyInOrder, Increasing
<1>6. CASE received'[k] = r \o s
  <2> DEFINE t == received'[k]
  <2>1. /\ Len(r) \in Nat /\ DOMAIN r = 1 .. Len(r) /\ \A i \in DOMAIN r : r[i] \in Nat
        /\ Len(s) \in Nat /\ DOMAIN s = 1 .. Len(s) /\ \A i \in DOMAIN s : s[i] \in Nat
    BY <1>2, SeqElements
  <2>2. /\ t \in Seq(Nat)
        /\ Len(t) = Len(r) + Len(s)
        /\ \A i \in 1 .. Len(r) + Len(s) : t[i] = IF i <= Len(r) THEN r[i] ELSE s[i - Len(r)]
    <3>1. r \in Seq(Nat) /\ s \in Seq(Nat)
      BY <1>2
    <3>2. t = r \o s
      BY <1>6
    <3> HIDE DEF r, s, t
    <3> QED
      BY <3>1, <3>2, ConcatProperties
  <2>3. DOMAIN t = 1 .. Len(r) + Len(s)
    BY <2>2, LenProperties
  <2>a. /\ Increasing(r) /\ Increasing(s)
        /\ \A i \in DOMAIN r, j \in DOMAIN s : r[i] < s[j]
        /\ \A i \in DOMAIN r, j \in PositionsOf(k) : r[i] < entries[j].num
        /\ \A i \in DOMAIN s, j \in PositionsOf(k) : s[i] < entries[j].num
        /\ \A i \in DOMAIN r : r[i] <= sent[k]
        /\ \A i \in DOMAIN s : s[i] <= sent[k]
    BY <1>1 DEF KeyInOrder
  <2> HIDE DEF r, s, t
  <2>4. \A i \in DOMAIN t :
           \/ i \in DOMAIN r /\ t[i] = r[i]
           \/ i - Len(r) \in DOMAIN s /\ i > Len(r) /\ t[i] = s[i - Len(r)]
    BY <2>1, <2>2, <2>3
  <2>5. Increasing(t)
    BY <2>1, <2>3, <2>4, <2>a DEF Increasing
  <2>6. /\ \A i \in DOMAIN t, j \in PositionsOf(k) : t[i] < entries[j].num
        /\ \A i \in DOMAIN t : t[i] <= sent[k]
    BY <2>4, <2>a
  <2> USE DEF t
  <2> QED
    <3>1. /\ Increasing(received[k])' /\ Increasing(streams[k])'
          /\ entries' = entries /\ sent' = sent
      BY <1>2, <1>4, <2>5 DEF Increasing
    <3>2. \A i, j \in PositionsOf(k) : i < j => entries[i].num < entries[j].num
      BY <1>1 DEF KeyInOrder
    <3>3. \A i \in PositionsOf(k) : entries[i].num <= sent[k]
      BY <1>1 DEF KeyInOrder
    <3> QED
      BY <1>3, <1>4, <2>6, <3>1, <3>2, <3>3 DEF KeyInOrder
<1> QED
  BY <1>2, <1>5, <1>6

\* Every step keeps the lines in order: the steps not treated above move none.
LEMMA NextKeepsOrder == TypeOK /\ PathInOrder /\ [Next]_vars => PathInOrder'
<1> SUFFICES ASSUME TypeOK, PathInOrder, [Next]_vars
             PROVE  PathInOrder'
  OBVIOUS
<1>1. CASE \E k \in Keys : Send(k)
  BY <1>1, SendKeepsOrder
<1>2. CASE TakeEntry
  BY <1>2, TakeEntryKeepsOrder
<1>3. CASE \E stored \in BOOLEAN : PushReturns(stored)
  BY <1>3, PushReturnsKeepsOrder
<1>4. CASE UNCHANGED <<sent, entries, streams, received>>
  BY <1>4 DEF PathInOrder, KeyInOrder, PositionsOf
<1>5. CASE TickFires \/ TakeTick \/ TakeDone \/ StopCloses \/ StopReturns \/ UNCHANGED vars
  BY <1>4, <1>5 DEF TickFires, TakeTick, TakeDone, StopCloses, StopReturns, vars,
     clientVars, batchVars, lokiVars
<1> QED
  BY <1>1, <1>2, <1>3, <1>5 DEF Next

\* At first there is nothing to be in order.
LEMMA InitInOrder == Init => PathInOrder
  BY DEF Init, PathInOrder, KeyInOrder, PositionsOf, Increasing, EmptyBatch

\* Along the whole path from Send to Loki the lines of a stream stay in the
\* order in which they were sent.
THEOREM PathOrder == Spec => []PathInOrder
  BY InitInOrder, NextKeepsOrder, TypeCorrect, PTL DEF Spec

\* Loki stores the lines of every stream in the order they were sent, and no
\* line twice, for any number of streams, any buffer and any batch size.
THEOREM DeliveryOrder == Spec => []StoredInOrderOnce
<1>1. PathInOrder => StoredInOrderOnce
  BY DEF PathInOrder, KeyInOrder, StoredInOrderOnce
<1> QED
  BY <1>1, PathOrder, PTL


-----------------------------------------------------------------------------
(* No line is lost without being counted.                                   *)

\* Lines are numbered from 1 on: what the channel, the batch and Loki hold are
\* numbers of lines that were sent.
NumberInv ==
    /\ \A i \in DOMAIN entries : entries[i].num >= 1
    /\ \A k \in Keys : \A i \in DOMAIN streams[k] : streams[k][i] >= 1
    /\ \A k \in Keys : \A i \in DOMAIN received[k] : received[k][i] >= 1

\* The lines that were sent and are neither in Loki nor on their way there.
Lost == {l \in Keys \X Nat : /\ l[2] \in 1 .. sent[l[1]]
                             /\ l[2] \notin Range(received[l[1]])
                             /\ ~HoldsLine(l[1], l[2])}

\* The lines of the batch.
InBatch == {l \in Keys \X Nat : l[2] \in Range(streams[l[1]])}

\* The batch has at most size lines, all of them under keys that a push looks
\* at; so the counters of dropped and failed lines make up for what is lost.
LossInv ==
    /\ \A k \in Keys : streams[k] # <<>> => k \in Range(order)
    /\ IsFiniteSet(InBatch) /\ Cardinality(InBatch) <= size
    /\ ~done => IsFiniteSet(Lost) /\ Cardinality(Lost) <= dropped + failed

\* An element that is appended is the only new one.
LEMMA RangeOfAppend ==
  ASSUME NEW S, NEW s \in Seq(S), NEW x \in S
  PROVE  Range(Append(s, x)) = Range(s) \cup {x}
<1>1. /\ Len(s) \in Nat /\ DOMAIN s = 1 .. Len(s)
      /\ DOMAIN Append(s, x) = 1 .. Len(s) + 1
      /\ \A i \in 1 .. Len(s) : Append(s, x)[i] = s[i]
      /\ Append(s, x)[Len(s) + 1] = x
  BY AppendProperties, LenProperties
<1>2. DOMAIN Append(s, x) = DOMAIN s \cup {Len(s) + 1}
  BY <1>1
<1> QED
  BY <1>1, <1>2 DEF Range

\* It holds at first.
LEMMA InitNumberInv == Init => NumberInv
  BY DEF Init, NumberInv, EmptyBatch

\* Each step keeps it.
LEMMA NextNumberInv == TypeOK /\ NumberInv /\ [Next]_vars => NumberInv'
<1> SUFFICES ASSUME TypeOK, NumberInv, [Next]_vars
             PROVE  NumberInv'
  OBVIOUS
<1>1. ASSUME NEW q \in Keys, Send(q)
      PROVE  NumberInv'
  <2>1. streams' = streams /\ received' = received
    BY <1>1 DEF Send, batchVars, lokiVars
  <2>2. CASE Enqueue(q)
    <3> DEFINE new == [key |-> q, num |-> sent[q] + 1]
    <3>1. sent[q] \in Nat /\ entries \in Seq(Line) /\ new \in Line /\ entries' = Append(entries, new)
      BY <2>2 DEF TypeOK, Line, Enqueue
    <3>2. /\ Len(entries) \in Nat /\ DOMAIN entries = 1 .. Len(entries)
          /\ DOMAIN entries' = 1 .. Len(entries) + 1
          /\ \A i \in 1 .. Len(entries) : entries'[i] = entries[i]
          /\ entries'[Len(entries) + 1] = new
      BY <3>1, AppendProperties, LenProperties
    <3>3. new.num >= 1
      BY <3>1
    <3>4. \A i \in DOMAIN entries' : i \in DOMAIN entries \/ i = Len(entries) + 1
      BY <3>2
    <3> HIDE DEF new
    <3> QED
      BY <2>1, <3>2, <3>3, <3>4 DEF NumberInv
  <2>3. CASE GiveUp(q) \/ Drop(q)
    BY <2>1, <2>3 DEF NumberInv, GiveUp, Drop
  <2> QED
    BY <1>1, <2>2, <2>3 DEF Send
<1>2. CASE TakeEntry
  <2> DEFINE e == Head(entries)
  <2>1. entries \in Seq(Line) /\ entries # <<>> /\ entries' = Tail(entries)
    BY <1>2 DEF TypeOK, TakeEntry
  <2>2. /\ e = entries[1] /\ 1 \in DOMAIN entries /\ e \in Line
        /\ \A i \in DOMAIN entries' : i + 1 \in DOMAIN entries /\ entries'[i] = entries[i + 1]
    BY <2>1, HeadTailProperties, LenProperties, EmptySeq
  <2>3. e.num >= 1 /\ e.num \in Nat /\ e.key \in Keys
    BY <2>2 DEF NumberInv, Line
  <2>4. /\ received' = received
        /\ streams' = [streams EXCEPT ![e.key] = Append(@, e.num)]
        /\ streams \in [Keys -> Seq(Nat)]
    BY <1>2 DEF TakeEntry, AppendToBatch, lokiVars, TypeOK
  <2> HIDE DEF e
  <2>5. ASSUME NEW k \in Keys, NEW i \in DOMAIN streams'[k]
        PROVE  streams'[k][i] >= 1
    <3>1. CASE k = e.key
      <4>1. streams'[k] = Append(streams[k], e.num) /\ streams[k] \in Seq(Nat)
        BY <2>4, <3>1
      <4>2. /\ Len(streams[k]) \in Nat /\ DOMAIN streams[k] = 1 .. Len(streams[k])
            /\ DOMAIN streams'[k] = 1 .. Len(streams[k]) + 1
            /\ \A j \in 1 .. Len(streams[k]) : streams'[k][j] = streams[k][j]
            /\ streams'[k][Len(streams[k]) + 1] = e.num
        BY <2>3, <4>1, AppendProperties, LenProperties
      <4>3. i \in DOMAIN streams[k] \/ i = Len(streams[k]) + 1
        BY <2>5, <4>2
      <4> QED
        BY <2>3, <4>2, <4>3 DEF NumberInv
    <3>2. CASE k # e.key
      BY <2>4, <2>5, <3>2 DEF NumberInv
    <3> QED
      BY <3>1, <3>2
  <2> QED
    BY <2>2, <2>4, <2>5 DEF NumberInv
<1>3. ASSUME NEW stored \in BOOLEAN, PushReturns(stored)
      PROVE  NumberInv'
  <2>1. entries' = entries /\ streams' = EmptyBatch
    BY <1>3 DEF PushReturns, ForgetBatch, clientVars
  <2>2. ASSUME NEW k \in Keys, NEW i \in DOMAIN received'[k]
        PROVE  received'[k][i] >= 1
    <3>1. received[k] \in Seq(Nat) /\ Payload(k) \in Seq(Nat)
      BY EmptySeq DEF TypeOK, Payload
    <3>2. \A j \in DOMAIN Payload(k) : Payload(k)[j] >= 1
      BY DEF Payload, NumberInv
    <3>3. CASE received'[k] = received[k]
      BY <2>2, <3>3 DEF NumberInv
    <3>4. CASE received'[k] = received[k] \o Payload(k)
      <4>1. Range(received'[k]) = Range(received[k]) \cup Range(Payload(k))
        BY <3>1, <3>4, RangeConcatenation
      <4>2. \A n \in Range(received[k]) \cup Range(Payload(k)) : n >= 1
        BY <3>2 DEF Range, NumberInv
      <4> QED
        BY <2>2, <4>1, <4>2 DEF Range
    <3> QED
      BY <1>3, <3>3, <3>4 DEF PushReturns
  <2> QED
    BY <2>1, <2>2 DEF NumberInv, EmptyBatch
<1>4. CASE UNCHANGED <<entries, streams, received>>
  BY <1>4 DEF NumberInv
<1>5. CASE TickFires \/ TakeTick \/ TakeDone \/ StopCloses \/ StopReturns \/ UNCHANGED vars
  BY <1>4, <1>5 DEF TickFires, TakeTick, TakeDone, StopCloses, StopReturns, vars,
     clientVars, batchVars, lokiVars
<1> QED
  BY <1>1, <1>2, <1>3, <1>5 DEF Next

\* Whatever the channel, the batch and Loki hold has the number of a line.
LEMMA NumbersFromOne == Spec => []NumberInv
  BY InitNumberInv, NextNumberInv, TypeCorrect, PTL DEF Spec

\* A set with at most one element that another finite set has not.
LEMMA OneMore ==
  ASSUME NEW S, IsFiniteSet(S), NEW x, NEW T, T \subseteq S \cup {x}
  PROVE  /\ IsFiniteSet(T) /\ Cardinality(T) \in Nat /\ Cardinality(S) \in Nat
         /\ Cardinality(T) <= Cardinality(S) + 1
<1>1. Cardinality(S) \in Nat
  BY FS_CardinalityType
<1>2. IsFiniteSet(S \cup {x}) /\ Cardinality(S \cup {x}) <= Cardinality(S) + 1
  BY <1>1, FS_AddElement
<1>3. Cardinality(S \cup {x}) \in Nat
  BY <1>2, FS_CardinalityType
<1>4. IsFiniteSet(T) /\ Cardinality(T) <= Cardinality(S \cup {x})
  BY <1>2, FS_Subset
<1>5. Cardinality(T) \in Nat
  BY <1>4, FS_CardinalityType
<1> QED
  BY <1>1, <1>2, <1>3, <1>4, <1>5

\* It holds at first.
LEMMA InitLossInv == Init => LossInv
<1> SUFFICES ASSUME Init PROVE LossInv
  OBVIOUS
<1>1. \A k \in Keys : streams[k] = <<>>
  BY DEF Init, EmptyBatch
<1>2. InBatch = {}
  BY <1>1 DEF InBatch, Range
<1>3. Lost = {}
  BY DEF Init, Lost
<1> QED
  BY <1>1, <1>2, <1>3, FS_EmptySet DEF LossInv, Init

\* What is lost depends on what Send has counted, what the path holds and what
\* Loki has.
LEMMA LossUntouched ==
  ASSUME LossInv,
         UNCHANGED <<sent, entries, streams, order, size, received, dropped, failed>>,
         done => done'
  PROVE  LossInv'
<1>1. InBatch' = InBatch /\ Lost' = Lost
  BY DEF InBatch, Lost, HoldsLine, Range
<1> QED
  BY <1>1 DEF LossInv, Range

\* A line that is sent is in the channel, or it is counted as dropped, or the
\* client is being stopped.
LEMMA SendLossInv ==
  ASSUME TypeOK, LossInv, NEW q \in Keys, Send(q)
  PROVE  LossInv'
<1>1. /\ UNCHANGED <<streams, order, size, received, failed, done>>
      /\ sent' = [sent EXCEPT ![q] = @ + 1] /\ sent \in [Keys -> Nat]
  BY DEF Send, CountSend, Enqueue, GiveUp, Drop, batchVars, lokiVars, TypeOK
<1>2. InBatch' = InBatch
  BY <1>1 DEF InBatch, Range
<1>m. PICK m \in Nat : m = sent[q] + 1
  BY <1>1
<1> DEFINE l == <<q, m>>
<1>3. CASE done
  BY <1>1, <1>2, <1>3 DEF LossInv, Range
<1>4. CASE ~done /\ Enqueue(q)
  <2> DEFINE new == [key |-> q, num |-> sent[q] + 1]
  <2>1. entries' = Append(entries, new) /\ entries \in Seq(Line) /\ new \in Line /\ dropped' = dropped
    BY <1>1, <1>4 DEF Enqueue, TypeOK, Line
  <2>2. Range(entries') = Range(entries) \cup {new}
    BY <2>1, RangeOfAppend
  <2>3. \A k, n : HoldsLine(k, n) <=> n \in Range(streams[k]) \/ [key |-> k, num |-> n] \in Range(entries)
    BY DEF HoldsLine, Range
  <2>4. \A k, n : HoldsLine(k, n)' <=> n \in Range(streams[k]) \/ [key |-> k, num |-> n] \in Range(entries')
    BY <1>1 DEF HoldsLine, Range
  <2>5. HoldsLine(q, m)' /\ \A k, n : HoldsLine(k, n) => HoldsLine(k, n)'
    BY <1>m, <2>2, <2>3, <2>4
  <2>6. Lost' \subseteq Lost
    <3> SUFFICES ASSUME NEW x \in Lost' PROVE x \in Lost
      OBVIOUS
    <3>1. /\ x \in Keys \X Nat /\ x[2] \in 1 .. sent'[x[1]] /\ x[2] \notin Range(received[x[1]])
          /\ ~HoldsLine(x[1], x[2])
      BY <1>1, <2>5 DEF Lost, Range
    <3>2. x[1] = q => x[2] # m
      BY <2>5 DEF Lost
    <3>3. x[2] \in 1 .. sent[x[1]]
      BY <1>1, <1>m, <3>1, <3>2
    <3> QED
      BY <3>1, <3>3 DEF Lost
  <2>7. IsFiniteSet(Lost') /\ Cardinality(Lost') <= Cardinality(Lost)
    BY <1>4, <2>6, FS_Subset DEF LossInv
  <2>8. Cardinality(Lost) \in Nat /\ Cardinality(Lost') \in Nat
    BY <1>4, <2>7, FS_CardinalityType DEF LossInv
  <2> HIDE DEF new, l
  <2> QED
    BY <1>1, <1>2, <1>4, <2>1, <2>7, <2>8 DEF LossInv, Range, TypeOK
<1>5. CASE ~done /\ Drop(q)
  <2>1. entries' = entries /\ dropped' = dropped + 1
    BY <1>5 DEF Drop
  <2>2. \A k, n : HoldsLine(k, n)' <=> HoldsLine(k, n)
    BY <1>1, <2>1 DEF HoldsLine, Range
  <2>3. Lost' \subseteq Lost \cup {l}
    <3> SUFFICES ASSUME NEW x \in Lost', x \notin Lost PROVE x = l
      OBVIOUS
    <3>1. /\ x \in Keys \X Nat /\ x[2] \in 1 .. sent'[x[1]] /\ x[2] \notin Range(received[x[1]])
          /\ ~HoldsLine(x[1], x[2])
      BY <1>1, <2>2 DEF Lost, Range
    <3>2. x[2] \notin 1 .. sent[x[1]]
      BY <3>1 DEF Lost
    <3>3. x[1] = q /\ x[2] = m
      BY <1>1, <1>m, <3>1, <3>2
    <3>4. x = <<x[1], x[2]>>
      BY <3>1
    <3> QED
      BY <3>3, <3>4
  <2>4. /\ IsFiniteSet(Lost') /\ Cardinality(Lost') \in Nat /\ Cardinality(Lost) \in Nat
        /\ Cardinality(Lost') <= Cardinality(Lost) + 1
    BY <1>5, <2>3, OneMore DEF LossInv
  <2> HIDE DEF l
  <2> QED
    BY <1>1, <1>2, <1>5, <2>1, <2>4 DEF LossInv, Range, TypeOK
<1> QED
  BY <1>3, <1>4, <1>5 DEF Send, GiveUp

\* What batchLoop takes from the channel enters the batch under a key of order.
LEMMA TakeEntryLossInv ==
  ASSUME TypeOK, LossInv, TakeEntry
  PROVE  LossInv'
<1>1. entries \in Seq(Line) /\ entries # <<>> /\ entries' = Tail(entries)
  BY DEF TypeOK, TakeEntry
<1>2. PICK e \in Line :
         /\ e = Head(entries) /\ e = entries[1]
         /\ \A i \in DOMAIN entries : i # 1 => i - 1 \in DOMAIN entries' /\ entries'[i - 1] = entries[i]
  BY <1>1, HeadTailProperties, LenProperties, EmptySeq
<1>3. /\ streams' = [streams EXCEPT ![e.key] = Append(@, e.num)]
      /\ order' = IF streams[e.key] = <<>> THEN Append(order, e.key) ELSE order
      /\ size' = size + 1
      /\ UNCHANGED <<sent, done, dropped, received, failed>>
  BY <1>2 DEF TakeEntry, AppendToBatch, lokiVars
<1>4. e.key \in Keys /\ e.num \in Nat /\ streams \in [Keys -> Seq(Nat)] /\ order \in Seq(Keys)
  BY DEF Line, TypeOK
<1>5. /\ Range(streams'[e.key]) = Range(streams[e.key]) \cup {e.num}
      /\ \A k \in Keys : k # e.key => streams'[k] = streams[k]
  <2>1. streams[e.key] \in Seq(Nat) /\ streams'[e.key] = Append(streams[e.key], e.num)
    BY <1>3, <1>4
  <2>2. Range(Append(streams[e.key], e.num)) = Range(streams[e.key]) \cup {e.num}
    <3>1. \A s \in Seq(Nat), n \in Nat : Range(Append(s, n)) = Range(s) \cup {n}
      BY RangeOfAppend
    <3> QED
      BY <1>4, <2>1, <3>1
  <2>3. \A k \in Keys : k # e.key => streams'[k] = streams[k]
    BY <1>3, <1>4
  <2> QED
    BY <2>1, <2>2, <2>3
<1>6. \A k \in Keys : streams'[k] # <<>> => k \in Range(order')
  <2>1. Range(Append(order, e.key)) = Range(order) \cup {e.key}
    BY <1>4, RangeOfAppend
  <2>2. \A k \in Keys : streams[k] # <<>> => k \in Range(order)
    BY DEF LossInv
  <2> QED
    BY <1>3, <1>4, <1>5, <2>1, <2>2
<1>7. InBatch' \subseteq InBatch \cup {<<e.key, e.num>>}
  <2> SUFFICES ASSUME NEW l \in InBatch', l \notin InBatch
               PROVE  l = <<e.key, e.num>>
    OBVIOUS
  <2>1. /\ l \in Keys \X Nat /\ l[2] \in Range(streams'[l[1]])
    BY DEF InBatch
  <2>2. l[2] \notin Range(streams[l[1]])
    BY <2>1 DEF InBatch
  <2>3. l[1] = e.key /\ l[2] = e.num
    BY <1>5, <2>1, <2>2
  <2>4. l = <<l[1], l[2]>>
    BY <2>1
  <2> QED
    BY <2>3, <2>4
<1>8. ASSUME NEW k \in Keys, NEW n, HoldsLine(k, n)
      PROVE  HoldsLine(k, n)'
  <2>1. CASE n \in Range(streams[k])
    BY <1>5, <2>1 DEF HoldsLine
  <2>2. ASSUME NEW i \in DOMAIN entries, entries[i] = [key |-> k, num |-> n]
        PROVE  HoldsLine(k, n)'
    <3>1. CASE i = 1
      BY <1>2, <1>5, <2>2, <3>1 DEF HoldsLine
    <3>2. CASE i # 1
      BY <1>2, <2>2, <3>2 DEF HoldsLine
    <3> QED
      BY <3>1, <3>2
  <2> QED
    BY <1>8, <2>1, <2>2 DEF HoldsLine
<1>9. Lost' \subseteq Lost
  BY <1>3, <1>8 DEF Lost
<1>10. /\ IsFiniteSet(InBatch') /\ Cardinality(InBatch') \in Nat /\ Cardinality(InBatch) \in Nat
       /\ Cardinality(InBatch') <= Cardinality(InBatch) + 1
       /\ Cardinality(InBatch) <= size /\ size \in Nat
  <2>1. IsFiniteSet(InBatch) /\ Cardinality(InBatch) <= size
    BY DEF LossInv
  <2>2. size \in Nat
    BY DEF TypeOK
  <2>3. /\ IsFiniteSet(InBatch') /\ Cardinality(InBatch') \in Nat /\ Cardinality(InBatch) \in Nat
        /\ Cardinality(InBatch') <= Cardinality(InBatch) + 1
    BY <1>7, <2>1, OneMore
  <2> QED
    BY <2>1, <2>2, <2>3
<1>11. ~done => IsFiniteSet(Lost') /\ Cardinality(Lost') <= dropped + failed
  <2>1. ASSUME ~done
        PROVE  IsFiniteSet(Lost') /\ Cardinality(Lost') <= Cardinality(Lost)
    BY <1>9, <2>1, FS_Subset DEF LossInv
  <2>2. ASSUME ~done
        PROVE  Cardinality(Lost') \in Nat /\ Cardinality(Lost) \in Nat
    BY <2>1, <2>2, FS_CardinalityType DEF LossInv
  <2> QED
    BY <2>1, <2>2 DEF LossInv, TypeOK
<1>12. IsFiniteSet(InBatch') /\ Cardinality(InBatch') <= size'
  BY <1>3, <1>10
<1> QED
  BY <1>3, <1>6, <1>11, <1>12 DEF LossInv

\* A push stores the whole batch, or its lines are counted as failed.
LEMMA PushReturnsLossInv ==
  ASSUME TypeOK, LossInv, NEW stored \in BOOLEAN, PushReturns(stored)
  PROVE  LossInv'
<1>1. /\ UNCHANGED <<sent, entries, done, dropped>>
      /\ streams' = EmptyBatch /\ order' = <<>> /\ size' = 0
  BY DEF PushReturns, ForgetBatch, clientVars
<1>2. \A k \in Keys : streams'[k] = <<>>
  BY <1>1 DEF EmptyBatch
<1>3. InBatch' = {}
  BY <1>2 DEF InBatch, Range
<1>4. \A k, n : HoldsLine(k, n) => n \in Range(streams[k]) \/ HoldsLine(k, n)'
  BY <1>1 DEF HoldsLine
<1>5. CASE stored
  <2>1. ASSUME NEW k \in Keys
        PROVE  Range(received'[k]) = Range(received[k]) \cup Range(streams[k])
    <3>1. Payload(k) = streams[k]
      BY DEF Payload, LossInv
    <3>2. received[k] \in Seq(Nat) /\ streams[k] \in Seq(Nat)
      BY DEF TypeOK
    <3>3. received'[k] = received[k] \o streams[k]
      BY <1>5, <3>1 DEF PushReturns
    <3> QED
      BY <3>2, <3>3, RangeConcatenation
  <2>2. Lost' \subseteq Lost
    BY <1>1, <1>4, <2>1 DEF Lost
  <2>3. failed' = failed
    BY <1>5 DEF PushReturns
  <2>4. ~done => IsFiniteSet(Lost') /\ Cardinality(Lost') <= dropped + failed
    <3>1. ASSUME ~done
          PROVE  IsFiniteSet(Lost') /\ Cardinality(Lost') <= Cardinality(Lost)
      BY <2>2, <3>1, FS_Subset DEF LossInv
    <3>2. ASSUME ~done
          PROVE  Cardinality(Lost') \in Nat /\ Cardinality(Lost) \in Nat
      BY <3>1, <3>2, FS_CardinalityType DEF LossInv
    <3> QED
      BY <3>1, <3>2 DEF LossInv, TypeOK
  <2> QED
    BY <1>1, <1>2, <1>3, <2>3, <2>4, FS_EmptySet DEF LossInv
<1>6. CASE ~stored
  <2>1. received' = received /\ failed' = failed + size
    BY <1>6 DEF PushReturns
  <2>2. Lost' \subseteq Lost \cup InBatch
    BY <1>1, <1>4, <2>1 DEF Lost, InBatch
  <2>3. /\ IsFiniteSet(InBatch) /\ Cardinality(InBatch) <= size
        /\ Cardinality(InBatch) \in Nat /\ size \in Nat
    BY FS_CardinalityType DEF LossInv, TypeOK
  <2>4. ASSUME ~done
        PROVE  IsFiniteSet(Lost') /\ Cardinality(Lost') <= dropped + failed + size
    <3>1. IsFiniteSet(Lost) /\ Cardinality(Lost) <= dropped + failed
      BY <2>4 DEF LossInv
    <3>2. /\ IsFiniteSet(Lost \cup InBatch)
          /\ Cardinality(Lost \cup InBatch)
               = Cardinality(Lost) + Cardinality(InBatch) - Cardinality(Lost \cap InBatch)
      BY <2>3, <3>1, FS_Union
    <3>3. IsFiniteSet(Lost') /\ Cardinality(Lost') <= Cardinality(Lost \cup InBatch)
      BY <2>2, <3>2, FS_Subset
    <3>4. IsFiniteSet(Lost \cap InBatch)
      BY <3>1, FS_Subset
    <3>5. /\ Cardinality(Lost) \in Nat /\ Cardinality(Lost') \in Nat
          /\ Cardinality(Lost \cup InBatch) \in Nat /\ Cardinality(Lost \cap InBatch) \in Nat
      BY <3>1, <3>2, <3>3, <3>4, FS_CardinalityType
    <3> QED
      BY <2>3, <3>1, <3>2, <3>3, <3>5 DEF TypeOK
  <2>5. dropped \in Nat /\ failed \in Nat
    BY DEF TypeOK
  <2> QED
    BY <1>1, <1>2, <1>3, <2>1, <2>3, <2>4, <2>5, FS_EmptySet DEF LossInv
<1> QED
  BY <1>5, <1>6

\* Each step keeps it.
LEMMA NextLossInv == TypeOK /\ LossInv /\ [Next]_vars => LossInv'
<1> SUFFICES ASSUME TypeOK, LossInv, [Next]_vars
             PROVE  LossInv'
  OBVIOUS
<1>1. CASE \E k \in Keys : Send(k)
  BY <1>1, SendLossInv
<1>2. CASE TakeEntry
  BY <1>2, TakeEntryLossInv
<1>3. CASE \E stored \in BOOLEAN : PushReturns(stored)
  BY <1>3, PushReturnsLossInv
<1>4. CASE TickFires \/ TakeTick \/ TakeDone \/ StopCloses \/ StopReturns \/ UNCHANGED vars
  BY <1>4, LossUntouched DEF TickFires, TakeTick, TakeDone, StopCloses, StopReturns, vars,
     clientVars, batchVars, lokiVars
<1> QED
  BY <1>1, <1>2, <1>3, <1>4 DEF Next

\* Until Stop is called, there are at most as many lines that have neither
\* reached Loki nor are on their way there as were counted, as dropped by a full
\* channel or as part of a push that failed: no line is lost silently.
THEOREM NoSilentLoss == Spec => []LossInv
  BY InitLossInv, NextLossInv, TypeCorrect, PTL DEF Spec

-----------------------------------------------------------------------------
(* The account.  It is an equation, so that it also says that no line is    *)
(* counted twice; NoSilentLoss says that what is counted covers the loss.   *)
(* size counts the lines of the batch, so that a push that fails counts     *)
(* them all, and order lists every stream of the batch, so that one that    *)
(* succeeds stores them all.                                                *)

\* How many lines there are of each key.
Lengths(f) == [k \in Keys |-> Len(f[k])]

\* The inductive invariant: every number that was given is in one place.
AccountInv ==
    /\ size = SumOf(Lengths(streams), Keys)
    /\ ~done => SumOf(sent, Keys) =
                    Len(entries) + size + SumOf(Lengths(received), Keys) + failed + dropped

\* The sums of the module's property are those of the lemmas about sums.
LEMMA AccountIsKept == AccountInv => EveryLineAccountedFor
<1>1. Sum(LAMBDA k : sent[k]) = SumOf(sent, Keys)
  BY DEF Sum, SumOf
<1>2. ASSUME NEW f
      PROVE  Sum(LAMBDA k : Len(f[k])) = SumOf(Lengths(f), Keys)
  <2>1. PICK a : IsSums(a, Lengths(f), Keys)
    BY KeysAssumption, SumsExist
  <2>2. SumOf(Lengths(f), Keys) = a[Keys]
    BY KeysAssumption, <2>1, SumOfIsSum
  <2>3. a = [s \in SUBSET Keys |-> IF s = {} THEN 0 ELSE Len(f[Elem(s)]) + a[s \ {Elem(s)}]]
    <3>1. \A s \in SUBSET Keys : s # {} => Lengths(f)[Elem(s)] = Len(f[Elem(s)])
      BY ElemIn DEF Lengths
    <3> QED
      BY <2>1, <3>1 DEF IsSums
  <2>4. \E b : /\ b = [s \in SUBSET Keys |-> IF s = {} THEN 0 ELSE Len(f[Elem(s)]) + b[s \ {Elem(s)}]]
               /\ Sum(LAMBDA k : Len(f[k])) = b[Keys]
    BY <2>3 DEF Elem, Sum, MapThenSumSet, MapThenFoldSet
  <2>5. PICK b : /\ b = [s \in SUBSET Keys |-> IF s = {} THEN 0 ELSE Len(f[Elem(s)]) + b[s \ {Elem(s)}]]
                 /\ Sum(LAMBDA k : Len(f[k])) = b[Keys]
    BY <2>4
  <2>6. IsSums(b, Lengths(f), Keys)
    <3>1. \A s \in SUBSET Keys : s # {} => Lengths(f)[Elem(s)] = Len(f[Elem(s)])
      BY ElemIn DEF Lengths
    <3> QED
      BY <2>5, <3>1 DEF IsSums
  <2>7. SumOf(Lengths(f), Keys) = b[Keys]
    BY KeysAssumption, <2>6, SumOfIsSum
  <2> QED
    BY <2>5, <2>7
<1>3. Sum(LAMBDA k : Len(streams[k])) = SumOf(Lengths(streams), Keys)
  BY <1>2
<1>4. Sum(LAMBDA k : Len(received[k])) = SumOf(Lengths(received), Keys)
  BY <1>2
<1> QED
  BY <1>1, <1>3, <1>4 DEF AccountInv, EveryLineAccountedFor


\* Lengths are natural numbers.
LEMMA LengthsTyped == \A f \in [Keys -> Seq(Nat)] : Lengths(f) \in [Keys -> Nat]
  BY SeqElements DEF Lengths

\* Every number of the account is a natural number.
LEMMA AccountTyped ==
  ASSUME TypeOK
  PROVE  /\ SumOf(sent, Keys) \in Nat
         /\ Len(entries) \in Nat
         /\ size \in Nat
         /\ SumOf(Lengths(received), Keys) \in Nat
         /\ failed \in Nat /\ dropped \in Nat
<1>1. Keys \in SUBSET Keys
  OBVIOUS
<1>2. sent \in [Keys -> Nat] /\ Lengths(received) \in [Keys -> Nat]
  BY LengthsTyped DEF TypeOK
<1>3. SumOf(sent, Keys) \in Nat /\ SumOf(Lengths(received), Keys) \in Nat
  BY <1>1, <1>2, KeysAssumption, SumNat
<1> QED
  BY <1>3, EntriesTyped DEF TypeOK

\* A sum of zeros.
LEMMA SumOfZero == SumOf([k \in Keys |-> 0], Keys) = 0
<1> DEFINE zero == [k \in Keys |-> 0]
<1>1. Keys \in SUBSET Keys /\ zero \in [Keys -> Nat] /\ \A k \in Keys : zero[k] = zero[k] + zero[k]
  OBVIOUS
<1>2. SumOf(zero, Keys) = SumOf(zero, Keys) + SumOf(zero, Keys) /\ SumOf(zero, Keys) \in Nat
  <2> HIDE DEF zero
  <2>1. SumOf(zero, Keys) = SumOf(zero, Keys) + SumOf(zero, Keys)
    BY <1>1, KeysAssumption, SumAdd
  <2>2. SumOf(zero, Keys) \in Nat
    BY <1>1, KeysAssumption, SumNat
  <2> QED
    BY <2>1, <2>2
<1>3. SumOf(zero, Keys) = 0
  <2> HIDE DEF zero
  <2> QED
    BY <1>2
<1> QED
  BY <1>3

\* Nothing was sent, held or stored.
LEMMA InitAccount == Init => AccountInv
<1> SUFFICES ASSUME Init PROVE AccountInv
  OBVIOUS
<1> DEFINE zero == [k \in Keys |-> 0]
<1>1. sent = zero /\ Lengths(streams) = zero /\ Lengths(received) = zero
  BY EmptySeq DEF Init, EmptyBatch, Lengths
<1>2. SumOf(zero, Keys) = 0
  BY SumOfZero
<1>3. size = 0 /\ Len(entries) = 0 /\ failed = 0 /\ dropped = 0
  BY EmptySeq DEF Init
<1> HIDE DEF zero
<1> QED
  BY <1>1, <1>2, <1>3 DEF AccountInv

\* Until Stop, Send adds one to what was sent, and one to the channel or to the
\* lines that were dropped.
LEMMA SendAccount ==
  ASSUME TypeOK, AccountInv, NEW q \in Keys, Send(q)
  PROVE  AccountInv'
<1>1. /\ UNCHANGED <<streams, size, received, failed, done>>
      /\ sent' = [sent EXCEPT ![q] = @ + 1] /\ sent \in [Keys -> Nat]
  BY DEF Send, CountSend, Enqueue, GiveUp, Drop, batchVars, lokiVars, TypeOK
<1>2. SumOf(sent', Keys) = SumOf(sent, Keys) + 1
  <2>1. PICK t \in [Keys -> Nat] : t = sent'
    BY <1>1
  <2>2. (\A k \in Keys : k # q => sent[k] = t[k]) /\ t[q] = sent[q] + 1 /\ sent[q] \in Nat
    BY <1>1, <2>1
  <2>3. SumOf(t, Keys) = SumOf(sent, Keys) - sent[q] + t[q]
    BY <1>1, <2>2, KeysAssumption, SumChange
  <2> QED
    BY <2>1, <2>2, <2>3, AccountTyped
<1>3. Lengths(streams)' = Lengths(streams) /\ Lengths(received)' = Lengths(received)
  BY <1>1 DEF Lengths
<1>4. CASE Enqueue(q)
  <2>1. [key |-> q, num |-> sent[q] + 1] \in Line /\ entries \in Seq(Line)
    BY <1>1 DEF Line, TypeOK
  <2>2. Len(entries') = Len(entries) + 1 /\ dropped' = dropped
    BY <1>4, <2>1, AppendProperties DEF Enqueue
  <2> QED
    BY <1>1, <1>2, <1>3, <2>2, AccountTyped DEF AccountInv
<1>5. CASE Drop(q)
  BY <1>1, <1>2, <1>3, <1>5, AccountTyped DEF AccountInv, Drop
<1>6. CASE GiveUp(q)
  BY <1>1, <1>3, <1>6 DEF AccountInv, GiveUp
<1> QED
  BY <1>4, <1>5, <1>6 DEF Send

\* A line leaves the channel and enters the batch, which counts it.
LEMMA TakeEntryAccount ==
  ASSUME TypeOK, AccountInv, TakeEntry
  PROVE  AccountInv'
<1>1. entries \in Seq(Line) /\ entries # <<>> /\ entries' = Tail(entries)
  BY DEF TypeOK, TakeEntry
<1>2. PICK e \in Line : e = Head(entries)
  BY <1>1, HeadTailProperties
<1>3. /\ streams' = [streams EXCEPT ![e.key] = Append(@, e.num)]
      /\ size' = size + 1
      /\ UNCHANGED <<sent, done, dropped, received, failed>>
  BY <1>2 DEF TakeEntry, AppendToBatch, lokiVars
<1>4. e.key \in Keys /\ e.num \in Nat /\ streams \in [Keys -> Seq(Nat)]
  BY DEF Line, TypeOK
<1>5. Len(entries') = Len(entries) - 1
  BY <1>1, HeadTailProperties
<1>6. SumOf(Lengths(streams)', Keys) = SumOf(Lengths(streams), Keys) + 1
  <2>1. streams' \in [Keys -> Seq(Nat)] /\ Len(streams'[e.key]) = Len(streams[e.key]) + 1
    BY <1>3, <1>4, AppendProperties
  <2>2. PICK f \in [Keys -> Nat], g \in [Keys -> Nat] :
             f = Lengths(streams) /\ g = Lengths(streams)'
    BY <1>4, <2>1, LengthsTyped DEF Lengths
  <2>x. PICK x \in Keys : x = e.key
    BY <1>4
  <2>3. (\A k \in Keys : k # x => f[k] = g[k]) /\ g[x] = f[x] + 1
    BY <1>3, <1>4, <2>1, <2>2, <2>x DEF Lengths
  <2>4. SumOf(g, Keys) = SumOf(f, Keys) - f[x] + g[x]
    BY <2>3, KeysAssumption, SumChange
  <2>5. SumOf(f, Keys) \in Nat /\ f[x] \in Nat
    BY <2>2, AccountTyped DEF AccountInv
  <2> QED
    BY <2>2, <2>3, <2>4, <2>5
<1>7. Lengths(received)' = Lengths(received)
  BY <1>3 DEF Lengths
<1> QED
  BY <1>3, <1>5, <1>6, <1>7, AccountTyped DEF AccountInv

\* A push moves the whole batch to what Loki has, or to what failed.
LEMMA PushReturnsAccount ==
  ASSUME TypeOK, LossInv, AccountInv, NEW stored \in BOOLEAN, PushReturns(stored)
  PROVE  AccountInv'
<1>1. /\ UNCHANGED <<sent, entries, done, dropped>>
      /\ streams' = EmptyBatch /\ size' = 0
  BY DEF PushReturns, ForgetBatch, clientVars
<1>2. SumOf(Lengths(streams)', Keys) = 0
  <2> DEFINE zero == [k \in Keys |-> 0]
  <2>1. Lengths(streams)' = zero
    BY <1>1, EmptySeq DEF EmptyBatch, Lengths
  <2>2. SumOf(zero, Keys) = 0
    BY SumOfZero
  <2> QED
    BY <2>1, <2>2
<1>3. CASE stored
  <2>1. ASSUME NEW k \in Keys
        PROVE  /\ received[k] \in Seq(Nat) /\ streams[k] \in Seq(Nat)
               /\ received'[k] = received[k] \o streams[k]
    <3>1. Payload(k) = streams[k]
      BY DEF Payload, LossInv
    <3> QED
      BY <1>3, <3>1 DEF PushReturns, TypeOK
  <2>p. PICK f \in [Keys -> Nat], g \in [Keys -> Nat] :
             f = Lengths(received) /\ g = Lengths(streams)
    BY LengthsTyped DEF TypeOK
  <2>h. PICK h : h = Lengths(received)'
    OBVIOUS
  <2>2. f = Lengths(received) /\ g = Lengths(streams) /\ h = Lengths(received)'
    BY <2>p, <2>h
  <2>3. ASSUME NEW k \in Keys
        PROVE  h[k] = f[k] + g[k]
    <3>1. Len(received[k] \o streams[k]) = Len(received[k]) + Len(streams[k])
      BY <2>1, ConcatProperties
    <3>2. h[k] = Len(received'[k]) /\ f[k] = Len(received[k]) /\ g[k] = Len(streams[k])
      BY <2>2 DEF Lengths
    <3> QED
      BY <2>1, <3>1, <3>2
  <2>4. SumOf(h, Keys) = SumOf(f, Keys) + SumOf(g, Keys)
    BY <2>3, KeysAssumption, SumAdd
  <2>5. failed' = failed
    BY <1>3 DEF PushReturns
  <2> QED
    BY <1>1, <1>2, <2>2, <2>4, <2>5, AccountTyped DEF AccountInv
<1>4. CASE ~stored
  <2>1. received' = received /\ failed' = failed + size
    BY <1>4 DEF PushReturns
  <2>2. Lengths(received)' = Lengths(received)
    BY <2>1 DEF Lengths
  <2> QED
    BY <1>1, <1>2, <2>1, <2>2, AccountTyped DEF AccountInv
<1> QED
  BY <1>3, <1>4

\* Each step keeps the account.
LEMMA NextAccount == TypeOK /\ LossInv /\ AccountInv /\ [Next]_vars => AccountInv'
<1> SUFFICES ASSUME TypeOK, LossInv, AccountInv, [Next]_vars
             PROVE  AccountInv'
  OBVIOUS
<1>1. CASE \E k \in Keys : Send(k)
  BY <1>1, SendAccount
<1>2. CASE TakeEntry
  BY <1>2, TakeEntryAccount
<1>3. CASE \E stored \in BOOLEAN : PushReturns(stored)
  BY <1>3, PushReturnsAccount
<1>4. CASE TickFires \/ TakeTick \/ TakeDone \/ StopCloses \/ StopReturns \/ UNCHANGED vars
  <2>1. UNCHANGED <<sent, entries, streams, size, received, dropped, failed>> /\ (done => done')
    BY <1>4 DEF TickFires, TakeTick, TakeDone, StopCloses, StopReturns, vars,
       clientVars, batchVars, lokiVars
  <2> QED
    BY <2>1 DEF AccountInv, Lengths
<1> QED
  BY <1>1, <1>2, <1>3, <1>4 DEF Next

\* Until Stop is called, every line handed to Send is, exactly once, in the
\* channel, in the batch, in Loki, in a push that failed, or was dropped.
THEOREM EveryLineHasItsPlace == Spec => []EveryLineAccountedFor
  BY InitAccount, NextAccount, AccountIsKept, TypeCorrect, NoSilentLoss, PTL DEF Spec

-----------------------------------------------------------------------------
(* The client implements LogDelivery.  NumbersOf, which says what of a      *)
(* stream waits in the channel, goes through the lines one by one; what the *)
(* steps do to it at either end follows by induction over the lines.        *)

\* f holds the numbers of stream k among the first lines, for every prefix.
IsNumbers(f, k, lines) ==
    f = [i \in 0 .. Len(lines) |->
            IF i = 0 THEN <<>>
            ELSE IF lines[i].key = k THEN Append(f[i - 1], lines[i].num)
            ELSE f[i - 1]]

\* One step of such a function.
LEMMA NumbersStep ==
  ASSUME NEW k, NEW lines \in Seq(Line), NEW f, IsNumbers(f, k, lines), NEW i \in 1 .. Len(lines)
  PROVE  f[i] = IF lines[i].key = k THEN Append(f[i - 1], lines[i].num) ELSE f[i - 1]
<1>1. Len(lines) \in Nat
  BY LenProperties
<1>2. i \in 0 .. Len(lines) /\ i # 0
  BY <1>1
<1> QED
  BY <1>2 DEF IsNumbers

\* What NumbersOf computes exists, prefix by prefix, and holds numbers.
LEMMA NumbersExist ==
  ASSUME NEW k, NEW lines \in Seq(Line)
  PROVE  \E f : /\ IsNumbers(f, k, lines)
                /\ NumbersOf(k, lines) = f[Len(lines)]
                /\ \A i \in 0 .. Len(lines) : f[i] \in Seq(Nat)
<1> DEFINE Rec(g, i) == IF i = 0 THEN <<>>
                        ELSE IF lines[i].key = k THEN Append(g[i - 1], lines[i].num)
                        ELSE g[i - 1]
           Good == {n \in Nat : \E g : g = [i \in 0 .. n |-> Rec(g, i)]}
<1>l. Len(lines) \in Nat /\ \A i \in 1 .. Len(lines) : lines[i].num \in Nat
  <2>1. \A i \in 1 .. Len(lines) : lines[i] \in Line
    BY ElementOfSeq
  <2> QED
    BY <2>1, LenProperties DEF Line
<1>1. 0 \in Good
  <2> DEFINE g == [i \in 0 .. 0 |-> <<>>]
  <2>1. g = [i \in 0 .. 0 |-> Rec(g, i)]
    OBVIOUS
  <2> HIDE DEF g, Rec
  <2> QED
    BY <2>1
<1>2. ASSUME NEW n \in Nat, n \in Good
      PROVE  n + 1 \in Good
  <2>1. PICK g : g = [i \in 0 .. n |-> Rec(g, i)]
    BY <1>2
  <2> DEFINE h == [i \in 0 .. n + 1 |-> Rec(g, i)]
  <2>2. \A i \in 0 .. n : h[i] = g[i]
    <3>1. \A i \in 0 .. n : i \in 0 .. n + 1
      OBVIOUS
    <3> HIDE DEF Rec
    <3> QED
      BY <2>1, <3>1
  <2>3. \A i \in 0 .. n + 1 : Rec(g, i) = Rec(h, i)
    <3>1. \A i \in 0 .. n + 1 : i # 0 => i - 1 \in 0 .. n
      OBVIOUS
    <3> HIDE DEF h
    <3> QED
      BY <2>2, <3>1
  <2>4. h = [i \in 0 .. n + 1 |-> Rec(h, i)]
    <3> HIDE DEF Rec
    <3> QED
      BY <2>3
  <2> HIDE DEF h, Rec
  <2> QED
    BY <2>4
<1>3. Len(lines) \in Good
  <2> HIDE DEF Good
  <2> QED
    BY <1>1, <1>2, <1>l, SetInduction
<1>4. PICK g : g = [i \in 0 .. Len(lines) |-> Rec(g, i)]
  BY <1>3
<1>5. \E f : IsNumbers(f, k, lines) /\ NumbersOf(k, lines) = f[Len(lines)]
  BY <1>4 DEF IsNumbers, NumbersOf
<1>6. PICK f : IsNumbers(f, k, lines) /\ NumbersOf(k, lines) = f[Len(lines)]
  BY <1>5
<1>7. \A i \in 0 .. Len(lines) : f[i] \in Seq(Nat)
  <2> DEFINE S == {n \in Nat : n <= Len(lines) => f[n] \in Seq(Nat)}
  <2>1. 0 \in S
    BY <1>6, <1>l, EmptySeq DEF IsNumbers
  <2>2. ASSUME NEW n \in Nat, n \in S
        PROVE  n + 1 \in S
    <3> SUFFICES ASSUME n + 1 <= Len(lines)
                 PROVE  f[n + 1] \in Seq(Nat)
      OBVIOUS
    <3>1. f[n] \in Seq(Nat) /\ lines[n + 1].num \in Nat
      BY <1>l, <2>2
    <3>2. n + 1 \in 1 .. Len(lines) /\ n + 1 - 1 = n
      BY <1>l
    <3>3. f[n + 1] = IF lines[n + 1].key = k THEN Append(f[n + 1 - 1], lines[n + 1].num)
                     ELSE f[n + 1 - 1]
      BY <1>6, <3>2, NumbersStep
    <3> QED
      BY <3>1, <3>2, <3>3, AppendProperties
  <2>3. Nat \subseteq S
    <3> HIDE DEF S
    <3> QED
      BY <2>1, <2>2, SetInduction
  <2> QED
    BY <1>l, <2>3
<1> QED
  BY <1>6, <1>7

\* An empty channel holds no line of any stream.
LEMMA NumbersOfNone == ASSUME NEW k PROVE NumbersOf(k, <<>>) = <<>>
<1>1. <<>> \in Seq(Line) /\ Len(<<>>) = 0
  BY EmptySeq
<1>2. PICK f : IsNumbers(f, k, <<>>) /\ NumbersOf(k, <<>>) = f[Len(<<>>)]
  BY <1>1, NumbersExist
<1> QED
  BY <1>1, <1>2 DEF IsNumbers

\* A line that enters the channel comes last in its stream.
LEMMA NumbersOfAppended ==
  ASSUME NEW k, NEW s \in Seq(Line), NEW e \in Line
  PROVE  NumbersOf(k, Append(s, e)) =
             IF e.key = k THEN Append(NumbersOf(k, s), e.num) ELSE NumbersOf(k, s)
<1> DEFINE t == Append(s, e)
<1>1. /\ t \in Seq(Line) /\ Len(t) = Len(s) + 1 /\ Len(s) \in Nat
      /\ \A i \in 1 .. Len(s) : t[i] = s[i]
      /\ t[Len(s) + 1] = e
  BY AppendProperties, LenProperties
<1> HIDE DEF t
<1>2. PICK f : IsNumbers(f, k, s) /\ NumbersOf(k, s) = f[Len(s)]
  BY NumbersExist
<1>3. PICK g : IsNumbers(g, k, t) /\ NumbersOf(k, t) = g[Len(t)]
  BY <1>1, NumbersExist
<1> DEFINE S == {n \in Nat : n <= Len(s) => g[n] = f[n]}
<1>4. 0 \in S
  BY <1>1, <1>2, <1>3 DEF IsNumbers
<1>5. ASSUME NEW n \in Nat, n \in S
      PROVE  n + 1 \in S
  <2> SUFFICES ASSUME n + 1 <= Len(s)
               PROVE  g[n + 1] = f[n + 1]
    OBVIOUS
  <2>1. n + 1 \in 1 .. Len(s) /\ n + 1 \in 1 .. Len(t) /\ n + 1 - 1 = n /\ g[n] = f[n]
    BY <1>1, <1>5
  <2>2. f[n + 1] = IF s[n + 1].key = k THEN Append(f[n + 1 - 1], s[n + 1].num) ELSE f[n + 1 - 1]
    BY <1>2, <2>1, NumbersStep
  <2>3. g[n + 1] = IF t[n + 1].key = k THEN Append(g[n + 1 - 1], t[n + 1].num) ELSE g[n + 1 - 1]
    BY <1>1, <1>3, <2>1, NumbersStep
  <2> QED
    BY <1>1, <2>1, <2>2, <2>3
<1>6. Nat \subseteq S
  <2> HIDE DEF S
  <2> QED
    BY <1>4, <1>5, SetInduction
<1>7. g[Len(s)] = f[Len(s)]
  BY <1>1, <1>6
<1>8. Len(t) \in 1 .. Len(t) /\ Len(t) - 1 = Len(s)
  BY <1>1
<1>9. g[Len(t)] = IF t[Len(t)].key = k THEN Append(g[Len(t) - 1], t[Len(t)].num) ELSE g[Len(t) - 1]
  BY <1>1, <1>3, <1>8, NumbersStep
<1> QED
  BY <1>1, <1>2, <1>3, <1>7, <1>8, <1>9 DEF t

\* The line at the head of the channel is the oldest of its stream there.
LEMMA NumbersOfHead ==
  ASSUME NEW k, NEW s \in Seq(Line), s # <<>>
  PROVE  NumbersOf(k, s) = IF s[1].key = k THEN <<s[1].num>> \o NumbersOf(k, Tail(s))
                           ELSE NumbersOf(k, Tail(s))
<1> DEFINE t == Tail(s)
<1>1. /\ t \in Seq(Line) /\ Len(t) = Len(s) - 1 /\ Len(s) \in Nat /\ Len(s) # 0
      /\ \A i \in 1 .. Len(t) : t[i] = s[i + 1]
      /\ \A i \in 1 .. Len(s) : s[i].num \in Nat
  <2>1. \A i \in 1 .. Len(s) : s[i] \in Line
    BY ElementOfSeq
  <2>2. Len(s) \in Nat /\ Len(s) # 0
    BY LenProperties, EmptySeq
  <2>3. /\ t \in Seq(Line) /\ Len(t) = Len(s) - 1
        /\ \A i \in 1 .. Len(t) : t[i] = s[i + 1]
    BY HeadTailProperties
  <2> QED
    BY <2>1, <2>2, <2>3 DEF Line
<1> HIDE DEF t
<1>2. PICK f : IsNumbers(f, k, s) /\ NumbersOf(k, s) = f[Len(s)]
  BY NumbersExist
<1>3. PICK g : /\ IsNumbers(g, k, t) /\ NumbersOf(k, t) = g[Len(t)]
               /\ \A i \in 0 .. Len(t) : g[i] \in Seq(Nat)
  BY <1>1, NumbersExist
<1>f. PICK first \in Seq(Nat) : first = IF s[1].key = k THEN <<s[1].num>> ELSE <<>>
  <2>1. 1 \in 1 .. Len(s)
    BY <1>1
  <2>2. s[1].num \in Nat
    BY <1>1, <2>1
  <2>3. <<s[1].num>> \in Seq(Nat) /\ <<>> \in Seq(Nat)
    BY <2>2
  <2> QED
    BY <2>3
<1> DEFINE S == {n \in Nat : n <= Len(t) => f[n + 1] = first \o g[n]}
<1>4. 0 \in S
  <2>1. g[0] = <<>> /\ f[0] = <<>>
    BY <1>1, <1>2, <1>3 DEF IsNumbers
  <2>2. 1 \in 1 .. Len(s)
    BY <1>1
  <2>3. f[1] = IF s[1].key = k THEN Append(f[1 - 1], s[1].num) ELSE f[1 - 1]
    BY <1>2, <2>2, NumbersStep
  <2>4. Append(<<>>, s[1].num) = <<s[1].num>>
    OBVIOUS
  <2>5. first \o <<>> = first
    BY ConcatEmptySeq
  <2>6. 1 - 1 = 0
    OBVIOUS
  <2>7. f[1] = IF s[1].key = k THEN <<s[1].num>> ELSE <<>>
    BY <2>1, <2>3, <2>4, <2>6
  <2>8. f[1] = first
    BY <1>f, <2>7
  <2>9. f[0 + 1] = first \o g[0]
    <3>1. 0 + 1 = 1
      OBVIOUS
    <3> QED
      BY <2>1, <2>5, <2>8, <3>1
  <2> QED
    BY <2>9
<1>5. ASSUME NEW n \in Nat, n \in S
      PROVE  n + 1 \in S
  <2> SUFFICES ASSUME n + 1 <= Len(t)
               PROVE  f[n + 1 + 1] = first \o g[n + 1]
    OBVIOUS
  <2>1. /\ n + 1 \in 1 .. Len(t) /\ n + 1 + 1 \in 1 .. Len(s) /\ n + 1 - 1 = n
        /\ n + 1 + 1 - 1 = n + 1 /\ f[n + 1] = first \o g[n] /\ n \in 0 .. Len(t)
    BY <1>1, <1>5
  <2>2. f[n + 1 + 1] = IF s[n + 1 + 1].key = k THEN Append(f[n + 1 + 1 - 1], s[n + 1 + 1].num)
                       ELSE f[n + 1 + 1 - 1]
    BY <1>2, <2>1, NumbersStep
  <2>3. g[n + 1] = IF t[n + 1].key = k THEN Append(g[n + 1 - 1], t[n + 1].num) ELSE g[n + 1 - 1]
    <3>1. IsNumbers(g, k, t) /\ t \in Seq(Line) /\ n + 1 \in 1 .. Len(t)
      BY <1>1, <1>3, <2>1
    <3> QED
      BY <3>1, NumbersStep
  <2>4. PICK m \in Nat, gn \in Seq(Nat) : m = t[n + 1].num /\ gn = g[n]
    BY <1>1, <1>3, <2>1
  <2>5. Append(first \o gn, m) = first \o Append(gn, m)
    <3>1. first \o gn \in Seq(Nat) /\ <<m>> \in Seq(Nat)
      BY ConcatProperties
    <3>2. Append(first \o gn, m) = (first \o gn) \o <<m>> /\ Append(gn, m) = gn \o <<m>>
      BY <3>1, AppendIsConcat
    <3> QED
      BY <3>1, <3>2, ConcatAssociative
  <2> QED
    BY <1>1, <2>1, <2>2, <2>3, <2>4, <2>5
<1>6. Nat \subseteq S
  <2> HIDE DEF S
  <2> QED
    BY <1>4, <1>5, SetInduction
<1>7. f[Len(t) + 1] = first \o g[Len(t)]
  BY <1>1, <1>6
<1>8. <<>> \o g[Len(t)] = g[Len(t)]
  BY <1>1, <1>3, ConcatEmptySeq
<1>9. NumbersOf(k, s) = first \o NumbersOf(k, t)
  BY <1>1, <1>2, <1>3, <1>7
<1> QED
  BY <1>3, <1>f, <1>8, <1>9 DEF t

\* What waits in the channel is a sequence of numbers for every stream.
LEMMA NumbersTyped ==
  ASSUME NEW k, NEW s \in Seq(Line)
  PROVE  NumbersOf(k, s) \in Seq(Nat)
<1>1. PICK f : NumbersOf(k, s) = f[Len(s)] /\ \A i \in 0 .. Len(s) : f[i] \in Seq(Nat)
  BY NumbersExist
<1>2. Len(s) \in 0 .. Len(s)
  BY LenProperties
<1> QED
  BY <1>1, <1>2

\* Every line of the channel waits in one stream: the streams' numbers add up
\* to its length.
LEMMA NumbersAddUp ==
  ASSUME NEW s \in Seq(Line)
  PROVE  SumOf([k \in Keys |-> Len(NumbersOf(k, s))], Keys) = Len(s)
<1> DEFINE Waiting(t) == [k \in Keys |-> Len(NumbersOf(k, t))]
           S == {n \in Nat : \A t \in Seq(Line) : Len(t) = n => SumOf(Waiting(t), Keys) = n}
<1>t. ASSUME NEW t \in Seq(Line)
      PROVE  Waiting(t) \in [Keys -> Nat]
  BY NumbersTyped, LenProperties
<1>1. 0 \in S
  <2> SUFFICES ASSUME NEW t \in Seq(Line), Len(t) = 0
               PROVE  SumOf(Waiting(t), Keys) = 0
    OBVIOUS
  <2>1. t = <<>>
    BY EmptySeq
  <2>2. Waiting(t) = [k \in Keys |-> 0]
    BY <2>1, NumbersOfNone, EmptySeq
  <2> QED
    BY <2>2, SumOfZero
<1>2. ASSUME NEW n \in Nat, n \in S
      PROVE  n + 1 \in S
  <2> SUFFICES ASSUME NEW t \in Seq(Line), Len(t) = n + 1
               PROVE  SumOf(Waiting(t), Keys) = n + 1
    OBVIOUS
  <2>1. t # <<>> /\ t[1] \in Line
    BY EmptySeq, ElementOfSeq
  <2>2. Tail(t) \in Seq(Line) /\ Len(Tail(t)) = n
    BY <2>1, HeadTailProperties
  <2>3. SumOf(Waiting(Tail(t)), Keys) = n
    BY <1>2, <2>2
  <2>4. PICK x \in Keys, m \in Nat : x = t[1].key /\ m = t[1].num
    BY <2>1 DEF Line
  <2>5. PICK f \in [Keys -> Nat], g \in [Keys -> Nat] : f = Waiting(Tail(t)) /\ g = Waiting(t)
    BY <1>t, <2>2
  <2>6. ASSUME NEW k \in Keys
        PROVE  g[k] = IF k = x THEN f[k] + 1 ELSE f[k]
    <3>1. PICK w \in Seq(Nat) : w = NumbersOf(k, Tail(t))
      BY <2>2, NumbersTyped
    <3>2. NumbersOf(k, t) = IF k = x THEN <<m>> \o w ELSE w
      BY <2>1, <2>4, <3>1, NumbersOfHead
    <3>3. <<m>> \in Seq(Nat) /\ Len(<<m>>) = 1
      OBVIOUS
    <3>4. Len(<<m>> \o w) = 1 + Len(w) /\ Len(w) \in Nat
      BY <3>3, ConcatProperties, LenProperties
    <3>5. f[k] = Len(w) /\ g[k] = Len(NumbersOf(k, t))
      BY <2>5, <3>1
    <3> QED
      BY <3>2, <3>4, <3>5
  <2> HIDE DEF Waiting
  <2>7. SumOf(g, Keys) = SumOf(f, Keys) - f[x] + g[x]
    BY <2>6, KeysAssumption, SumChange
  <2>8. g[x] = f[x] + 1 /\ f[x] \in Nat
    BY <2>6
  <2> QED
    BY <2>3, <2>5, <2>7, <2>8
<1>3. Len(s) \in S
  <2> HIDE DEF S
  <2> QED
    BY <1>1, <1>2, SetInduction, LenProperties
<1> QED
  BY <1>3

\* While a push is under way its batch has a line: flush does not push an
\* empty batch.
PushInv == loop \in {"push", "lastPush"} => size > 0

\* Each step keeps it.
LEMMA NextPushInv == TypeOK /\ PushInv /\ [Next]_vars => PushInv'
<1> SUFFICES ASSUME TypeOK, PushInv, [Next]_vars
             PROVE  PushInv'
  OBVIOUS
<1> USE DEF PushInv
<1>t. size \in Nat /\ BatchSize \in Nat \ {0}
  BY SizesAssumption DEF TypeOK
<1>1. CASE TakeEntry
  BY <1>t, <1>1 DEF TakeEntry, AppendToBatch
<1>2. CASE TakeTick \/ TakeDone
  BY <1>t, <1>2 DEF TakeTick, TakeDone, batchVars
<1>3. CASE \E stored \in BOOLEAN : PushReturns(stored)
  BY <1>3 DEF PushReturns
<1>4. CASE (\E k \in Keys : Send(k)) \/ TickFires \/ StopCloses \/ StopReturns \/ UNCHANGED vars
  BY <1>4 DEF Send, TickFires, StopCloses, StopReturns, vars, batchVars
<1> QED
  BY <1>1, <1>2, <1>3, <1>4 DEF Next

\* What is held is a sequence of numbers for every stream, in two parts.
LEMMA HeldTyped ==
  ASSUME TypeOK, NEW k \in Keys
  PROVE  /\ streams[k] \in Seq(Nat)
         /\ NumbersOf(k, entries) \in Seq(Nat)
         /\ Held[k] = streams[k] \o NumbersOf(k, entries)
         /\ Held[k] \in Seq(Nat)
         /\ Len(Held[k]) = Len(streams[k]) + Len(NumbersOf(k, entries))
<1>1. streams[k] \in Seq(Nat) /\ entries \in Seq(Line)
  BY DEF TypeOK
<1>2. NumbersOf(k, entries) \in Seq(Nat)
  BY <1>1, NumbersTyped
<1>3. Held[k] = streams[k] \o NumbersOf(k, entries)
  BY DEF Held
<1> QED
  BY <1>1, <1>2, <1>3, ConcatProperties

\* Nothing is held, sent or stored at first.
LEMMA InitDelivery == Init => Delivery!Init
<1> SUFFICES ASSUME Init PROVE Delivery!Init
  OBVIOUS
<1>1. <<>> \in Seq(Nat) /\ <<>> \o <<>> = <<>>
  BY EmptySeq, ConcatEmptySeq
<1>2. ASSUME NEW k \in Keys
      PROVE  streams[k] \o NumbersOf(k, entries) = <<>>
  BY <1>1, NumbersOfNone DEF Init, EmptyBatch
<1>3. Held = [k \in Keys |-> <<>>]
  BY <1>2 DEF Held
<1> QED
  BY <1>3 DEF Init, Delivery!Init

\* A line that enters the channel is taken in.
LEMMA EnqueueTakesIn ==
  ASSUME TypeOK, NEW q \in Keys, Send(q), Enqueue(q)
  PROVE  Delivery!TakeIn(q)
<1>1. /\ sent[q] < MaxSends /\ sent' = [sent EXCEPT ![q] = @ + 1]
      /\ UNCHANGED <<streams, received, done>>
      /\ sent[q] \in Nat
  BY DEF Send, Enqueue, CountSend, batchVars, lokiVars, TypeOK
<1>2. PICK e \in Line : e = [key |-> q, num |-> sent[q] + 1]
  <2>1. sent[q] + 1 \in Nat
    BY <1>1
  <2>2. [key |-> q, num |-> sent[q] + 1] \in Line
    BY <2>1 DEF Line
  <2> QED
    BY <2>2
<1>3. entries' = Append(entries, e) /\ entries \in Seq(Line) /\ e.key = q /\ e.num = sent[q] + 1
  BY <1>2 DEF Enqueue, TypeOK
<1>4. ASSUME NEW k \in Keys
      PROVE  Held'[k] = IF k = q THEN Append(Held[k], sent[q] + 1) ELSE Held[k]
  <2>1. PICK w \in Seq(Nat), b \in Seq(Nat) : w = NumbersOf(k, entries) /\ b = streams[k]
    BY HeldTyped
  <2>2. NumbersOf(k, entries') = IF k = q THEN Append(w, sent[q] + 1) ELSE w
    BY <1>3, <2>1, NumbersOfAppended
  <2>3. Held'[k] = b \o NumbersOf(k, entries')
    BY <1>1, <2>1 DEF Held
  <2>4. PICK m \in Nat : m = sent[q] + 1
    BY <1>1
  <2>5. b \o Append(w, m) = Append(b \o w, m)
    <3>1. b \o w \in Seq(Nat) /\ <<m>> \in Seq(Nat)
      BY ConcatProperties
    <3>2. Append(b \o w, m) = (b \o w) \o <<m>> /\ Append(w, m) = w \o <<m>>
      BY <3>1, AppendIsConcat
    <3> QED
      BY <3>1, <3>2, ConcatAssociative
  <2>6. Held[k] = b \o w
    BY <2>1, HeldTyped
  <2> QED
    BY <2>2, <2>3, <2>4, <2>5, <2>6
<1>5. Held' = [Held EXCEPT ![q] = Append(@, sent[q] + 1)]
  BY <1>4 DEF Held
<1> QED
  BY <1>1, <1>5 DEF Delivery!TakeIn

\* The sums of LogDelivery are those of the lemmas about sums.
LEMMA DeliveryTotal ==
  ASSUME NEW f
  PROVE  Delivery!Total(LAMBDA k : f[k]) = SumOf(f, Keys)
BY DEF Delivery!Total, Delivery!MapThenSumSet, Delivery!MapThenFoldSet,
       SumOf, MapThenSumSet, MapThenFoldSet

\* The total of the abstract client is a sum of the lemmas about sums.
LEMMA DeliveryTotalOfLengths ==
  ASSUME NEW g
  PROVE  Delivery!Total(LAMBDA k : Len(g[k])) = SumOf(Lengths(g), Keys)
<1>1. \A s \in SUBSET Keys : s # {} => Lengths(g)[Elem(s)] = Len(g[Elem(s)])
  BY ElemIn DEF Lengths
<1>2. PICK a : IsSums(a, Lengths(g), Keys)
  BY KeysAssumption, SumsExist
<1>3. a = [s \in SUBSET Keys |-> IF s = {} THEN 0 ELSE Len(g[Elem(s)]) + a[s \ {Elem(s)}]]
  BY <1>1, <1>2 DEF IsSums
<1>4. \E b : /\ b = [s \in SUBSET Keys |-> IF s = {} THEN 0 ELSE Len(g[Elem(s)]) + b[s \ {Elem(s)}]]
             /\ Delivery!Total(LAMBDA k : Len(g[k])) = b[Keys]
  BY <1>3 DEF Elem, Delivery!Total, Delivery!MapThenSumSet, Delivery!MapThenFoldSet
<1>5. PICK b : /\ b = [s \in SUBSET Keys |-> IF s = {} THEN 0 ELSE Len(g[Elem(s)]) + b[s \ {Elem(s)}]]
               /\ Delivery!Total(LAMBDA k : Len(g[k])) = b[Keys]
  BY <1>4
<1>6. IsSums(b, Lengths(g), Keys)
  BY <1>1, <1>5 DEF IsSums
<1>7. SumOf(Lengths(g), Keys) = b[Keys]
  BY KeysAssumption, <1>6, SumOfIsSum
<1> QED
  BY <1>5, <1>7

\* What is held is at least what waits in the channel.
LEMMA HeldIsMore ==
  ASSUME TypeOK
  PROVE  /\ SumOf(Lengths(Held), Keys) \in Nat
         /\ SumOf(Lengths(Held), Keys) >= Len(entries)
<1>1. PICK w \in [Keys -> Nat] : w = [k \in Keys |-> Len(NumbersOf(k, entries))]
  BY NumbersTyped, LenProperties DEF TypeOK
<1>2. PICK b \in [Keys -> Nat] : b = Lengths(streams)
  BY LengthsTyped DEF TypeOK
<1>3. ASSUME NEW k \in Keys
      PROVE  Lengths(Held)[k] = b[k] + w[k]
  BY <1>1, <1>2, HeldTyped DEF Lengths
<1>4. SumOf(Lengths(Held), Keys) = SumOf(b, Keys) + SumOf(w, Keys)
  BY <1>3, KeysAssumption, SumAdd
<1>5. SumOf(b, Keys) \in Nat /\ SumOf(w, Keys) \in Nat
  BY KeysAssumption, SumNat
<1>6. SumOf(w, Keys) = Len(entries)
  BY <1>1, NumbersAddUp DEF TypeOK
<1> QED
  BY <1>4, <1>5, <1>6

\* A line that Send discards is turned away: the client is closing, or holds at
\* least the lines of a full channel.
LEMMA DiscardTurnsAway ==
  ASSUME TypeOK, NEW q \in Keys, Send(q), GiveUp(q) \/ Drop(q)
  PROVE  Delivery!TurnAway(q)
<1>1. /\ sent[q] < MaxSends /\ sent' = [sent EXCEPT ![q] = @ + 1]
      /\ UNCHANGED <<streams, entries, received, done>>
  BY DEF Send, GiveUp, Drop, CountSend, batchVars, lokiVars
<1>2. Held' = Held
  BY <1>1 DEF Held
<1>3. done \/ Delivery!Total(LAMBDA j : Len(Held[j])) >= BufferSize
  <2>1. CASE GiveUp(q)
    BY <2>1 DEF GiveUp
  <2>2. CASE Drop(q)
    <3>1. Len(entries) >= BufferSize /\ Len(entries) \in Nat /\ BufferSize \in Nat
      BY <2>2, EntriesTyped, SizesAssumption DEF Drop
    <3>2. Delivery!Total(LAMBDA j : Len(Held[j])) = SumOf(Lengths(Held), Keys)
      BY DeliveryTotalOfLengths
    <3>3. SumOf(Lengths(Held), Keys) >= BufferSize
      BY <3>1, HeldIsMore
    <3> QED
      BY <3>2, <3>3
  <2> QED
    BY <2>1, <2>2
<1> QED
  BY <1>1, <1>2, <1>3 DEF Delivery!TurnAway

\* What moves from the channel to the batch stays held, in its place.
LEMMA TakeEntryKeepsHeld ==
  ASSUME TypeOK, TakeEntry
  PROVE  Held' = Held
<1>1. entries \in Seq(Line) /\ entries # <<>> /\ entries' = Tail(entries)
  BY DEF TypeOK, TakeEntry
<1>2. PICK e \in Line : e = Head(entries) /\ e = entries[1]
  BY <1>1, HeadTailProperties
<1>3. PICK x \in Keys, m \in Nat : x = e.key /\ m = e.num
  BY DEF Line
<1>4. streams' = [streams EXCEPT ![x] = Append(@, m)] /\ streams \in [Keys -> Seq(Nat)]
  BY <1>2, <1>3 DEF TakeEntry, AppendToBatch, TypeOK
<1>5. ASSUME NEW k \in Keys
      PROVE  streams'[k] \o NumbersOf(k, entries') = streams[k] \o NumbersOf(k, entries)
  <2>1. Tail(entries) \in Seq(Line)
    BY <1>1, HeadTailProperties
  <2>2. PICK w \in Seq(Nat), b \in Seq(Nat) : w = NumbersOf(k, Tail(entries)) /\ b = streams[k]
    BY <1>4, <2>1, NumbersTyped
  <2>3. NumbersOf(k, entries) = IF k = x THEN <<m>> \o w ELSE w
    BY <1>1, <1>2, <1>3, <2>2, NumbersOfHead
  <2>4. streams'[k] = IF k = x THEN Append(b, m) ELSE b
    BY <1>4, <2>2
  <2>5. Append(b, m) \o w = b \o (<<m>> \o w)
    <3>1. Append(b, m) = b \o <<m>> /\ <<m>> \in Seq(Nat)
      BY AppendIsConcat
    <3> QED
      BY <3>1, ConcatAssociative
  <2> QED
    BY <1>1, <2>2, <2>3, <2>4, <2>5
<1> QED
  BY <1>5 DEF Held

\* The batch is the front of what is held of every stream.
LEMMA FrontOfHeld ==
  ASSUME NEW b \in Seq(Nat), NEW w \in Seq(Nat)
  PROVE  /\ SubSeq(b \o w, 1, Len(b)) = b
         /\ SubSeq(b \o w, Len(b) + 1, Len(b \o w)) = w
<1> DEFINE h == b \o w
<1>1. /\ h \in Seq(Nat) /\ Len(h) = Len(b) + Len(w) /\ Len(b) \in Nat /\ Len(w) \in Nat
      /\ \A i \in 1 .. Len(b) + Len(w) : h[i] = IF i <= Len(b) THEN b[i] ELSE w[i - Len(b)]
  BY ConcatProperties, LenProperties
<1> HIDE DEF h
<1>2. SubSeq(h, 1, Len(b)) = b
  <2>1. /\ SubSeq(h, 1, Len(b)) \in Seq(Nat)
        /\ Len(SubSeq(h, 1, Len(b))) = Len(b)
        /\ \A i \in 1 .. Len(b) : SubSeq(h, 1, Len(b))[i] = h[i]
    BY <1>1
  <2>2. \A i \in 1 .. Len(b) : h[i] = b[i]
    BY <1>1
  <2> QED
    BY <2>1, <2>2, SeqEqual
<1>3. SubSeq(h, Len(b) + 1, Len(h)) = w
  <2>1. /\ SubSeq(h, Len(b) + 1, Len(h)) \in Seq(Nat)
        /\ Len(SubSeq(h, Len(b) + 1, Len(h))) = Len(w)
        /\ \A i \in 1 .. Len(w) : SubSeq(h, Len(b) + 1, Len(h))[i] = h[Len(b) + i]
    BY <1>1
  <2>2. ASSUME NEW i \in 1 .. Len(w)
        PROVE  h[Len(b) + i] = w[i]
    <3>1. /\ Len(b) + i \in 1 .. Len(b) + Len(w)
          /\ ~(Len(b) + i <= Len(b)) /\ Len(b) + i - Len(b) = i
      BY <1>1
    <3>2. h[Len(b) + i] = IF Len(b) + i <= Len(b) THEN b[Len(b) + i] ELSE w[Len(b) + i - Len(b)]
      BY <1>1, <3>1
    <3> QED
      BY <3>1, <3>2
  <2> QED
    BY <2>1, <2>2, SeqEqual
<1> QED
  BY <1>2, <1>3 DEF h

\* The lines of the batch leave, all of them stored by Loki or none.
LEMMA PushLeaves ==
  ASSUME TypeOK, LossInv, AccountInv, PushInv, NEW stored \in BOOLEAN, PushReturns(stored)
  PROVE  \E cut \in [Keys -> 0 .. BatchSize] : Delivery!Leave(cut, stored)
<1>1. PICK cut \in [Keys -> Nat] : cut = Lengths(streams)
  BY LengthsTyped DEF TypeOK
<1>2. /\ UNCHANGED <<sent, entries, done>> /\ streams' = EmptyBatch
      /\ size \in 1 .. BatchSize /\ size = SumOf(cut, Keys) /\ BatchSize \in Nat
  BY <1>1, SizesAssumption DEF PushReturns, ForgetBatch, clientVars, PushInv, AccountInv, TypeOK
<1>3. Delivery!Total(LAMBDA k : cut[k]) \in 1 .. BatchSize
  <2>1. Delivery!Total(LAMBDA k : cut[k]) = SumOf(cut, Keys)
    BY DeliveryTotal
  <2> QED
    BY <1>2, <2>1
<1>4. ASSUME NEW k \in Keys
      PROVE  cut[k] \in 0 .. BatchSize
  <2>1. SumOf(cut, Keys) = cut[k] + SumOf(cut, Keys \ {k})
    BY KeysAssumption, SumRemove
  <2>2. SumOf(cut, Keys \ {k}) \in Nat /\ cut[k] \in Nat
    BY KeysAssumption, SumNat
  <2> QED
    BY <1>2, <2>1, <2>2
<1>5. ASSUME NEW k \in Keys
      PROVE  /\ cut[k] <= Len(Held[k])
             /\ Held'[k] = SubSeq(Held[k], cut[k] + 1, Len(Held[k]))
             /\ Payload(k) = SubSeq(Held[k], 1, cut[k])
  <2>1. PICK b \in Seq(Nat), w \in Seq(Nat) : b = streams[k] /\ w = NumbersOf(k, entries)
    BY HeldTyped
  <2>2. Held[k] = b \o w /\ cut[k] = Len(b) /\ Len(Held[k]) = Len(b) + Len(w)
    BY <1>1, <2>1, HeldTyped DEF Lengths
  <2>3. Held'[k] = w
    <3>1. Held'[k] = <<>> \o w
      BY <1>2, <2>1 DEF Held, EmptyBatch
    <3> QED
      BY <3>1, ConcatEmptySeq
  <2>4. Payload(k) = b
    BY <2>1 DEF Payload, LossInv
  <2>5. SubSeq(b \o w, 1, Len(b)) = b /\ SubSeq(b \o w, Len(b) + 1, Len(b \o w)) = w
    BY FrontOfHeld
  <2>6. Len(b) \in Nat /\ Len(w) \in Nat
    BY LenProperties
  <2> QED
    BY <2>2, <2>3, <2>4, <2>5, <2>6
<1>6. Held' = [k \in Keys |-> SubSeq(Held[k], cut[k] + 1, Len(Held[k]))]
  BY <1>5 DEF Held
<1>7. received' = IF stored THEN [k \in Keys |-> received[k] \o SubSeq(Held[k], 1, cut[k])]
                  ELSE received
  BY <1>5 DEF PushReturns
<1>8. cut \in [Keys -> 0 .. BatchSize]
  BY <1>1, <1>4
<1>9. Delivery!Leave(cut, stored)
  BY <1>2, <1>3, <1>5, <1>6, <1>7 DEF Delivery!Leave
<1> QED
  BY <1>8, <1>9

\* Every step of the client is a step of LogDelivery, or changes nothing it
\* speaks of.
LEMMA NextDelivery ==
  TypeOK /\ LossInv /\ AccountInv /\ PushInv /\ [Next]_vars => [Delivery!Next]_(Delivery!vars)
<1> SUFFICES ASSUME TypeOK, LossInv, AccountInv, PushInv, [Next]_vars
             PROVE  Delivery!Next \/ UNCHANGED <<sent, Held, received, done>>
  BY DEF Delivery!vars
<1>1. ASSUME NEW k \in Keys, Send(k)
      PROVE  Delivery!Next
  BY <1>1, EnqueueTakesIn, DiscardTurnsAway DEF Send, Delivery!Next
<1>2. CASE TakeEntry
  BY <1>2, TakeEntryKeepsHeld DEF TakeEntry, AppendToBatch, lokiVars
<1>3. ASSUME NEW stored \in BOOLEAN, PushReturns(stored)
      PROVE  Delivery!Next
  BY <1>3, PushLeaves DEF Delivery!Next
<1>4. CASE StopCloses
  BY <1>4 DEF StopCloses, Delivery!Next, Delivery!Close, Held, batchVars, lokiVars
<1>5. CASE TickFires \/ TakeTick \/ TakeDone \/ StopReturns \/ UNCHANGED vars
  BY <1>5 DEF TickFires, TakeTick, TakeDone, StopReturns, vars, Held,
     clientVars, batchVars, lokiVars
<1> QED
  BY <1>1, <1>2, <1>3, <1>4, <1>5 DEF Next

\* The client implements LogDelivery: a line is turned away only by a client
\* that holds the lines of a full channel or was asked to stop, the oldest lines
\* leave first, in batches of bounded size that Loki stores as a whole or that
\* are lost as a whole, and none is sent twice.
THEOREM ImplementsLogDelivery == Spec => ImplementsDelivery
<1>1. Init => PushInv
  BY DEF Init, PushInv
<1>2. Spec => [](TypeOK /\ LossInv /\ AccountInv)
  BY InitAccount, NextAccount, TypeCorrect, NoSilentLoss, PTL DEF Spec
<1>3. Spec => []PushInv
  BY <1>1, <1>2, NextPushInv, PTL DEF Spec
<1> QED
  BY <1>2, <1>3, InitDelivery, NextDelivery, PTL DEF Spec, ImplementsDelivery, Delivery!Spec

=============================================================================
