-------------------------- MODULE LogPipelineProofs --------------------------
(***************************************************************************)
(* Log collection as a whole, for every set of containers, every buffer    *)
(* and every batch size: the composition makes only steps of the manager   *)
(* and the streamers and steps of the Loki client, so that what holds of   *)
(* each of them holds here, and together they give the order of what Loki  *)
(* stores and the account of what it lacks.                                *)
(***************************************************************************)
EXTENDS LogPipeline, SequenceTheorems, FiniteSetTheorems, TLAPS

\* The two components, with what is proved of them.
StreamsP == INSTANCE LogStreamsProofs

\* The theorems of the client, for its variables in the composition.
LokiP == INSTANCE LokiClientProofs

-----------------------------------------------------------------------------
(* The components under their two names are the same.                       *)

\* The composition begins where its components begin.
LEMMA InitIsInit == Init => StreamsP!Init /\ LokiP!Init
BY DEF Init, Streams!Init, StreamsP!Init, Loki!Init, LokiP!Init,
       Streams!Goroutines, StreamsP!Goroutines, Streams!ContainerState, StreamsP!ContainerState,
       Loki!EmptyBatch, LokiP!EmptyBatch

\* A step of the pipeline is a step of the manager, of a streamer or of their
\* surroundings, or leaves all of them alone.
LEMMA StepOfStreams == [Next]_vars => [StreamsP!Next]_(StreamsP!vars)
<1> USE DEF Streams!Goroutines, StreamsP!Goroutines,
            Streams!dockerVars, Streams!mgrVars, Streams!streamVars,
            StreamsP!dockerVars, StreamsP!mgrVars, StreamsP!streamVars
<1> SUFFICES ASSUME [Next]_vars, ~UNCHANGED StreamsP!vars PROVE StreamsP!Next
  OBVIOUS
<1>1. CASE EnvironmentChanges
  BY <1>1 DEF EnvironmentChanges, StreamsStep, Streams!DockerGoesOrComes, StreamsP!DockerGoesOrComes,
     Streams!ContainerChanges, StreamsP!ContainerChanges, StreamsP!Next, StreamsP!Environment,
     Streams!ContainerState, StreamsP!ContainerState
<1>2. CASE \E c \in Containers : ContainerWrites(c)
  BY <1>2 DEF ContainerWrites, StreamsStep, Streams!ContainerWrites, StreamsP!ContainerWrites,
     StreamsP!Next, StreamsP!Environment
<1>3. CASE Manager
  BY <1>3 DEF Manager, StreamsStep, Streams!Manager, StreamsP!Manager, StreamsP!Next,
     Streams!ListFails, StreamsP!ListFails, Streams!ListAnswers, StreamsP!ListAnswers,
     Streams!Apply, StreamsP!Apply, Streams!Tick, StreamsP!Tick, Streams!Return, StreamsP!Return,
     Streams!ToStart, StreamsP!ToStart, Streams!Free, StreamsP!Free, Streams!Stays, StreamsP!Stays,
     Streams!Has, StreamsP!Has, Streams!IsCancelled, StreamsP!IsCancelled
<1>4. ASSUME NEW g \in Streams!Goroutines, StreamerStarts(g)
      PROVE  StreamsP!Next
  BY <1>4 DEF StreamerStarts, StreamsStep, Streams!Start, StreamsP!Start, Streams!Go, StreamsP!Go,
     StreamsP!Next, StreamsP!Streamer
<1>5. ASSUME NEW g \in Streams!Goroutines, StreamerAlone(g)
      PROVE  StreamsP!Next
  BY <1>5 DEF StreamerAlone, StreamsStep, Streams!Go, StreamsP!Go, Streams!Exit, StreamsP!Exit,
     Streams!OpenAnswers, StreamsP!OpenAnswers, Streams!OpenFails, StreamsP!OpenFails,
     Streams!AfterOpenFailed, StreamsP!AfterOpenFailed, Streams!StreamEnds, StreamsP!StreamEnds,
     Streams!AfterStream, StreamsP!AfterStream, Streams!Wake, StreamsP!Wake,
     Streams!SleepCancelled, StreamsP!SleepCancelled, Streams!Stopped, StreamsP!Stopped,
     Streams!Answers, StreamsP!Answers, Streams!ContainerRunning, StreamsP!ContainerRunning,
     StreamsP!Next, StreamsP!Streamer
<1>6. ASSUME NEW g \in Streams!Goroutines, ReadAndSend(g)
      PROVE  StreamsP!Next
  BY <1>6 DEF ReadAndSend, Streams!Read, StreamsP!Read, StreamsP!Next, StreamsP!Streamer
<1>7. CASE MainCancels
  BY <1>7 DEF MainCancels, Streams!MainCancels, StreamsP!MainCancels, StreamsP!Next, StreamsP!Environment
<1>8. CASE UNCHANGED streamsVars
  BY <1>8 DEF streamsVars, StreamsP!vars
<1>9. CASE BatchLoop \/ TickFires \/ MainStops \/ MainExits \/ UNCHANGED vars
  BY <1>8, <1>9 DEF BatchLoop, TickFires, LokiStep, MainStops, MainExits, vars
<1> QED
  BY <1>1, <1>2, <1>3, <1>4, <1>5, <1>6, <1>7, <1>9 DEF Next, Streamer, Main

\* A step of the pipeline is a step of the Loki client or leaves it alone.
LEMMA StepOfLoki == [Next]_vars => [LokiP!Next]_(LokiP!vars)
<1> USE DEF Loki!clientVars, Loki!batchVars, Loki!lokiVars,
            LokiP!clientVars, LokiP!batchVars, LokiP!lokiVars
<1> SUFFICES ASSUME [Next]_vars, ~UNCHANGED LokiP!vars PROVE LokiP!Next
  OBVIOUS
<1>1. ASSUME NEW g \in Streams!Goroutines, ReadAndSend(g)
      PROVE  LokiP!Next
  <2> DEFINE k == LabelsKey(g[1], next[g])
  <2>1. k \in Keys
    BY DEF Keys, LabelsKey, Streams!Goroutines
  <2>2. Loki!Send(k)
    BY <1>1 DEF ReadAndSend
  <2> HIDE DEF k
  <2>3. LokiP!Send(k)
    BY <2>2 DEF Loki!Send, LokiP!Send, Loki!Enqueue, LokiP!Enqueue, Loki!GiveUp, LokiP!GiveUp,
       Loki!Drop, LokiP!Drop, Loki!CountSend, LokiP!CountSend
  <2> QED
    BY <2>1, <2>3 DEF LokiP!Next
<1>2. CASE LokiStep(Loki!TakeEntry)
  BY <1>2 DEF LokiStep, Loki!TakeEntry, LokiP!TakeEntry, Loki!AppendToBatch, LokiP!AppendToBatch,
     Loki!BatchIsFull, LokiP!BatchIsFull, LokiP!Next
<1>3. CASE LokiStep(Loki!TakeTick) \/ LokiStep(Loki!TakeDone) \/ TickFires
  BY <1>3 DEF LokiStep, Loki!TakeTick, LokiP!TakeTick, Loki!TakeDone, LokiP!TakeDone,
     TickFires, Loki!TickFires, LokiP!TickFires, LokiP!Next
<1>4. CASE LokiStep(PushReturns)
  BY <1>4 DEF LokiStep, PushReturns, Loki!PushReturns, LokiP!PushReturns, Loki!Payload, LokiP!Payload,
     Loki!Range, LokiP!Range, Loki!ForgetBatch, LokiP!ForgetBatch,
     Loki!EmptyBatch, LokiP!EmptyBatch, LokiP!Next
<1>5. CASE MainStops \/ MainExits
  BY <1>5 DEF MainStops, MainExits, Loki!StopCloses, LokiP!StopCloses,
     Loki!StopReturns, LokiP!StopReturns, LokiP!Next
<1>6. CASE UNCHANGED lokiVars
  BY <1>6 DEF lokiVars, LokiP!vars
<1>7. ASSUME NEW g \in Streams!Goroutines, StreamerStarts(g) \/ StreamerAlone(g)
      PROVE  LokiP!Next
  BY <1>6, <1>7 DEF StreamerStarts, StreamerAlone, StreamsStep
<1>8. CASE EnvironmentChanges \/ (\E c \in Containers : ContainerWrites(c)) \/ Manager
           \/ MainCancels \/ UNCHANGED vars
  BY <1>6, <1>8 DEF EnvironmentChanges, ContainerWrites, Manager, MainCancels, StreamsStep, vars
<1> QED
  BY <1>1, <1>2, <1>3, <1>4, <1>5, <1>7, <1>8 DEF Next, Streamer, BatchLoop, LokiStep, Main

\* The pipeline behaves as the manager and the streamers of LogStreams do: the
\* client they send to never makes them take a step of another kind.
THEOREM PipelineRunsStreams == Spec => StreamsP!Spec
<1>1. Init => StreamsP!Init
  BY InitIsInit
<1> QED
  BY <1>1, StepOfStreams, PTL DEF Spec, StreamsP!Spec

\* The pipeline behaves as the client of LokiClient does, whatever sends to it.
THEOREM PipelineRunsLoki == Spec => LokiP!Spec
<1>1. Init => LokiP!Init
  BY InitIsInit
<1> QED
  BY <1>1, StepOfLoki, PTL DEF Spec, LokiP!Spec

-----------------------------------------------------------------------------
(* What holds of the components holds of the pipeline.                      *)

\* The invariant of the streamers holds in the composition.
LEMMA StreamsInv == Spec => [](StreamsP!LineInv)
<1>1. StreamsP!Spec => [](StreamsP!LineInv)
  BY PartsAssumption, StreamsP!LineInvInvariant DEF StreamsP!Goroutines
<1> QED
  BY <1>1, PipelineRunsStreams, PTL

\* The keys of the client are finite in number: two for each container.
LEMMA FiniteKeys == LokiP!IsFiniteSet(Keys)
<1>1. IsFiniteSet({"stdout", "stderr"}) /\ IsFiniteSet(Containers)
  <2>1. {"stdout", "stderr"} = {"stdout"} \cup {"stderr"}
    OBVIOUS
  <2>2. IsFiniteSet({"stdout"})
    BY FS_Singleton
  <2>3. IsFiniteSet({"stdout"} \cup {"stderr"})
    BY <2>2, FS_AddElement
  <2> QED
    BY <2>1, <2>3, PartsAssumption
<1>2. IsFiniteSet(Keys)
  BY <1>1, FS_Product DEF Keys
<1> QED
  BY <1>2 DEF IsFiniteSet, LokiP!IsFiniteSet

\* The invariants of the client hold in the composition.
LEMMA LokiInv == Spec => [](LokiP!TypeOK /\ LokiP!PathInOrder /\ LokiP!NumberInv /\ LokiP!LossInv)
<1>1. LokiP!Spec => [](LokiP!TypeOK)
  BY PartsAssumption, FiniteKeys, LokiP!TypeCorrect
<1>2. LokiP!Spec => [](LokiP!PathInOrder)
  BY PartsAssumption, FiniteKeys, LokiP!PathOrder
<1>3. LokiP!Spec => [](LokiP!NumberInv)
  BY PartsAssumption, FiniteKeys, LokiP!NumbersFromOne
<1>4. LokiP!Spec => [](LokiP!LossInv)
  BY PartsAssumption, FiniteKeys, LokiP!NoSilentLoss
<1> QED
  BY <1>1, <1>2, <1>3, <1>4, PipelineRunsLoki, PTL

\* A streamer that reconnects neither passes over a line nor repeats more than
\* the last one, although its lines now pass through Send, which may drop them.
THEOREM ReconnectContinues == Spec => []ContinuesFromLastLine
<1>1. StreamsP!LineInv => ContinuesFromLastLine
  BY DEF StreamsP!LineInv, StreamsP!LinesOf, ContinuesFromLastLine, Streams!ContinuesFromLastLine,
     StreamsP!Goroutines, Streams!Goroutines
<1> QED
  BY <1>1, StreamsInv, PTL

-----------------------------------------------------------------------------
(* The order of what is handed over                                         *)

\* A line that was handed to the client, by which connection of which streamer.
HandedLine == [line : Nat, by : Streams!Goroutines \X Nat, first : BOOLEAN]

\* Of two lines of one streamer, the order in which Loki may see them.
MayFollow(a, b) == a.line < b.line \/ (a.line = b.line /\ b.first)

\* A line was handed over by a streamer that has been started, and by the one
\* that runs in its slot only up to the last line of that one.
LineIsPast(h) ==
    LET g == h.by[1]
    IN  /\ h.by[2] <= spawned[g]
        /\ h.by[2] = spawned[g] /\ pc[g] \notin {"start", "exited"} => h.line <= last[g]

(* The inductive invariant of the order: the number of a line in Send is    *)
(* its place in handed, and the lines of one streamer stand there in order. *)
HandedInv ==
    /\ spawned \in [Streams!Goroutines -> Nat]
    /\ handed \in [Keys -> Seq(HandedLine)]
    /\ \A k \in Keys : Len(handed[k]) = sent[k]
    /\ \A k \in Keys : \A n \in DOMAIN handed[k] : LineIsPast(handed[k][n])
    /\ \A k \in Keys : \A m, n \in DOMAIN handed[k] :
          m < n /\ handed[k][m].by = handed[k][n].by => MayFollow(handed[k][m], handed[k][n])

\* It holds at first.
LEMMA InitHandedInv == Init => HandedInv
<1> SUFFICES ASSUME Init PROVE HandedInv
  OBVIOUS
<1>1. /\ spawned = [g \in Streams!Goroutines |-> 0]
      /\ handed = [k \in Keys |-> <<>>] /\ sent = [k \in Keys |-> 0]
  BY DEF Init, Loki!Init
<1>2. \A k \in Keys : handed[k] \in Seq(HandedLine) /\ Len(handed[k]) = 0 /\ DOMAIN handed[k] = {}
  BY <1>1, EmptySeq
<1> QED
  BY <1>1, <1>2 DEF HandedInv

\* The streamers that a step does not end or start keep their last line.
LastLinesStay ==
    \A g \in Streams!Goroutines :
        pc'[g] \notin {"start", "exited"} =>
            pc[g] \notin {"start", "exited"} /\ last'[g] = last[g]

\* A step that hands over nothing keeps the invariant.
LEMMA HandedUntouched ==
  ASSUME HandedInv, LastLinesStay, UNCHANGED <<spawned, handed, sent>>
  PROVE  HandedInv'
<1>1. ASSUME NEW k \in Keys, NEW n \in DOMAIN handed[k]
      PROVE  LineIsPast(handed[k][n])'
  <2>1. handed[k][n] \in HandedLine /\ LineIsPast(handed[k][n]) /\ handed' = handed
    BY <1>1, ElementOfSeq, LenProperties DEF HandedInv
  <2> QED
    BY <2>1 DEF LineIsPast, LastLinesStay, HandedLine
<1> QED
  BY <1>1 DEF HandedInv

\* The steps of the manager, of the surroundings and of a streamer that neither
\* begins nor reads.
LEMMA OthersKeepLastLines ==
  ASSUME StreamsP!TypeOK,
         \/ EnvironmentChanges
         \/ \E c \in Containers : ContainerWrites(c)
         \/ Manager
         \/ \E g \in Streams!Goroutines : StreamerAlone(g)
         \/ UNCHANGED streamsVars
         \/ MainCancels
  PROVE  LastLinesStay
<1> USE DEF LastLinesStay, Streams!Goroutines, StreamsP!Goroutines,
            Streams!dockerVars, Streams!mgrVars, Streams!streamVars
<1>1. CASE EnvironmentChanges
  BY <1>1 DEF EnvironmentChanges, StreamsStep, Streams!DockerGoesOrComes, Streams!ContainerChanges
<1>2. CASE \E c \in Containers : ContainerWrites(c)
  BY <1>2 DEF ContainerWrites, StreamsStep, Streams!ContainerWrites
<1>3. CASE Manager
  <2>1. CASE Streams!Apply
    BY <2>1 DEF Streams!Apply
  <2>2. CASE ~Streams!Apply
    BY <1>3, <2>2 DEF Manager, StreamsStep, Streams!Manager, Streams!ListFails, Streams!ListAnswers,
       Streams!Tick, Streams!Return
  <2> QED
    BY <2>1, <2>2
<1>4. ASSUME NEW h \in Streams!Goroutines, StreamerAlone(h)
      PROVE  LastLinesStay
  <2>1. /\ pc \in [Containers \X Slots -> StreamsP!StreamerState]
        /\ last \in [Containers \X Slots -> 0 .. MaxLines]
    BY DEF StreamsP!TypeOK
  <2>2. CASE Streams!Exit(h)
    BY <2>1, <2>2 DEF Streams!Exit, Streams!Go
  <2>3. CASE ~Streams!Exit(h)
    BY <1>4, <2>1, <2>3 DEF StreamerAlone, StreamsStep, Streams!Go, Streams!OpenAnswers,
       Streams!OpenFails, Streams!AfterOpenFailed, Streams!StreamEnds, Streams!AfterStream,
       Streams!Wake, Streams!SleepCancelled
  <2> QED
    BY <2>2, <2>3
<1>5. CASE UNCHANGED streamsVars
  BY <1>5 DEF streamsVars
<1>6. CASE MainCancels
  BY <1>6 DEF MainCancels, Streams!MainCancels
<1> QED
  BY <1>1, <1>2, <1>3, <1>4, <1>5, <1>6

\* A streamer that begins has handed over nothing: those of the earlier
\* streamers in its slot are told apart by the count of the starts.
LEMMA StartHandedInv ==
  ASSUME StreamsP!TypeOK, HandedInv, NEW h \in Streams!Goroutines, StreamerStarts(h)
  PROVE  HandedInv'
<1>1. /\ pc[h] = "start" /\ pc' = [pc EXCEPT ![h] = "open"]
      /\ last' = [last EXCEPT ![h] = written[h[1]]]
      /\ spawned' = [spawned EXCEPT ![h] = @ + 1]
      /\ UNCHANGED <<handed, sent>>
  BY DEF StreamerStarts, StreamsStep, Streams!Start, Streams!Go, lokiVars
<1>2. /\ pc \in [Streams!Goroutines -> StreamsP!StreamerState]
      /\ last \in [Streams!Goroutines -> 0 .. MaxLines]
  BY DEF StreamsP!TypeOK, StreamsP!Goroutines, Streams!Goroutines
<1>3. spawned' \in [Streams!Goroutines -> Nat]
  BY <1>1 DEF HandedInv
<1>4. ASSUME NEW k \in Keys, NEW n \in DOMAIN handed[k]
      PROVE  LineIsPast(handed[k][n])'
  <2>1. handed[k][n] \in HandedLine /\ LineIsPast(handed[k][n]) /\ handed' = handed
    BY <1>1, <1>4, ElementOfSeq, LenProperties DEF HandedInv
  <2>2. PICK a \in HandedLine : a = handed[k][n]
    BY <2>1
  <2>3. LineIsPast(a) /\ a.by[1] \in Streams!Goroutines /\ a.by[2] \in Nat
    BY <2>1, <2>2 DEF HandedLine
  <2>4. CASE a.by[1] = h
    BY <1>1, <1>3, <2>1, <2>2, <2>3, <2>4 DEF LineIsPast, HandedInv
  <2>5. CASE a.by[1] # h
    <3>1. /\ pc'[a.by[1]] = pc[a.by[1]] /\ last'[a.by[1]] = last[a.by[1]]
          /\ spawned'[a.by[1]] = spawned[a.by[1]]
      BY <1>1, <1>2, <2>3, <2>5 DEF HandedInv
    <3> QED
      BY <2>1, <2>2, <2>3, <3>1 DEF LineIsPast
  <2> QED
    BY <2>4, <2>5
<1> QED
  BY <1>1, <1>3, <1>4 DEF HandedInv

\* A line that is read comes after all that its streamer has handed over, or
\* is the last of them again, as the first line of a connection.
LEMMA ReadHandedInv ==
  ASSUME StreamsP!LineInv, LokiP!TypeOK, HandedInv,
         NEW h \in Streams!Goroutines, ReadAndSend(h)
  PROVE  HandedInv'
<1>0. /\ last \in [Streams!Goroutines -> Nat] /\ next[h] \in Nat /\ gotData[h] \in BOOLEAN
      /\ pc[h] = "reading" /\ next[h] \in {last[h], last[h] + 1}
      /\ gotData[h] => next[h] = last[h] + 1
  <2>1. pc[h] = "reading"
    BY DEF ReadAndSend, Streams!Read
  <2> QED
    BY <2>1, PartsAssumption
       DEF StreamsP!LineInv, StreamsP!LinesOf, StreamsP!TypeOK, StreamsP!Goroutines, Streams!Goroutines
<1>a. PICK a \in HandedLine :
        /\ a = HandedOver(h) /\ a.line = next[h] /\ a.by = <<h, spawned[h]>>
        /\ gotData[h] \/ a.first
  <2>1. <<h, spawned[h]>> \in Streams!Goroutines \X Nat
    BY DEF HandedInv
  <2>2. HandedOver(h) \in HandedLine
    BY <1>0, <2>1 DEF HandedOver, HandedLine
  <2>3. HandedOver(h).line = next[h] /\ HandedOver(h).by = <<h, spawned[h]>>
    BY DEF HandedOver
  <2>4. gotData[h] \/ HandedOver(h).first
    BY <1>0 DEF HandedOver
  <2> HIDE DEF HandedOver
  <2> QED
    BY <2>2, <2>3, <2>4
<1>1. PICK q \in Keys :
        /\ Loki!Send(q)
        /\ handed' = [handed EXCEPT ![q] = Append(@, a)]
        /\ UNCHANGED spawned
  <2>1. LabelsKey(h[1], next[h]) \in Keys
    BY DEF LabelsKey, Keys, Streams!Goroutines
  <2> QED
    BY <1>a, <2>1 DEF ReadAndSend
<1>2. sent' = [sent EXCEPT ![q] = @ + 1] /\ sent \in [Keys -> Nat]
  BY <1>1 DEF Loki!Send, Loki!Enqueue, Loki!GiveUp, Loki!Drop, Loki!CountSend, LokiP!TypeOK
<1>3. /\ pc[h] = "reading" /\ pc' = pc
      /\ last' = [last EXCEPT ![h] = next[h]]
  BY DEF ReadAndSend, Streams!Read
<1>6. /\ handed[q] \in Seq(HandedLine) /\ handed'[q] = Append(handed[q], a)
      /\ \A k \in Keys : k # q => handed'[k] = handed[k]
  BY <1>1 DEF HandedInv
<1>7. PICK l \in Nat :
        /\ l = Len(handed[q]) /\ DOMAIN handed[q] = 1 .. l
        /\ handed'[q] \in Seq(HandedLine) /\ Len(handed'[q]) = l + 1
        /\ DOMAIN handed'[q] = 1 .. l + 1
        /\ \A n \in 1 .. l : handed'[q][n] = handed[q][n] /\ handed[q][n] \in HandedLine
        /\ handed'[q][l + 1] = a
  BY <1>6, AppendProperties, LenProperties, ElementOfSeq
<1>8. handed' \in [Keys -> Seq(HandedLine)]
  BY <1>1, <1>6, <1>7 DEF HandedInv
<1>9. \A k \in Keys : Len(handed'[k]) = sent'[k]
  BY <1>2, <1>6, <1>7 DEF HandedInv
<1>10. ASSUME NEW b \in HandedLine, LineIsPast(b)
       PROVE  LineIsPast(b)'
  <2>1. b.by[1] \in Streams!Goroutines /\ b.line \in Nat
    BY DEF HandedLine
  <2>2. last'[b.by[1]] \in Nat /\ last[b.by[1]] \in Nat /\ last'[b.by[1]] >= last[b.by[1]]
    BY <1>0, <1>3, <2>1
  <2> QED
    BY <1>1, <1>3, <1>10, <2>1, <2>2 DEF LineIsPast
<1>11. LineIsPast(a)'
  <2>1. a.by[1] = h /\ a.by[2] = spawned[h] /\ last'[h] = next[h] /\ spawned'[h] \in Nat
    BY <1>0, <1>a, <1>1, <1>3 DEF HandedInv
  <2> QED
    BY <1>a, <1>0, <1>1, <2>1 DEF LineIsPast
<1>12. ASSUME NEW k \in Keys, NEW n \in DOMAIN handed'[k]
       PROVE  LineIsPast(handed[k][n])'
  <2>1. PICK b \in HandedLine : b = handed'[k][n]
    BY <1>8, <1>12, ElementOfSeq, LenProperties
  <2>2. CASE k # q
    BY <1>6, <1>10, <1>12, <2>1, <2>2 DEF HandedInv, LineIsPast
  <2>3. CASE k = q /\ n = l + 1
    BY <1>7, <1>11, <2>3 DEF LineIsPast
  <2>4. CASE k = q /\ n \in 1 .. l
    BY <1>7, <1>10, <2>1, <2>4 DEF HandedInv, LineIsPast
  <2> QED
    BY <1>7, <1>12, <2>2, <2>3, <2>4
<1>13. ASSUME NEW n \in 1 .. l, handed[q][n].by = a.by
       PROVE  MayFollow(handed[q][n], a)
  <2>1. /\ handed[q][n] \in HandedLine /\ LineIsPast(handed[q][n])
    BY <1>7 DEF HandedInv
  <2>2. handed[q][n].line <= last[h] /\ handed[q][n].line \in Nat
    BY <1>0, <1>a, <1>13, <2>1 DEF LineIsPast, HandedLine
  <2>3. last[h] \in Nat
    BY <1>0
  <2>4. CASE next[h] = last[h] + 1
    BY <1>a, <2>2, <2>3, <2>4 DEF MayFollow
  <2>5. CASE next[h] = last[h] /\ a.first
    BY <1>a, <2>2, <2>3, <2>5 DEF MayFollow
  <2> QED
    BY <1>0, <1>a, <2>3, <2>4, <2>5
<1>14. ASSUME NEW k \in Keys, NEW m \in DOMAIN handed'[k], NEW n \in DOMAIN handed'[k],
              m < n, handed'[k][m].by = handed'[k][n].by
       PROVE  MayFollow(handed'[k][m], handed'[k][n])
  <2>1. CASE k # q
    BY <1>6, <1>14, <2>1 DEF HandedInv
  <2>2. CASE k = q /\ n = l + 1
    BY <1>7, <1>13, <1>14, <2>2
  <2>3. CASE k = q /\ n # l + 1
    <3>1. m \in 1 .. l /\ n \in 1 .. l
      BY <1>7, <1>14, <2>3
    <3> QED
      BY <1>7, <1>14, <2>3, <3>1 DEF HandedInv
  <2> QED
    BY <2>1, <2>2, <2>3
<1>15. spawned' \in [Streams!Goroutines -> Nat]
  BY <1>1 DEF HandedInv
<1>16. \A k \in Keys : \A n \in DOMAIN handed'[k] : LineIsPast(handed[k][n])'
  BY <1>12
<1>17. \A k \in Keys : \A m, n \in DOMAIN handed'[k] :
          m < n /\ handed'[k][m].by = handed'[k][n].by => MayFollow(handed'[k][m], handed'[k][n])
  BY <1>14
<1> QED
  BY <1>8, <1>9, <1>15, <1>16, <1>17 DEF HandedInv, MayFollow

\* Each step keeps it.
LEMMA NextHandedInv ==
  ASSUME StreamsP!LineInv, LokiP!TypeOK, HandedInv, [Next]_vars
  PROVE  HandedInv'
<1>1. StreamsP!TypeOK
  BY DEF StreamsP!LineInv
<1>2. ASSUME NEW g \in Streams!Goroutines, StreamerAlone(g)
      PROVE  HandedInv'
  <2>1. LastLinesStay
    BY <1>1, <1>2, OthersKeepLastLines
  <2> QED
    BY <1>2, <2>1, HandedUntouched DEF StreamerAlone, StreamsStep, historyVars, lokiVars
<1>3. CASE EnvironmentChanges \/ (\E c \in Containers : ContainerWrites(c)) \/ Manager \/ MainCancels
  <2>1. LastLinesStay
    BY <1>1, <1>3, OthersKeepLastLines
  <2>2. UNCHANGED <<spawned, handed, sent>>
    BY <1>3 DEF EnvironmentChanges, ContainerWrites, Manager, MainCancels, StreamsStep,
       historyVars, lokiVars
  <2> QED
    BY <2>1, <2>2, HandedUntouched
<1>4. CASE BatchLoop \/ TickFires \/ MainStops \/ MainExits \/ UNCHANGED vars
  <2>1. UNCHANGED <<streamsVars, spawned, handed>>
    BY <1>4 DEF BatchLoop, TickFires, LokiStep, MainStops, MainExits, vars, historyVars
  <2>2. UNCHANGED sent
    BY <1>4 DEF BatchLoop, TickFires, LokiStep, MainStops, MainExits, vars, lokiVars, PushReturns,
       Loki!TakeEntry, Loki!TakeTick, Loki!TakeDone, Loki!PushReturns, Loki!TickFires,
       Loki!StopCloses, Loki!StopReturns, Loki!clientVars
  <2>3. LastLinesStay
    BY <1>1, <2>1, OthersKeepLastLines
  <2> QED
    BY <2>1, <2>2, <2>3, HandedUntouched
<1> QED
  BY <1>2, <1>3, <1>4, StartHandedInv, ReadHandedInv, <1>1 DEF Next, Streamer, Main

\* The invariant about what was handed over holds throughout.
LEMMA HandedInvInvariant == Spec => []HandedInv
<1>1. /\ StreamsP!LineInv
      /\ LokiP!TypeOK /\ LokiP!PathInOrder /\ LokiP!NumberInv /\ LokiP!LossInv
      /\ HandedInv /\ [Next]_vars
      => HandedInv'
  BY NextHandedInv
<1> QED
  BY <1>1, InitHandedInv, StreamsInv, LokiInv, PTL DEF Spec

\* What Loki has stored with a key, in its order, is what was handed over with
\* that key, in its order, with some lines missing.
LEMMA StoredIsHanded ==
  ASSUME LokiP!TypeOK, LokiP!PathInOrder, LokiP!NumberInv, HandedInv, NEW k \in Keys
  PROVE  /\ \A i \in DOMAIN received[k] : received[k][i] \in DOMAIN handed[k]
         /\ \A i, j \in DOMAIN received[k] : i < j => received[k][i] < received[k][j]
<1>1. received[k] \in Seq(Nat) /\ sent[k] \in Nat
  BY DEF LokiP!TypeOK
<1>2. \A i \in DOMAIN received[k] :
        received[k][i] \in Nat /\ received[k][i] >= 1 /\ received[k][i] <= sent[k]
  BY <1>1, ElementOfSeq, LenProperties DEF LokiP!NumberInv, LokiP!PathInOrder, LokiP!KeyInOrder
<1>3. DOMAIN handed[k] = 1 .. sent[k]
  BY LenProperties DEF HandedInv
<1>4. \A i, j \in DOMAIN received[k] : i < j => received[k][i] < received[k][j]
  BY DEF LokiP!PathInOrder, LokiP!KeyInOrder, LokiP!Increasing
<1> QED
  BY <1>1, <1>2, <1>3, <1>4

\* From the container to Loki, for every key: the lines of one streamer are
\* stored in the order they were written, each once, save that the last one may
\* come again as the first of a new connection (stream.go:142).
THEOREM StoredInWrittenOrder == Spec => []StoredAsWritten
<1>1. ASSUME LokiP!TypeOK, LokiP!PathInOrder, LokiP!NumberInv, HandedInv
      PROVE  StoredAsWritten
  <2> SUFFICES ASSUME NEW k \in Keys, NEW i \in DOMAIN received[k], NEW j \in DOMAIN received[k],
                      i < j, Stored(k)[i].by = Stored(k)[j].by
               PROVE  MayFollow(Stored(k)[i], Stored(k)[j])
    BY DEF StoredAsWritten, MayFollow
  <2>1. Stored(k)[i] = handed[k][received[k][i]] /\ Stored(k)[j] = handed[k][received[k][j]]
    BY DEF Stored
  <2>2. /\ received[k][i] \in DOMAIN handed[k] /\ received[k][j] \in DOMAIN handed[k]
        /\ received[k][i] < received[k][j]
    BY <1>1, StoredIsHanded
  <2> QED
    BY <1>1, <2>1, <2>2 DEF HandedInv
<1> QED
  BY <1>1, HandedInvInvariant, LokiInv, PTL

-----------------------------------------------------------------------------
(* The account of what is lost                                              *)

\* Every line that counts as submitted was handed over with a key of its
\* container.
SubmittedInv ==
    \A c \in Containers : \A x \in submitted[c] :
        \E k \in Keys : k[1] = c /\ \E n \in DOMAIN handed[k] : handed[k][n].line = x

\* A line that is read and sent keeps the invariant.
LEMMA ReadSubmittedInv ==
  ASSUME StreamsP!TypeOK, HandedInv, SubmittedInv, NEW h \in Streams!Goroutines, ReadAndSend(h)
  PROVE  SubmittedInv'
<1> DEFINE q == LabelsKey(h[1], next[h])
           a == HandedOver(h)
<1>1. q \in Keys /\ q[1] = h[1] /\ a.line = next[h] /\ h[1] \in Containers
  BY DEF Keys, LabelsKey, Streams!Goroutines, HandedOver
<1>2. /\ submitted' = [submitted EXCEPT ![h[1]] = @ \cup {next[h]}]
      /\ handed' = [handed EXCEPT ![q] = Append(@, a)]
  BY DEF ReadAndSend, Streams!Read
<1> HIDE DEF q, a
<1>3. /\ handed[q] \in Seq(HandedLine) /\ handed'[q] = Append(handed[q], a)
      /\ \A k \in Keys : k # q => handed'[k] = handed[k]
  BY <1>1, <1>2 DEF HandedInv
<1>4. /\ \A n \in DOMAIN handed[q] : n \in DOMAIN handed'[q] /\ handed'[q][n] = handed[q][n]
      /\ Len(handed[q]) + 1 \in DOMAIN handed'[q]
      /\ handed'[q][Len(handed[q]) + 1] = a
  <2>1. PICK l \in Nat : l = Len(handed[q]) /\ DOMAIN handed[q] = 1 .. l
    BY <1>3, LenProperties
  <2>2. \A s \in Seq(HandedLine) :
          /\ DOMAIN Append(s, a) = 1 .. Len(s) + 1
          /\ \A i \in 1 .. Len(s) : Append(s, a)[i] = s[i]
          /\ Append(s, a)[Len(s) + 1] = a
    OBVIOUS
  <2> QED
    BY <1>3, <2>1, <2>2
<1>5. ASSUME NEW c \in Containers, NEW x \in submitted'[c]
      PROVE  \E k \in Keys : k[1] = c /\ \E n \in DOMAIN handed'[k] : handed'[k][n].line = x
  <2>1. x \in submitted[c] \/ (c = h[1] /\ x = next[h])
    BY <1>2, <1>5 DEF StreamsP!TypeOK
  <2>2. CASE x \in submitted[c]
    <3>1. PICK k \in Keys : k[1] = c /\ \E n \in DOMAIN handed[k] : handed[k][n].line = x
      BY <2>2 DEF SubmittedInv
    <3>2. \A n \in DOMAIN handed[k] : n \in DOMAIN handed'[k] /\ handed'[k][n] = handed[k][n]
      BY <1>3, <1>4
    <3> QED
      BY <3>1, <3>2
  <2>3. CASE c = h[1] /\ x = next[h]
    BY <1>1, <1>4, <2>3
  <2> QED
    BY <2>1, <2>2, <2>3
<1> QED
  BY <1>5 DEF SubmittedInv

\* Each step keeps it.
LEMMA NextSubmittedInv ==
  ASSUME StreamsP!TypeOK, HandedInv, SubmittedInv, [Next]_vars
  PROVE  SubmittedInv'
<1>1. CASE UNCHANGED <<submitted, handed>>
  BY <1>1 DEF SubmittedInv
<1> USE DEF StreamsStep, LokiStep, historyVars, streamsVars
<1>2. CASE BatchLoop \/ TickFires \/ MainStops \/ MainExits \/ UNCHANGED vars
  BY <1>1, <1>2 DEF BatchLoop, TickFires, MainStops, MainExits, vars
<1>3. CASE EnvironmentChanges \/ (\E c \in Containers : ContainerWrites(c)) \/ MainCancels
  BY <1>1, <1>3 DEF EnvironmentChanges, ContainerWrites, MainCancels, Streams!MainCancels,
     Streams!DockerGoesOrComes, Streams!ContainerChanges, Streams!ContainerWrites
<1>4. CASE Manager
  BY <1>1, <1>4 DEF Manager, Streams!Manager, Streams!ListFails, Streams!ListAnswers,
     Streams!Apply, Streams!Tick, Streams!Return
<1>5. ASSUME NEW g \in Streams!Goroutines, StreamerStarts(g) \/ StreamerAlone(g)
      PROVE  SubmittedInv'
  BY <1>1, <1>5 DEF StreamerStarts, StreamerAlone, Streams!Start, Streams!OpenAnswers,
     Streams!OpenFails, Streams!AfterOpenFailed, Streams!StreamEnds, Streams!AfterStream,
     Streams!Wake, Streams!SleepCancelled
<1> QED
  BY <1>2, <1>3, <1>4, <1>5, ReadSubmittedInv DEF Next, Streamer, Main

\* The invariant about what was submitted holds throughout.
LEMMA SubmittedInvInvariant == Spec => []SubmittedInv
<1>1. Init => SubmittedInv
  BY DEF Init, Streams!Init, SubmittedInv
<1>2. StreamsP!LineInv /\ HandedInv /\ SubmittedInv /\ [Next]_vars => SubmittedInv'
  BY NextSubmittedInv DEF StreamsP!LineInv
<1> QED
  BY <1>1, <1>2, HandedInvInvariant, StreamsInv, PTL DEF Spec

\* The lines of a container that are read, and neither in Loki nor on the way,
\* are the images of lines that the client has lost.
LEMMA MissingAreLost ==
  ASSUME HandedInv, SubmittedInv, NEW c \in Containers, IsFiniteSet(LokiP!Lost)
  PROVE  /\ IsFiniteSet(submitted[c] \ Reached(c))
         /\ Cardinality(submitted[c] \ Reached(c)) <= Cardinality(LokiP!Lost)
<1> DEFINE f == [l \in LokiP!Lost |-> handed[l[1]][l[2]].line]
           S == {f[l] : l \in LokiP!Lost}
<1>1. f \in Surjection(LokiP!Lost, S)
  BY DEF Surjection
<1>2. IsFiniteSet(S) /\ Cardinality(S) <= Cardinality(LokiP!Lost)
  BY <1>1, FS_Surjection
<1>3. ASSUME NEW x \in submitted[c], x \notin Reached(c)
      PROVE  x \in S
  <2>1. PICK k \in Keys : k[1] = c /\ \E n \in DOMAIN handed[k] : handed[k][n].line = x
    BY DEF SubmittedInv
  <2>2. PICK n \in DOMAIN handed[k] : handed[k][n].line = x
    BY <2>1
  <2>3. n \notin Range(received[k]) /\ ~Loki!HoldsLine(k, n)
    BY <1>3, <2>1, <2>2 DEF Reached
  <2>4. n \in 1 .. sent[k] /\ n \in Nat
    BY LenProperties DEF HandedInv
  <2>5. <<k, n>> \in LokiP!Lost
    BY <2>3, <2>4 DEF LokiP!Lost, LokiP!HoldsLine, Loki!HoldsLine, Range, LokiP!Range, Loki!Range
  <2>6. f[<<k, n>>] = x
    BY <2>2, <2>5
  <2> QED
    BY <2>5, <2>6
<1>4. submitted[c] \ Reached(c) \in SUBSET S
  BY <1>3
<1> HIDE DEF f, S
<1>5. /\ IsFiniteSet(submitted[c] \ Reached(c))
      /\ Cardinality(submitted[c] \ Reached(c)) <= Cardinality(S)
  BY <1>2, <1>4, FS_Subset
<1>6. /\ Cardinality(submitted[c] \ Reached(c)) \in Nat /\ Cardinality(S) \in Nat
      /\ Cardinality(LokiP!Lost) \in Nat
  BY <1>2, <1>5, FS_CardinalityType
<1> QED
  BY <1>2, <1>5, <1>6

\* Until Stop is called, what a container has written and a streamer has read
\* is in Loki, or on its way there, or one of the lines that the client counts
\* as dropped or as part of a failed push.
THEOREM LossAccount == Spec => []LossIsCounted
<1>1. ASSUME LokiP!TypeOK, LokiP!LossInv, HandedInv, SubmittedInv
      PROVE  LossIsCounted
  <2> SUFFICES ASSUME ~done, NEW c \in Containers
               PROVE  Cardinality(submitted[c] \ Reached(c)) <= dropped + failed
    BY DEF LossIsCounted
  <2>1. IsFiniteSet(LokiP!Lost) /\ Cardinality(LokiP!Lost) <= dropped + failed
    <3>1. LokiP!Cardinality(LokiP!Lost) = Cardinality(LokiP!Lost)
      BY Zenon DEF LokiP!Cardinality, Cardinality
    <3>2. LokiP!IsFiniteSet(LokiP!Lost) = IsFiniteSet(LokiP!Lost)
      BY DEF LokiP!IsFiniteSet, IsFiniteSet
    <3> QED
      BY <1>1, <3>1, <3>2 DEF LokiP!LossInv
  <2>2. /\ IsFiniteSet(submitted[c] \ Reached(c))
        /\ Cardinality(submitted[c] \ Reached(c)) <= Cardinality(LokiP!Lost)
    BY <1>1, <2>1, MissingAreLost
  <2>3. /\ Cardinality(submitted[c] \ Reached(c)) \in Nat /\ Cardinality(LokiP!Lost) \in Nat
        /\ dropped \in Nat /\ failed \in Nat
    BY <1>1, <2>1, <2>2, FS_CardinalityType DEF LokiP!TypeOK
  <2> QED
    BY <2>1, <2>2, <2>3
<1> QED
  BY <1>1, HandedInvInvariant, SubmittedInvInvariant, LokiInv, PTL

=============================================================================
