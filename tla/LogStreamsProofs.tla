-------------------------- MODULE LogStreamsProofs --------------------------
(***************************************************************************)
(* Log collection, for any number of containers, goroutines and lines: who *)
(* may run besides the streamer in the manager's map, and what a streamer  *)
(* has handed over when it reads from a new connection.                    *)
(***************************************************************************)
EXTENDS LogStreams, TLAPS

-----------------------------------------------------------------------------
(* The lines of a streamer                                                  *)

(* From its start on, a streamer has handed over born .. last, and asks for *)
(* the line after last or, once it has sent one, for last again; only the   *)
(* first line of a connection can be that one.                              *)
LinesOf(g) ==
    /\ pc[g] \notin {"start", "exited"} =>
          /\ born[g] >= 1
          /\ since[g] \in {last[g], last[g] + 1}
          /\ since[g] >= born[g]
          /\ born[g] .. last[g] \subseteq submitted[g[1]]
    /\ pc[g] = "reading" =>
          /\ next[g] \in {last[g], last[g] + 1}
          /\ next[g] >= born[g]
          /\ gotData[g] => next[g] = last[g] + 1

\* The inductive invariant about the lines of each streamer.
LineInv == TypeOK /\ \A g \in Goroutines : LinesOf(g)

\* Each goroutine has a container.
LEMMA ContainerOf == \A g \in Goroutines : g[1] \in Containers
  BY DEF Goroutines

\* It holds at first.
LEMMA InitLineInv == Init => LineInv
<1> SUFFICES ASSUME Init PROVE LineInv
  OBVIOUS
<1>1. 0 \in 0 .. MaxLines /\ 0 \in 0 .. MaxLines + 1
  BY MaxLinesAssumption
<1>2. TypeOK
  BY <1>1 DEF Init, TypeOK, ManagerState, StreamerState
<1>3. \A g \in Goroutines : LinesOf(g)
  BY DEF Init, LinesOf
<1> QED
  BY <1>2, <1>3 DEF LineInv

\* Steps of Docker, the containers and main keep the invariant.
LEMMA EnvironmentLineInv ==
  ASSUME LineInv, Environment
  PROVE  LineInv'
<1> USE MaxLinesAssumption DEF LineInv, TypeOK, LinesOf, mgrVars, streamVars, dockerVars
<1>1. CASE DockerGoesOrComes
  BY <1>1 DEF DockerGoesOrComes
<1>2. ASSUME NEW c \in Containers, ContainerChanges(c)
      PROVE  LineInv'
  BY <1>2 DEF ContainerChanges
<1>3. ASSUME NEW c \in Containers, ContainerWrites(c)
      PROVE  LineInv'
  <2>1. written' \in [Containers -> 0 .. MaxLines]
    BY <1>3 DEF ContainerWrites
  <2> QED
    BY <1>3, <2>1 DEF ContainerWrites
<1>4. CASE MainCancels
  BY <1>4 DEF MainCancels
<1> QED
  BY <1>1, <1>2, <1>3, <1>4 DEF Environment

\* The manager starts goroutines, which have no lines yet, and cancels some.
LEMMA ManagerLineInv ==
  ASSUME LineInv, Manager
  PROVE  LineInv'
<1> USE DEF LineInv, TypeOK, LinesOf, mgrVars, streamVars, dockerVars, ManagerState
<1>1. CASE ListFails
  BY <1>1 DEF ListFails
<1>2. CASE ListAnswers
  BY <1>2 DEF ListAnswers
<1>3. CASE Apply
  <2>1. PICK started \in [ToStart -> Goroutines] :
          /\ streamers' = [c \in Containers |->
                              IF c \in ToStart THEN started[c]
                              ELSE IF Stays(c) THEN streamers[c] ELSE NoStreamer]
          /\ pc' = [g \in Goroutines |->
                       IF g[1] \in ToStart /\ g = started[g[1]] THEN "start" ELSE pc[g]]
    BY <1>3 DEF Apply
  <2>2. streamers' \in [Containers -> Goroutines \cup {NoStreamer}]
    BY <2>1
  <2>3. pc' \in [Goroutines -> StreamerState]
    BY <2>1 DEF StreamerState
  <2>4. cancelled' \in [Goroutines -> BOOLEAN]
    BY <1>3 DEF Apply, IsCancelled, Has
  <2>5. UNCHANGED <<dockerVars, ctxDone, streamVars, submitted>>
        /\ snapshot' = {} /\ mgr' = "wait"
    BY <1>3 DEF Apply
  <2>6. TypeOK'
    BY <2>2, <2>3, <2>4, <2>5
  <2>7. \A g \in Goroutines : pc'[g] = pc[g] \/ pc'[g] = "start"
    BY <2>1
  <2>8. \A g \in Goroutines : LinesOf(g)'
    BY <2>5, <2>7
  <2> QED
    BY <2>6, <2>8
<1>4. CASE Tick
  BY <1>4 DEF Tick
<1>5. CASE Return
  BY <1>5 DEF Return
<1> QED
  BY <1>1, <1>2, <1>3, <1>4, <1>5 DEF Manager

\* A goroutine that exits keeps no line.
LEMMA ExitLineInv ==
  ASSUME LineInv, NEW h \in Goroutines, Exit(h),
         UNCHANGED <<dockerVars, ctxDone, mgrVars, submitted>>
  PROVE  LineInv'
BY MaxLinesAssumption
   DEF LineInv, TypeOK, LinesOf, mgrVars, dockerVars, Exit, Go, StreamerState

\* Reading a line extends what the streamer has handed over by that line.
LEMMA ReadLineInv ==
  ASSUME LineInv, NEW h \in Goroutines, Read(h)
  PROVE  LineInv'
<1> USE MaxLinesAssumption, ContainerOf DEF LineInv, TypeOK
<1>1. /\ LinesOf(h) /\ pc[h] = "reading"
      /\ next[h] \in 1 .. MaxLines
      /\ next[h] <= written[h[1]]
      /\ born[h] \in Nat /\ last[h] \in Nat
  BY DEF Read, LinesOf
<1>2. TypeOK'
  <2>1. submitted' \in [Containers -> SUBSET (1 .. MaxLines)]
    BY <1>1 DEF Read
  <2>2. /\ since' \in [Goroutines -> 0 .. MaxLines + 1]
        /\ last' \in [Goroutines -> 0 .. MaxLines]
        /\ next' \in [Goroutines -> 0 .. MaxLines + 1]
        /\ gotData' \in [Goroutines -> BOOLEAN]
    BY <1>1 DEF Read
  <2> QED
    BY <2>1, <2>2 DEF Read, dockerVars, mgrVars
<1>3. LinesOf(h)'
  <2>1. /\ last'[h] = next[h] /\ since'[h] = next[h] /\ next'[h] = next[h] + 1
        /\ born' = born /\ pc' = pc
        /\ submitted'[h[1]] = submitted[h[1]] \cup {next[h]}
    BY DEF Read
  <2>2. /\ born[h] >= 1
        /\ born[h] .. last[h] \subseteq submitted[h[1]]
        /\ next[h] \in {last[h], last[h] + 1} /\ next[h] >= born[h]
    BY <1>1 DEF LinesOf
  <2>3. born[h] .. next[h] \subseteq submitted[h[1]] \cup {next[h]}
    BY <1>1, <2>2
  <2> QED
    BY <1>1, <2>1, <2>2, <2>3 DEF LinesOf
<1>4. ASSUME NEW g \in Goroutines, g # h
      PROVE  LinesOf(g)'
  <2>1. /\ pc' = pc /\ born' = born /\ last'[g] = last[g]
        /\ since'[g] = since[g] /\ next'[g] = next[g] /\ gotData'[g] = gotData[g]
        /\ submitted[g[1]] \subseteq submitted'[g[1]]
    BY <1>4 DEF Read
  <2> QED
    BY <2>1 DEF LinesOf
<1> QED
  BY <1>2, <1>3, <1>4

\* Each step of a streamer keeps the invariant.
LEMMA StreamerLineInv ==
  ASSUME LineInv, NEW h \in Goroutines, Streamer(h)
  PROVE  LineInv'
<1> USE MaxLinesAssumption, ContainerOf
    DEF LineInv, TypeOK, LinesOf, Go, mgrVars, streamVars, dockerVars, StreamerState
<1>1. CASE Start(h)
  <2>1. /\ written[h[1]] \in 0 .. MaxLines
        /\ written[h[1]] + 1 \in 0 .. MaxLines + 1
    OBVIOUS
  <2>2. TypeOK'
    BY <1>1, <2>1 DEF Start
  <2>3. \A g \in Goroutines : LinesOf(g)'
    BY <1>1, <2>1 DEF Start
  <2> QED
    BY <2>2, <2>3
<1>2. CASE OpenAnswers(h)
  BY <1>2 DEF OpenAnswers
<1>3. CASE OpenFails(h)
  BY <1>3 DEF OpenFails
<1>4. CASE AfterOpenFailed(h)
  <2>1. CASE ContainerRunning(h)
    BY <1>4, <2>1 DEF AfterOpenFailed
  <2>2. CASE ~ContainerRunning(h)
    BY <1>4, <2>2, ExitLineInv DEF AfterOpenFailed
  <2> QED
    BY <2>1, <2>2
<1>5. CASE Read(h)
  BY <1>5, ReadLineInv
<1>6. CASE StreamEnds(h)
  BY <1>6 DEF StreamEnds
<1>7. CASE AfterStream(h)
  <2>1. CASE Stopped(h) \/ (~gotData[h] /\ ~ContainerRunning(h))
    BY <1>7, <2>1, ExitLineInv DEF AfterStream
  <2>2. CASE ~(Stopped(h) \/ (~gotData[h] /\ ~ContainerRunning(h)))
    BY <1>7, <2>2 DEF AfterStream
  <2> QED
    BY <2>1, <2>2
<1>8. CASE Wake(h)
  BY <1>8 DEF Wake
<1>9. CASE SleepCancelled(h)
  BY <1>9, ExitLineInv DEF SleepCancelled
<1> QED
  BY <1>1, <1>2, <1>3, <1>4, <1>5, <1>6, <1>7, <1>8, <1>9 DEF Streamer

\* The invariant about lines holds throughout.
LEMMA LineInvInvariant == Spec => []LineInv
<1>1. LineInv /\ [Next]_vars => LineInv'
  <2>1. LineInv /\ UNCHANGED vars => LineInv'
    BY DEF LineInv, TypeOK, LinesOf, vars, dockerVars, mgrVars, streamVars
  <2> QED
    BY <2>1, EnvironmentLineInv, ManagerLineInv, StreamerLineInv DEF Next
<1> QED
  BY <1>1, InitLineInv, PTL DEF Spec

\* The manager, the streamers and the history keep their types.
THEOREM TypeCorrect == Spec => []TypeOK
<1>1. LineInv => TypeOK
  BY DEF LineInv
<1> QED
  BY <1>1, LineInvInvariant, PTL

\* A streamer that reconnects, however often and wherever the connection broke,
\* neither passes over a line nor repeats more than the last one.
THEOREM ReconnectContinues == Spec => []ContinuesFromLastLine
<1>1. LineInv => ContinuesFromLastLine
  BY DEF LineInv, LinesOf, ContinuesFromLastLine
<1> QED
  BY <1>1, LineInvInvariant, PTL

-----------------------------------------------------------------------------
(* The map of the manager                                                   *)

(* The entry of a container is a goroutine of that container; a slot whose  *)
(* goroutine has ended carries no cancel over to the next one.              *)
MapInv ==
    /\ \A c \in Containers : Has(c) => streamers[c][1] = c
    /\ \A g \in Goroutines : pc[g] = "exited" => ~cancelled[g]
    /\ NoOrphanStreamer
    /\ MapHoldsWorkingStreamers

\* It holds at first.
LEMMA InitMapInv == Init => MapInv
  BY DEF Init, MapInv, Has, NoOrphanStreamer, MapHoldsWorkingStreamers, Alive

\* Steps that leave the map and the cancels alone keep MapInv as long as the
\* live goroutines stay the same ones.
LEMMA MapUntouched ==
  ASSUME MapInv,
         UNCHANGED <<streamers, cancelled>>,
         mgr = "returned" => mgr' = "returned",
         \A g \in Goroutines : pc'[g] = "exited" <=> pc[g] = "exited"
  PROVE  MapInv'
BY DEF MapInv, Has, NoOrphanStreamer, MapHoldsWorkingStreamers, Alive

\* The update of the map: every goroutine that is alive and not cancelled
\* afterwards was started now or stays in the map.
LEMMA ApplyMapInv ==
  ASSUME TypeOK, MapInv, Apply
  PROVE  MapInv'
<1>1. PICK started \in [ToStart -> Goroutines] :
        /\ \A c \in ToStart : started[c] \in Free(c)
        /\ streamers' = [c \in Containers |->
                            IF c \in ToStart THEN started[c]
                            ELSE IF Stays(c) THEN streamers[c] ELSE NoStreamer]
        /\ pc' = [g \in Goroutines |->
                     IF g[1] \in ToStart /\ g = started[g[1]] THEN "start" ELSE pc[g]]
  BY DEF Apply
<1>2. /\ cancelled' = [g \in Goroutines |->
                          cancelled[g] \/ (IsCancelled(g[1]) /\ g = streamers[g[1]])]
      /\ mgr = "apply" /\ mgr' = "wait"
  BY DEF Apply
<1>3. ASSUME NEW c \in ToStart
      PROVE  /\ started[c] \in Goroutines /\ started[c][1] = c
             /\ pc[started[c]] = "exited" /\ ~cancelled[started[c]]
             /\ c \in Containers /\ c \in snapshot
  BY <1>1 DEF Free, MapInv, ToStart, TypeOK
<1>4. ASSUME NEW c \in Containers, Has(c)'
      PROVE  streamers'[c][1] = c /\ ~cancelled'[streamers'[c]]
  <2>1. CASE c \in ToStart
    <3>1. streamers'[c] = started[c]
      BY <1>1, <2>1
    <3>2. ~IsCancelled(c)
      BY <1>3, <2>1 DEF IsCancelled
    <3> QED
      BY <1>2, <1>3, <2>1, <3>1, <3>2
  <2>2. CASE c \notin ToStart
    <3>1. Stays(c) /\ streamers'[c] = streamers[c]
      BY <1>1, <1>4, <2>2 DEF Has
    <3>2. Has(c) /\ streamers[c] \in Goroutines /\ streamers[c][1] = c
      BY <3>1 DEF Stays, Has, MapInv, TypeOK
    <3>3. ~cancelled[streamers[c]] /\ ~IsCancelled(c)
      BY <1>2, <3>1, <3>2 DEF MapInv, MapHoldsWorkingStreamers, Stays, IsCancelled
    <3> QED
      BY <1>2, <3>1, <3>2, <3>3
  <2> QED
    BY <2>1, <2>2
<1>5. ASSUME NEW g \in Goroutines
      PROVE  /\ pc'[g] = "exited" => ~cancelled'[g]
             /\ Alive(g)' /\ ~cancelled'[g] => streamers'[g[1]] = g
  <2> DEFINE c == g[1]
  <2>1. c \in Containers
    BY ContainerOf
  <2>2. pc'[g] = "exited" => pc[g] = "exited"
    BY <1>1
  <2>3. pc[g] = "exited" => ~cancelled'[g]
    BY <1>2 DEF MapInv, IsCancelled
  <2>4. CASE c \in ToStart /\ g = started[c]
    BY <1>1, <2>1, <2>2, <2>3, <2>4
  <2>5. CASE ~(c \in ToStart /\ g = started[c])
    <3>1. SUFFICES ASSUME pc[g] # "exited", ~cancelled'[g]
                   PROVE  streamers'[c] = g
      BY <1>1, <2>2, <2>3, <2>5 DEF Alive
    <3>2. ~cancelled[g] /\ ~(IsCancelled(c) /\ g = streamers[c])
      BY <1>2, <3>1
    <3>3. streamers[c] = g
      BY <3>1, <3>2 DEF MapInv, NoOrphanStreamer, Alive
    <3>4. Stays(c)
      BY <3>1, <3>2, <3>3, NoStreamerAssumption DEF IsCancelled, Stays, Has
    <3>5. c \notin ToStart
      BY <3>4 DEF ToStart
    <3> QED
      BY <1>1, <2>1, <3>3, <3>4, <3>5
  <2> QED
    BY <2>4, <2>5
<1> QED
  BY <1>4, <1>5 DEF MapInv, NoOrphanStreamer, MapHoldsWorkingStreamers

\* The manager returns, and leaves the map as it is.
LEMMA ReturnMapInv ==
  ASSUME TypeOK, MapInv, Return
  PROVE  MapInv'
BY DEF TypeOK, MapInv, Return, Has, NoOrphanStreamer, MapHoldsWorkingStreamers, Alive

\* A goroutine that exits leaves the map as it is and takes its cancel away.
LEMMA ExitMapInv ==
  ASSUME TypeOK, MapInv, NEW h \in Goroutines, Exit(h), UNCHANGED mgrVars
  PROVE  MapInv'
<1>1. /\ pc' = [pc EXCEPT ![h] = "exited"]
      /\ cancelled' = [cancelled EXCEPT ![h] = FALSE]
      /\ streamers' = streamers /\ mgr' = mgr
  BY DEF Exit, Go, mgrVars
<1>2. \A g \in Goroutines : /\ g # h => pc'[g] = pc[g] /\ cancelled'[g] = cancelled[g]
                            /\ g = h => pc'[g] = "exited" /\ ~cancelled'[g]
  BY <1>1 DEF TypeOK
<1>3. \A c \in Containers : Has(c) => streamers[c] \in Goroutines
  BY DEF TypeOK, Has
<1> QED
  BY <1>1, <1>2, <1>3 DEF MapInv, Has, NoOrphanStreamer, MapHoldsWorkingStreamers, Alive

\* Each step of a streamer keeps the invariant of the map.
LEMMA StreamerMapInv ==
  ASSUME TypeOK, MapInv, NEW h \in Goroutines, Streamer(h)
  PROVE  MapInv'
<1>1. CASE Start(h) \/ OpenAnswers(h) \/ OpenFails(h) \/ Read(h) \/ StreamEnds(h) \/ Wake(h)
  BY <1>1, MapUntouched
     DEF TypeOK, Start, OpenAnswers, OpenFails, Read, StreamEnds, Wake, Go, mgrVars, streamVars
<1>2. CASE AfterOpenFailed(h)
  <2>1. CASE ContainerRunning(h)
    BY <1>2, <2>1, MapUntouched DEF TypeOK, AfterOpenFailed, Go, mgrVars
  <2>2. CASE ~ContainerRunning(h)
    BY <1>2, <2>2, ExitMapInv DEF AfterOpenFailed
  <2> QED
    BY <2>1, <2>2
<1>3. CASE AfterStream(h)
  <2>1. CASE Stopped(h) \/ (~gotData[h] /\ ~ContainerRunning(h))
    BY <1>3, <2>1, ExitMapInv DEF AfterStream
  <2>2. CASE ~(Stopped(h) \/ (~gotData[h] /\ ~ContainerRunning(h)))
    BY <1>3, <2>2, MapUntouched DEF TypeOK, AfterStream, Go, mgrVars
  <2> QED
    BY <2>1, <2>2
<1>4. CASE SleepCancelled(h)
  BY <1>4, ExitMapInv DEF SleepCancelled
<1> QED
  BY <1>1, <1>2, <1>3, <1>4 DEF Streamer

\* Each step keeps it.
LEMMA NextMapInv == TypeOK /\ MapInv /\ [Next]_vars => MapInv'
<1> SUFFICES ASSUME TypeOK, MapInv, [Next]_vars
             PROVE  MapInv'
  OBVIOUS
<1>1. CASE Environment \/ UNCHANGED vars
  BY <1>1, MapUntouched
     DEF Environment, DockerGoesOrComes, ContainerChanges, ContainerWrites, MainCancels,
         vars, mgrVars
<1>2. CASE ListFails \/ ListAnswers \/ Tick
  BY <1>2, MapUntouched DEF ListFails, ListAnswers, Tick
<1>3. CASE Apply
  BY <1>3, ApplyMapInv
<1>4. CASE Return
  BY <1>4, ReturnMapInv
<1>5. CASE \E g \in Goroutines : Streamer(g)
  BY <1>5, StreamerMapInv
<1> QED
  BY <1>1, <1>2, <1>3, <1>4, <1>5 DEF Next, Manager

\* The invariant of the map holds throughout.
LEMMA MapInvInvariant == Spec => []MapInv
  BY InitMapInv, NextMapInv, TypeCorrect, PTL DEF Spec

\* A goroutine that was not told to stop is the one in the map: no container
\* is collected twice and no streamer is out of the manager's reach.
THEOREM NoOrphans == Spec => []NoOrphanStreamer
<1>1. MapInv => NoOrphanStreamer
  BY DEF MapInv
<1> QED
  BY <1>1, MapInvInvariant, PTL

\* The map never holds a streamer that was told to stop while Run runs.
THEOREM MapIsWorking == Spec => []MapHoldsWorkingStreamers
<1>1. MapInv => MapHoldsWorkingStreamers
  BY DEF MapInv
<1> QED
  BY <1>1, MapInvInvariant, PTL

=============================================================================
