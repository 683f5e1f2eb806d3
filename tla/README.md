# Verification of logporter

logporter is a Prometheus exporter for Docker: one Go process that collects
container metrics, serves a dashboard, follows container logs into Loki and
into the browser, and checks images for updates. This directory models its
concurrent parts in TLA+, checks the models with TLC and proves theorems about
them with TLAPS. `PROJECT.json` maps every definition to the lines it stands for.

Paths below are relative to `src/`. `tlc -config X.cfg M` checks a run,
`tlapm M.tla` a proof module.

## 1. Inventory

| Component (code) | State | Operations | Talks to | Correct when |
|---|---|---|---|---|
| Loki client (`internal/logs/loki.go`) | channel `entries`, `done`, `dropped`; the batch, its order and size | `Send`, `batchLoop`, `push`, `Stop` | streamers call `Send`; pushes to Loki over HTTP; `main` calls `Stop` | order is kept, no line twice, none lost without a trace, a line does not wait for ever, `Stop` ends |
| Log collection (`internal/logs/stream.go`) | the manager's map of streamers; per streamer its context, `done`, last timestamp | `Run`, `refresh`, `streamGetLogs`, `streamParseLogs`, `containerRunning`, `sleepCtx` | Docker; `Send` | one streamer per running container, all of them stoppable, a reconnection continues |
| Metrics cache (`main.go` 320-400) | `CacheData`, `CacheTime`, `CacheValid`, `CacheMutex` | `refreshMetrics` and the handlers that call it | the collector; concurrent HTTP requests | answers are never empty, collections exclude one another, every request is answered |
| Metrics collector (`internal/metrics/metrics.go`, `prometheus.go`, `dashboard.go`) | `Labels`, current and previous samples and their times, inspect data; `dataMu` | `GetMetrics`, the text, `DashboardData` | Docker; the cache; the workers share `dataMu` | rates divide matching samples; every sample is of a listed container; the share of the host agrees with the rows |
| Image list and update worker (`internal/metrics/images.go`) | `imageMetrics`, `imageUpdateMetrics` | ticker, `ImageMetricsWorker`, a goroutine per image | collections replace its list; registries | the WaitGroup counts the goroutines; the check is repeated; the result is complete |
| Volume worker (`internal/metrics/volumes.go`) | `volumeMetrics` | ticker, one store under `dataMu` | Docker | its store is atomic |
| Update checks (`internal/updates`) | none | semantic and digest comparison | registries | the verdict is that of the version order |
| Live stream, server (`internal/logs/sse.go`, `reader.go`, `main.go`) | per request: last timestamp, the ping goroutine | `StreamSSE`, `ReadContainerLogs`, frames | Docker; the browser | order, no repetition, no gap, cut frames do not derail the reader |
| Log viewer, sessions (`internal/dashboard/dashboard.js` 885-1062, 1762-1790) | the open container, `ES`, `pollTimer`, last timestamp | open, close, clear, reload, follow, history, stream, poll | the two endpoints; the user | one stream and the right one, whatever answers late |
| Log viewer, kept lines (`dashboard.js` 814-902, 1171-1620) | the lines, prefix sums of heights, rows in the document, filter, timeline | `addLine`, `dropOldestLines`, `applyLogFilter`, `vpRefluid`, `vpRender`, a click on the timeline | the sessions | the four views of the lines agree |
| Tables of the dashboard (`dashboard.js` 1-380, 613-671, `dashboard.tmpl`, `metrics/dashboard.go` 151) | rows, sort, filter, collapsed groups, the button for all of them | refresh, sort, filter, collapse, load | the cache; `localStorage` | a refresh keeps what the user chose; rows stay in their groups |
| Authentication (`internal/auth`) | configuration and secret of the process; the cookie in the browser | `Setup`, login, logout, middleware | every handler | no handler without a valid token; a session lasts as long as configured |
| Process life cycle (`main.go` 190-300, 490-534) | the root contexts | start, signal, shutdown | everything above | what is shut down ends, in an order that loses nothing it need not |
| Build, deployment, Grafana and Prometheus files | none | none | none | configuration only |

What is hard here: the select statement of `batchLoop`, which chooses at random
between a full channel, a tick and shutdown; containers that stop, pause and
restart between the list and its use; two locks of the cache that are never
held together and a flag read under neither; collections that fail half-way and
must leave times and samples that match; a slice read three times without its
lock; answers of requests that nobody cancels. Every such place is a hazard in
`PROJECT.json`, with the properties that watch it or the reason why none does.

## 2. Modules

| Module | Models | Builds on |
|---|---|---|
| `LogDelivery` | what a sender may expect of the Loki client: FIFO per stream, at most once, a line turned away only when the client is full or closing | |
| `LokiClient` | `loki.go` | implements `LogDelivery` |
| `LogStreams` | `stream.go` with Docker and `main` as environment | |
| `LogPipeline` | `main.go` 302-311 and 516-533: streamers, client and shutdown | composes `LogStreams` and `LokiClient` |
| `MetricsCache` | `refreshMetrics` and its callers | |
| `Collector` | `GetMetrics`, and the rates and the share of the host of `DashboardData` | |
| `ImageUpdates` | `images.go` beside the collections | |
| `VersionCheck` | `semantic.go`, `digest.go` and the order in which `images.go` tries them | |
| `LiveLogs` | `dashboard.js` sessions and polls, the logs endpoint, `StreamSSE` | |
| `LogFrames` | `reader.go` and the status of the logs endpoint | |
| `LogView` | the lines the viewer keeps and draws | |
| `Tables` | the table of containers | |
| `Session` | `auth.go` and the cookie in the browser | |
| `MCParts` | a run over `LiveLogs`, `LogFrames`, `LogView`, `Tables`, `Session`, `VersionCheck` | all six |
| `MCCollector` | the symmetry of containers, for TLC | `Collector` |
| `MCLogView` | kinds of lines for TLC | `LogView` |
| `Sums` | lemmas on sums, least elements and induction over finite sets | |
| `*Proofs` | theorems | their component; `PartsProofs` those of the parts of `MCParts` |

How state and actions correspond to the code:

- **LokiClient.** A line is a key and a number. `Enqueue`, `GiveUp` and `Drop`
  are the three ways out of the select in `Send`; `TakeEntry`, `TakeTick` and
  `TakeDone` the three cases of `batchLoop`. A push is two steps, because `Send`
  and `Stop` go on while it is under way. `sent`, `received`, `failed` and
  `atStop` are history. Labels, timestamps and JSON are left out.
- **LogStreams.** A timestamp is the position of a line. Goroutines have a
  container and a slot; a slot is used again after its goroutine has returned.
  The update of the map in `refresh` is one step, since what it does for one
  container touches nothing of another. "paused" stands for the states in which
  the list and inspect disagree about running. All calls fail while the daemon
  is away, or once the context is cancelled.
- **LogPipeline.** Each component keeps its variables and its actions. The
  callback of `streamParseLogs` is one step of both: the streamer reads a line
  and calls `Send` with the key of its container and output. `main` cancels the
  streamers and then stops the client, without waiting for the former; when it
  exits, all goroutines are gone. `handed` and `spawned` are history: which
  streamer and which connection a line came from.
- **MetricsCache.** The assignment of `CacheValid` is split into the evaluation
  and the write, because many hold the read lock together; its test comes after
  the unlock. A collection is a number.
- **Collector.** One CPU counter stands for all counters, which are saved,
  compared and hidden alike. A sample carries, as ghosts, what the container had
  really spent and when its collection began. Any call may fail at any time. A
  body that cannot be parsed gives a sample of zeros. `NumberCPU` is read once,
  before anything else, and zero when that failed. `WithRate` are the rows of
  `cpuContainerPerc`, `Counted`, `HostDelta` and `HostShown` the loop and the
  guards of `cpuHostPerc`, which repeat them. What `prometheus.go` writes, the
  usage of images and volumes and the other totals of a page are left out.
- **ImageUpdates.** The reads of the slice (length, length for `wg.Add`, pointer
  and length of the loop) are separate steps, as the build may perform them. A
  length longer than the list that the pointer leads to starts `stray`
  goroutines on whatever follows in memory.
- **VersionCheck.** A tag is its place in the order of versions, 0 for none, and
  a name, so that two tags may be the same version. The registry lists any tags
  in any order, or fails, which the code takes for an empty list. One context
  bounds both checks.
- **LiveLogs.** A line is a container and a number; two lines share a second,
  because `since` has whole seconds. A request is sent, read by the server, and
  answered or lost, each at any time; nothing cancels it. `late` is a ghost: it
  is set when an answer of another view has added lines, and the properties
  about lines are stated without it, because the code adds such lines.
- **LogFrames.** A log is a sequence of frames, of which any number of bytes
  arrive before the connection ends, in an orderly way or not. Only newlines and
  lengths matter in a content. Each step is one read or one call of the callback.
- **LogView.** The text of a line is its kind: whether the filter matches, and
  how many rows it takes and is expected to take when wrapped. Heights are in
  rows. Every handler of the browser is a step; typed text waits for its timer,
  a render for its animation frame, and the user may have scrolled anywhere.
  Every line has a time that parses, as all lines of the server have. Times
  arrive in any order: Docker sends a log in order, but a poll asks again from
  the whole second, polls overtake each other, and a late history answer adds
  lines that are older or of another container (`LiveLogs`). `tlMin` and `tlMax`
  are those of all lines since the last reset, dropped ones included, and a bin
  of the timeline begins anywhere between them, or after `tlMax` when there are
  more bins than milliseconds (`BinStarts`).
- **Tables.** The body of the table is a sequence of rows, headers of groups
  among them, as in the document. A name and one value stand for the columns.
  `unfiltered` and `fresh` are history for the two exceptions named below.
- **Session.** A process is its number, in place of its random secret. The
  duration has `Width` bits, in which `DASHBOARD_AUTH_TTL` times a second may
  overflow. Answers of login and logout arrive late and in any order, while
  time passes and the process is started again.

## 3. Runs

| Run | Bounds | Shows |
|---|---|---|
| `loki` | 2 keys, channel of 2, batches of 2, 2 lines per key | `PathInOrder`, `EveryLineAccountedFor`, `BatchPushedBeforeExit`, `ImplementsDelivery`, `LinesLeave`, `StopEnds` |
| `loki_stop` | 1 key, 3 lines | **violated:** `StopSendsRemaining` |
| `streams` | 1 container, 2 goroutines of it at once, 1 line | `NoOrphanStreamer`, `MapHoldsWorkingStreamers`, `CancelledStreamersEnd`, `RunWindsUp`, `RunningContainersAreCollected`, `StoppedContainersAreLeft` |
| `pipeline` | 1 container, 1 goroutine, 2 lines, one per output, each sent at most twice; channel of 1, batches of 2; 2 changes of Docker | `ContinuesFromLastLine`, `StoredAsWritten`, `LossIsCounted`, `LinesArrive` |
| `cache` | 2 scrapes and 1 page, TTL 2, 4 ticks | `AnswersHaveData`, `PageNotOlderThanMetrics`, `RequestsAreAnswered` |
| `collector` | 2 containers, 2 instants, 3 changes of their states, 2 units of CPU time | `MatchedSamples`, `RateNotOverstated`, `DataOfListed`, `HostShareIsOfRows` |
| `collector_count` | 1 container | **violated:** `RunningCountIsCurrent` |
| `images` | 3 images, 2 of them with a name | `CounterMatches`, `ResultComplete`, `WorkerComesBack` |
| `images_recur` | 2 images | **violated:** `ChecksRecur` |
| `parts` | see below | 14 properties of six parts |
| `live_gap` | 1 container, 1 session | **violated:** `FollowHasNoGap` |
| `view_rows` | limit of 3 lines, view of 2 rows | **violated:** `VisibleAreDrawn` |

The run `parts` checks six modules in one go: a behaviour is one of one part,
chosen at the start, while the variables of the others rest. The parts share no
state, so its states are the sum of theirs, not their product.

| Part | Bounds | Properties |
|---|---|---|
| `live` (`LiveLogs`) | 2 containers, 2 requests on their way, 3 lines, 3 sessions, 3 lines shown | `OneStreamOfView`, `ShownInOrderOnce`, `PollsLeaveNoGap` |
| `login` (`Session`) | lifetimes 0, 2 and 9 seconds in a duration of 5 bits and quarters of a second, 6 seconds, 2 processes, 2 answers on their way | `OnlySessionsAreServed`, `SessionsLast` |
| `kept` (`LogView`) | limit of 3 lines, 4 added, view of 2 rows, 1 row of margin, 3 kinds, 2 times in any order | `ForgetsTheSameLines`, `FilterIsIncremental`, `RowsShowTheirLines`, `ClickFindsTime` |
| `table` (`Tables`) | 4 containers in 3 groups, 3 states of Docker, 2 refreshes on their way | `GroupsKeepTheirRows`, `DisplayFollowsSettings` |
| `frames` (`LogFrames`) | 2 frames of 5 contents up to 4 long, frames cut at 2, 3 bytes of lines | `HeadersAreFound`, `AnswerIsWhole` |
| `version` (`VersionCheck`) | 5 tags, lists of up to 3, 2 digests | `UpdateMeansNewer` |

Why the bounds are enough:

- `loki`: a second key makes the batch's order matter. With two lines per key
  the channel is full, a line is dropped, a batch is pushed full and partial,
  and both remain possible while a push is under way.
- `streams`: containers do not interact, so one is as good as many; two
  goroutines are the cancelled one and its successor, and a third can only
  exist after one has returned. One line suffices, as what matters is whether
  the stream is open; lines are the matter of `pipeline` and of the theorems,
  which hold for any number.
- `pipeline`: two lines give a repeated and a next one after a reconnection, two
  outputs two keys of one batch, a channel of one a drop. Two changes let Docker
  go and come, or the container stop and start, under a streamer. A line that
  fills no batch shows whether the tick sends it.
- `cache`: two requests race, the third has the value overwritten under it; the
  clock expires the cache twice.
- `collector`: a window is two instants, and any number of collections may begin
  in each, failed ones between two good ones included. Two containers let one
  counter go back while another grows, or one be sampled for the first time
  beside another. Three changes stop and start one container and take the other
  away; two units of CPU time are one for each of two counters, or one before
  and one after a restart. `GetDockerInfo` has succeeded; the theorems hold as
  well when it failed, and for any number of all these.
- `images`: the race needs lists of different lengths, the early return an image
  without a name beside others.
- `live`: two requests give an answer overtaken by another, two containers an
  answer for another view, three sessions a reopened container. The server
  needs one `StreamSSE` call: one that the browser has left touches neither the
  view nor its successor. The history asks for two lines, so that of three one
  is out of it.
- `login`: the clock passes the end of a session and of the persistent cookie,
  2 seconds fit the duration and 9 do not; two answers overtake each other, one
  of them from the process before.
- `kept`: the fourth line drops the first; a line is flipped before or after
  that, and a line of three rows is higher than the view. Two times in any order
  make a log in which lines of the later time surround one of the earlier. In
  `view_rows` a line of four rows ends outside the view and its margin.
- `table`: one state of Docker has two rows in one group and single rows in
  others, one has a group less and another order of values, one is empty.
- `frames`: a frame that is cut, one that is empty, one with an empty line, each
  before another frame; the connection ends after each byte.
- `version`: an equal version of another name, a pre-release beside its release,
  a tag that is no version, in every order.

`CHECK_DEADLOCK FALSE` appears only where the system stops: after `Stop` or the
end of the process, when all requests are answered, after a panic, or where a
bound ends the run.

### Disagreements

- **`loki_stop`** (`loki.go:160`). `Stop` promises to "Send the remaining
  records", but the done case flushes the batch and returns without draining
  the channel, and the select may prefer it to waiting lines.
- **`collector_count`** (`metrics.go:599`). The number of running containers is
  read at start-up only, and contradicts the status series beside it.
- **`images_recur`** (`images.go:112`). The list is read without `dataMu` for
  `wg.Add` and again for the loop. A shorter list in between leaves the worker
  in `Wait` for ever; a longer one ends the process with a negative counter.
- **`live_gap`** (`sse.go:63`). With tail 0 Docker sends none of the lines that
  are there, whatever `since` says: what is written between the history, or a
  broken stream, and the new stream is never shown.
- **`view_rows`** (`dashboard.js:1295`). The end of the range that is drawn is
  the first line that *ends* beyond the margin, and excluded: a wrapped line
  that begins in view and ends more than 120 pixels below it leaves its place
  empty until the view has been scrolled near its end.

Observed while modelling, without a run, because nothing in the repository
promises otherwise:

- Of two requests that miss the cache the one that collected first may store
  last: the cache goes back to older data for a TTL (`main.go:345`). A request
  that found the cache expired may be answered from it all the same, because
  another one writes the shared `CacheValid` (`main.go:335`).
- A comment says that images are collected only once (`images.go:199`), but
  every collection lists them (`metrics.go:487`).
- A late history answer adds lines of another container (`dashboard.js:950`).
- Refreshes that overtake each other leave the older data in the tables
  (`dashboard.js:641`).
- A click that expands a group shows the rows the filter hides, until the filter
  is applied again (`dashboard.js:347`; `unfiltered` in `Tables`). After a page is
  loaded with all groups collapsed, the button says "Collapse all", because it
  is set before the groups are (`fresh`).
- A click on the timeline bisects the times of the kept lines
  (`dashboard.js:1540`), which are in order only as long as no poll has repeated
  lines and no late answer has added older ones. `ClickFindsTime` says what a
  click does in either case. If no line before the time clicked comes after one
  of that time or later (`InOrderAt`), it leads to the first shown line of that
  time or later. Otherwise it leads to *some* place where the log passes that
  time (`CrossesTime`): shown lines of that time may be before it, or it may be
  the end of the log although lines of that time are kept. A poll repeats lines
  of one second only, unless an older answer has moved `lastTs` back, so that
  the bins that begin in other seconds are not affected by it.
- When lines are dropped, the marked line is not shifted (`dashboard.js:869`);
  the first kept line may stay shown as the context of a dropped one; shown and
  total counts include dropped lines.
- A user name with `|` in it invalidates every token (`auth.go:104`); a
  `DASHBOARD_AUTH_TTL` that overflows a duration gives another lifetime, or none
  (`auth.go:54`; the premise `Fits`).
- A tag that is a version decides before the digest (`images.go:120`), while
  README.md:150 speaks of digests; a tag that is moved to another image is then
  not reported.

## 4. Fairness

Safety needs none. Liveness assumes, beside a runtime that schedules every
goroutine, what follows.

- `LokiClient`: strong fairness of each case of the select, because Go chooses
  at random among the ready ones and a case that is ready again and again is
  taken with probability one; weak fairness of the ticker and of a push, whose
  context ends after ten seconds. Nothing obliges a streamer to send or `main`
  to stop.
- `LogStreams`: weak fairness of the manager and of each streamer (tickers and
  timers fire, calls to Docker return), strong fairness of the manager's exit,
  which is a select as well. Nothing is assumed of Docker, the containers or
  `main`; where a property needs Docker to answer, it says so.
- `LogPipeline`: that of its components, for the composed steps. `LinesArrive`
  names its premises: Docker answers, the container runs, `main` serves, no push
  fails, the channel has room.
- `MetricsCache`: strong fairness of every request, because neither lock lets a
  waiting goroutine starve, and a collection ends after thirty seconds.
- `ImageUpdates`: strong fairness of the worker for the same reason, weak
  fairness of a collection's end and of the goroutines, whose checks have
  timeouts. Nothing forces a collection to begin.
- The parts have no liveness property: the user, the network and Docker owe
  nothing.

## 5. Proofs

The theorems hold for every value of the constants that meets the named
assumptions, which TLC evaluates in the passing runs:

- `SizesAssumption`, `MaxLinesAssumption`, `TimeAssumption`, `LinesAssumption`,
  `SessionAssumption`, `KeptAssumption`: sizes, bounds and times are natural
  numbers, positive where the code accepts nothing else (`NewClient`, the limit
  of kept lines, the height of a row).
- `NoStreamerAssumption`, `NoneAssumption`, `RequestsAssumption`: the value for
  "none" is no member of the set it is added to, and the pages are requests.
- `KeysAssumption`, `ContainersAssumption`, `ImagesAssumption`,
  `NumberAssumption`, `BoundsAssumption`: what is counted or summed over is finite;
  numbers and bounds are natural numbers; a named image is an image.
- `PartsAssumption` of `LogPipeline`: those of its two components, for the
  constants it gives them.
- `TablesAssumption`: projects, names and values of containers are numbers in
  their order; Docker has finitely many containers, each with a project.
- `FramesAssumption`, `VersionAssumption`: a content is a sequence of newlines
  and other bytes; a version has a rank, and no tag is spelled like a digest,
  which has a colon that tags must not have.

| Module | Theorems | Inductive invariant, and why it is needed |
|---|---|---|
| `LokiClientProofs` | `TypeCorrect`, `PathOrder`, `DeliveryOrder`, `NoBatchLeftBehind` | What Loki holds is in order only if nothing older is still on its way: `PathInOrder` orders Loki, batch and channel together. `BatchInv`: a loop in its select has room in the batch, and an empty batch has no line, which the bound on the batch and the empty exit need. |
| | `NoSilentLoss`, `EveryLineHasItsPlace` | `LossInv`: the lines that are neither stored nor held are at most as many as were counted; a failed push counts `size`, so the batch must hold at most as many, all under keys that a push looks at. `AccountInv` has sums over the keys in place of bounds: `size` is the number of lines in the batch, and a step changes the sum of what it touches by what it counts. |
| | `ImplementsLogDelivery` | The abstract queue of a key is `Held`, the numbers of that key in the batch and then in the channel. A step of the loop that moves a line from one to the other is a stutter; a push that returns is the abstract delivery of the batch, line by line in `NumbersOf`. |
| `LogStreamsProofs` | `TypeCorrect`, `ReconnectContinues`, `NoOrphans`, `MapIsWorking` | `LineInv` relates `since`, `next`, `last` and the lines submitted in every state of a streamer, so that the next connection finds them. `MapInv`: an entry is of its container and an ended goroutine is not cancelled, so that a slot can be used again. |
| `LogPipelineProofs` | `PipelineRunsStreams`, `PipelineRunsLoki`, `ReconnectContinues` | A step of the composition is a step of `LogStreams` or leaves its variables alone, and so for `LokiClient`; the invariants of both are then taken over. |
| | `StoredInWrittenOrder`, `LossAccount` | `HandedInv`: which number `Send` gave to a line, in the order of the lines of one streamer, so that the order of numbers, which `PathInOrder` gives, is the order of lines. `SubmittedInv`: a line that a streamer has passed was handed to the client under a key of its container, so that it is stored, on its way, or among the lines that `LossInv` counts. |
| `MetricsCacheProofs` | `AnswersAreNeverEmpty`, `PagesAreCurrent`, `SerialCollections` | `CacheInv`: a validity computed or written implies a cache that is not empty, and the cache is never emptied; numbers of collections are bounded by the newest. |
| `CollectorProofs` | `TypeCorrect`, `WindowOfRates`, `RatesAreHonest`, `HostShareAgrees`, `DataAreOfListed` | `WindowInv` carries the time of a collection from its results to the saved samples. `RateInv`: since a sample, the counter has grown by no more than the container has spent; a reset only lowers it; summed over the containers this bounds the share of the host (`HostDeltaIsSum`). `ListInv` relates samples to the list at each stage. |
| `ImageUpdatesProofs` | `TypeCorrect`, `CounterIsExact`, `ResultIsComplete`, `OnlyRacePanics` | `WaitInv`: without a race, what was read is what is there; a goroutine is in one place and leaves with one `Done`. `Recorded`: a check that has succeeded is in the result or its goroutine is still to append it. |
| `PartsProofs` (live) | `OneStream`, `ShownOnce`, `PollsGoOn` | `LiveInv`: what a handler of `EventSource`, a timer or an answer on its way may still do to the view. `ContentInv` adds which lines each of them carries and that they follow those shown. |
| (login) | `SessionsAreKept` | `LoginInv`: a reply of this process, and a cookie of one of its sessions, say what the configuration makes of the time of the login. Nothing is said of those of another process, whose secret it does not know. |
| (frames) | `HeadersFound`, `AnswersAreWhole` | `FramesInv`: the position at a header is where a frame begins, and past it, where that frame's content, its cut rest or its end is. `AnswerInv`: what the callback has gathered are the lines of the frames read so far, up to the current line, and their size. |
| (version) | `UpdateIsNewer` | The sorted list of versions ends with one that no version of it exceeds, whatever the order of equal ones, and its length is that of the versions listed; `VersionInv` adds the types of the answers. |
| (kept) | `SameLinesForgotten`, `FilteredAsTheyCome`, `RowsAreOfLines`, `ClicksLeadToTimes` | `KeptInv`: the prefix sums and the timeline are those of the kept lines, the lines are numbered without a gap, and a row in the document is of an index that is still shown. The marks of the filter are related to those of a whole pass, with the exception of the first line. A click needs no invariant of the times: whatever set of lines is bisected, the search ends where the set begins to hold (`BisectIsEdge`), and if the times are in order around the one clicked, there is one such place. |
| (tables) | `GroupsKept`, `DisplayFollows` | `TableInv`: what the two properties say, of typed rows, and that an answer on its way holds a table (`IsTable`) too. What the server sends is one, group after group (`ServerSendsTable`). A sort is proved as the moves of rows that it is: after `k` moves the rows moved are at the end of their group in their order and the others before them (`MovedUpTo`), the groups up to a header are sorted and those after it as they were (`SortedUpTo`). The filter and the collapsing change no cell (`SameCells`), and so neither groups nor order. |

Each theorem of `PartsProofs` is proved of its part alone and again, with
`InParts` in its name, of the behaviours of the run `parts`, of which a step is
one of a single part while the variables of the others rest.

The type invariants, `StoredInOrderOnce`, `ContinuesFromLastLine` of `LogStreams`
alone, `CollectionsAreSerial` and `PanicOnlyAfterRace` are proved and not checked
again by a run.

The induction theorems of the library take an operator as a parameter and cannot
be instantiated here. `Sums` states instead, for a set that is given, that a set
of numbers has a least element (`LeastNat`) and that a set which has 0 and, with
every number, the next has them all (`SetInduction`), or with every finite set
those with one more element (`SubsetInduction`); each induction then names the
set of arguments for which the claim holds. Recursion in the modules that are
proved about is by recursive functions.

Every safety invariant that a passing run checks is the property of a theorem,
and so is the refinement of `LogDelivery`. Only model-checked are the liveness
properties, because the prover knows neither `ENABLED` nor fairness, and the
five disagreements of section 3, which are counterexamples of single instances.

## 6. Not modelled

- The volume worker: one writer of one field under the lock that everybody
  takes; no step of another can come between.
- Rendering: templates, colours, highlighting, number formats and label texts;
  automatic scrolling; tables of images and volumes (as that of containers,
  without groups); the text of the metrics (`prometheus.go`).
- The ping beside the events of a stream: the two write to one response without
  a lock, and only the bytes of the response could tell what comes of it.
- Sizes, dates and names of images; parsing of version numbers and references.
- Compression, access logs, parsing of environment variables, the wait of
  `Shutdown` for open requests; deployment files.

## 7. Plan

Done: the Loki client with its abstract specification, log collection, the two
together with the shutdown; cache, collector, image updates; sessions of the
viewer, kept lines, frames, tables, sessions of the dashboard, version check.
Theorems for all of them. What is left: the least fair conditions under which
the liveness properties still hold, and what the hazards without a property
would need (`PROJECT.json`), first of them a streamer whose container has been
stopped and started again, which needs the time of creation in `LogStreams`.
