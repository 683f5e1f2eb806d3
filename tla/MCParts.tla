------------------------------- MODULE MCParts -------------------------------
(***************************************************************************)
(* The parts of which each keeps to itself: what the log viewer follows    *)
(* (LiveLogs) and the lines it keeps (LogView), the table of containers,   *)
(* the login, the reading of a log from Docker and the check of an image   *)
(* for an update.  A behaviour is one of one part, chosen at the start;    *)
(* the variables of the others stay at 0.  So each part is checked as if   *)
(* alone, and the states of the run are those of the parts together, not   *)
(* their product.                                                          *)
(***************************************************************************)
EXTENDS LiveLogs, TLC

CONSTANTS
    Lifetimes, SecondUnits, Width, PersistentAge, MaxTime, MaxBoots, MaxReplies,   \* of Session
    Kinds, KeepLines, Window, Height, Over, MaxAdded, MaxTs,   \* of LogView
    Project, Snapshots, MaxPolls,                              \* of Tables
    Contents, MaxFrames, MaxFrameSize, MaxBytes,               \* of LogFrames
    Tags, MaxTags, Digests, Failed                             \* of VersionCheck

\* A process accepts a session for some whole units of time.
ASSUME SessionAssumption ==
    Lifetimes \subseteq Nat /\ SecondUnits \in Nat \ {0} /\ PersistentAge \in Nat \ {0}
        /\ MaxTime \in Nat

\* Every line takes a row, and the window and the limit hold at least one line.
ASSUME KeptAssumption ==
    /\ Kinds \subseteq [hit : BOOLEAN, rows : Nat \ {0}, guess : Nat \ {0}]
    /\ KeepLines \in Nat \ {0} /\ Window \in Nat \ {0}
    /\ Height \in Nat /\ Over \in Nat /\ MaxAdded \in Nat /\ MaxTs \in Nat

\* Projects, names and values are numbers; Docker has finitely many containers.
ASSUME TablesAssumption ==
    /\ \A n \in DOMAIN Project : n \in Nat /\ Project[n] \in Nat
    /\ \A cs \in Snapshots :
           /\ IsFiniteSet(DOMAIN cs) /\ DOMAIN cs \subseteq DOMAIN Project
           /\ \A n \in DOMAIN cs : cs[n] \in Nat

\* A content is made of text and newlines; maxFrameSize is not zero.
ASSUME FramesAssumption ==
    Contents \subseteq Seq({"text", "newline"}) /\ MaxFrameSize \in Nat \ {0} /\ MaxBytes \in Nat

\* A digest has a colon, the name of a tag has none.
ASSUME VersionAssumption == \A t \in Tags : t.rank \in Nat /\ t.name \notin Digests

VARIABLES
    part,
    \* of Session
    now, boot, enabled, lifetime, ttl, cookie, replies, login,
    \* of LogView
    query, ctx, wrapped, filterTimer, kept, csum, tlTimes, tlMin, tlMax, shownLines,
    totalLines, markIndex, vpEls, vpTick,
    \* of Tables
    containers, polls, tableQuery, sorted, collapsed, tbody, thAsc, allBtn,
    unfiltered, fresh,
    \* of LogFrames
    frames, wanted, limit, orderly, expired, pc, pos, frame, line, lines, size,
    truncated, status,
    \* of VersionCheck
    tag, digest, listing, inspected, inTime, check, record

loginVars == <<now, boot, enabled, lifetime, ttl, cookie, replies, login>>
keptVars == <<query, ctx, wrapped, filterTimer, kept, csum, tlTimes, tlMin, tlMax,
              shownLines, totalLines, markIndex, vpEls, vpTick>>
tableVars == <<containers, polls, tableQuery, sorted, collapsed, tbody, thAsc, allBtn,
               unfiltered, fresh>>
framesVars == <<frames, wanted, limit, orderly, expired, pc, pos, frame, line, lines,
                size, truncated, status>>
versionVars == <<tag, digest, listing, inspected, inTime, check, record>>
partsVars == <<part, vars, loginVars, keptVars, tableVars, framesVars, versionVars>>

Login == INSTANCE Session WITH session <- login

Kept == INSTANCE LogView WITH logs <- kept

Table == INSTANCE Tables WITH query <- tableQuery

Frames == INSTANCE LogFrames

Version == INSTANCE VersionCheck

\* Nothing tells containers or requests apart.
PartsSymmetry == Permutations(Containers) \cup Permutations(Requests)

\* A line that matches, one that does not, one that is longer than expected.
MCKinds ==
    {[hit |-> TRUE,  rows |-> 1, guess |-> 1],
     [hit |-> FALSE, rows |-> 1, guess |-> 1],
     [hit |-> TRUE,  rows |-> 3, guess |-> 2]}

\* Containers 1 and 3 are of one project, 4 of another and 2 of none.
MCProject == 1 :> 1 @@ 2 :> 9 @@ 3 :> 1 @@ 4 :> 2

MCSnapshots ==
    {1 :> 0 @@ 2 :> 1 @@ 3 :> 1 @@ 4 :> 0, 1 :> 1 @@ 3 :> 0, <<>>}

\* An empty frame, a line, an empty line first, a long line, an empty line within.
MCContents ==
    LET T == "text"
        N == "newline"
    IN  {<<>>, <<T, N>>, <<N, T>>, <<T, T, N>>, <<T, N, N, T>>}

\* No version, one version written in two ways, a pre-release, its release.
MCTags ==
    {[rank |-> 0, name |-> "latest"], [rank |-> 1, name |-> "1.1"],
     [rank |-> 1, name |-> "v1.1.0"], [rank |-> 2, name |-> "1.2-rc"],
     [rank |-> 3, name |-> "1.2"]}

-----------------------------------------------------------------------------

LiveIdle ==
    /\ written = 0 /\ ssemode = 0 /\ cur = 0 /\ follow = 0 /\ selected = 0 /\ logs = 0
    /\ es = 0 /\ pollTimer = 0 /\ request = 0 /\ handler = 0 /\ session = 0 /\ late = 0

LoginIdle ==
    /\ now = 0 /\ boot = 0 /\ enabled = 0 /\ lifetime = 0 /\ ttl = 0
    /\ cookie = 0 /\ replies = 0 /\ login = 0

KeptIdle ==
    /\ query = 0 /\ ctx = 0 /\ wrapped = 0 /\ filterTimer = 0 /\ kept = 0 /\ csum = 0
    /\ tlTimes = 0 /\ tlMin = 0 /\ tlMax = 0 /\ shownLines = 0 /\ totalLines = 0
    /\ markIndex = 0 /\ vpEls = 0 /\ vpTick = 0

TableIdle ==
    /\ containers = 0 /\ polls = 0 /\ tableQuery = 0 /\ sorted = 0 /\ collapsed = 0
    /\ tbody = 0 /\ thAsc = 0 /\ allBtn = 0 /\ unfiltered = 0 /\ fresh = 0

FramesIdle ==
    /\ frames = 0 /\ wanted = 0 /\ limit = 0 /\ orderly = 0 /\ expired = 0 /\ pc = 0
    /\ pos = 0 /\ frame = 0 /\ line = 0 /\ lines = 0 /\ size = 0 /\ truncated = 0
    /\ status = 0

VersionIdle ==
    /\ tag = 0 /\ digest = 0 /\ listing = 0 /\ inspected = 0 /\ inTime = 0
    /\ check = 0 /\ record = 0

PartsInit ==
    /\ part \in {"live", "login", "kept", "table", "frames", "version"}
    /\ IF part = "live" THEN Init ELSE LiveIdle
    /\ IF part = "login" THEN Login!Init ELSE LoginIdle
    /\ IF part = "kept" THEN Kept!Init ELSE KeptIdle
    /\ IF part = "table" THEN Table!Init ELSE TableIdle
    /\ IF part = "frames" THEN Frames!Init ELSE FramesIdle
    /\ IF part = "version" THEN Version!Init ELSE VersionIdle

\* A step of one part.
PartsNext ==
    /\ UNCHANGED part
    /\ \/ part = "live" /\ Next
          /\ UNCHANGED <<loginVars, keptVars, tableVars, framesVars, versionVars>>
       \/ part = "login" /\ Login!Next
          /\ UNCHANGED <<vars, keptVars, tableVars, framesVars, versionVars>>
       \/ part = "kept" /\ Kept!Next
          /\ UNCHANGED <<vars, loginVars, tableVars, framesVars, versionVars>>
       \/ part = "table" /\ Table!Next
          /\ UNCHANGED <<vars, loginVars, keptVars, framesVars, versionVars>>
       \/ part = "frames" /\ Frames!Next
          /\ UNCHANGED <<vars, loginVars, keptVars, tableVars, versionVars>>
       \/ part = "version" /\ Version!Next
          /\ UNCHANGED <<vars, loginVars, keptVars, tableVars, framesVars>>

PartsSpec == PartsInit /\ [][PartsNext]_partsVars

-----------------------------------------------------------------------------
(* The properties of the parts, which hold trivially for the other parts.  *)

\* Late answers leave one stream that fits the view (LiveLogs, dashboard.js:972).
OneStreamOfView == part = "live" => StreamFitsView

\* An EventSource shows lines of the container in order and once (LiveLogs,
\* sse.go:57).
ShownInOrderOnce == part = "live" => InOrderOnce

\* Polling leaves no line out (LiveLogs, dashboard.js:1018).
PollsLeaveNoGap == part = "live" => PollingHasNoGap

\* Only a browser that is logged in is served (Session, auth.go:114).
OnlySessionsAreServed == part = "login" => Login!ServedOnlyInSession

\* A session lasts as long as configured (Session, auth.go:92).
SessionsLast == part = "login" => Login!SessionLasts

\* What is kept beside the lines forgets the lines that are dropped (LogView,
\* dashboard.js:869).
ForgetsTheSameLines == part = "kept" => Kept!ForgetsTheSameLines

\* Lines filtered as they arrive are those a filter of all would give (LogView,
\* dashboard.js:814).
FilterIsIncremental == part = "kept" => Kept!FilterIsIncremental

\* Rows of the document show the lines they stand for (LogView,
\* dashboard.js:1278).
RowsShowTheirLines == part = "kept" => Kept!RowsShowTheirLines

\* A click on the timeline finds the first shown line of its time or later, if
\* the lines are in order around that time, and a place where the log passes it
\* if they are not (LogView, dashboard.js:1511).
ClickFindsTime ==
    [][part = "kept" =>
           \A t \in 1 .. MaxTs + 1 : Kept!ClickTimeline(t) => Kept!FindsTime(t)]_keptVars

\* Sorting and refreshing keep each row in its group (Tables, dashboard.js:35).
GroupsKeepTheirRows == part = "table" => Table!GroupsKeepTheirRows

\* Rows and groups are displayed as the user has set it (Tables, dashboard.js:632).
DisplayFollowsSettings == part = "table" => Table!DisplayFollowsSettings

\* Frames are read from where they begin, cut ones too (LogFrames, reader.go:60).
HeadersAreFound == part = "frames" => Frames!HeadersAreFound

\* A log that is given is whole or marked as truncated (LogFrames, reader.go:97).
AnswerIsWhole == part = "frames" => Frames!AnswerIsWhole

\* An update is reported for a newer version or another digest (VersionCheck,
\* semantic.go:73).
UpdateMeansNewer == part = "version" => Version!UpdateMeansNewer

=============================================================================
