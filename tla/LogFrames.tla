----------------------------- MODULE LogFrames ------------------------------
(***************************************************************************)
(* Reading a log from Docker in one piece: parseLogFrames and              *)
(* ReadContainerLogs of internal/logs/reader.go and the answer that the    *)
(* endpoint /api/containers/{id}/logs of main.go makes of the result.      *)
(*                                                                         *)
(* The log is a sequence of frames, a header with the output and the size  *)
(* and a content.  The connection may end after any number of bytes, in an *)
(* orderly way or not, and the deadline of the request may pass meanwhile. *)
(* A content is a sequence of characters, of which only the newline        *)
(* matters; the timestamp before the text takes no space here.             *)
(***************************************************************************)
EXTENDS Integers, FiniteSets, FiniteSetsExt, SequencesExt

CONSTANTS
    Contents,     \* contents of frames: sequences of "text" and "newline"
    MaxFrames,    \* bound: frames of a log
    MaxFrameSize, \* maxFrameSize
    MaxBytes      \* MaxBytes of the options

VARIABLES
    frames,    \* the log: [out, content] per frame
    wanted,    \* the stream of the options
    limit,     \* bytes that arrive before the connection ends
    orderly,   \* it ends with EOF, not with an error
    expired,   \* the deadline of the request has passed
    pc,
    pos,       \* bytes read
    frame,     \* the frame that is read, once its header is
    line,      \* the next line of its content
    lines,     \* the lines that ReadContainerLogs has collected
    size,      \* their bytes
    truncated,
    status     \* of the answer

sourceVars == <<frames, wanted, limit, orderly>>
resultVars == <<lines, size, truncated>>
vars == <<sourceVars, expired, pc, pos, frame, line, resultVars, status>>

ReaderState == {"open",        \* calling ContainerLogs
                "notFound",    \* Docker has no such container
                "header", "content", "discard", "lines",   \* in parseLogFrames
                "stopped",     \* it has returned errStop or nil
                "failed",      \* it has returned another error
                "answered"}

Outputs == {"stdout", "stderr"}

HeaderLen == 2

FrameLen(i) == HeaderLen + Len(frames[i].content)

\* Where frame i begins; where the log ends, for the frame after the last one.
FrameStart(i) == MapThenSumSet(FrameLen, 1 .. i - 1)

Init ==
    /\ frames \in UNION {[1 .. n -> [out : Outputs, content : Contents]] : n \in 0 .. MaxFrames}
    /\ wanted \in Outputs \cup {"all"}
    /\ limit \in 0 .. FrameStart(Len(frames) + 1)
    /\ orderly \in BOOLEAN
    /\ expired = FALSE
    /\ pc = "open"
    /\ pos = 0
    /\ frame = 0
    /\ line = 1
    /\ lines = <<>>
    /\ size = 0
    /\ truncated = FALSE
    /\ status = 0

-----------------------------------------------------------------------------

Go(to) == pc' = to

\* io.ReadFull and io.CopyN: all n bytes, or an error.
CanRead(n) == pos + n <= limit

\* readLen
ReadLen == Min({Len(frames[frame].content), MaxFrameSize})

\* The end of the log is a clean one only where a header would begin.
CleanEnd == pos = limit /\ orderly

Open ==
    /\ pc = "open"
    /\ \/ ~expired /\ pc' \in {"header", "notFound", "failed"}
       \/ expired /\ Go("failed")
    /\ UNCHANGED <<sourceVars, expired, pos, frame, line, resultVars, status>>

ReadHeader ==
    /\ pc = "header"
    /\ IF CanRead(HeaderLen)
       THEN /\ \E i \in DOMAIN frames : FrameStart(i) = pos /\ frame' = i
            /\ pos' = pos + HeaderLen
            /\ Go("content")
       ELSE /\ Go(IF CleanEnd THEN "stopped" ELSE "failed")
            /\ UNCHANGED <<pos, frame>>
    /\ UNCHANGED <<sourceVars, expired, line, resultVars, status>>

\* Mutant: the content is cut, and the rest of the frame is not skipped.
ReadContentOnly ==
    /\ pc = "content"
    /\ IF CanRead(ReadLen)
       THEN pos' = pos + ReadLen /\ line' = 1 /\ Go("lines")
       ELSE Go("failed") /\ UNCHANGED <<pos, line>>
    /\ UNCHANGED <<sourceVars, expired, frame, resultVars, status>>

\* At most maxFrameSize bytes of the content are kept.
ReadContent ==
    /\ pc = "content"
    /\ IF CanRead(ReadLen)
       THEN /\ pos' = pos + ReadLen
            /\ line' = 1
            /\ Go(IF Len(frames[frame].content) > ReadLen THEN "discard" ELSE "lines")
       ELSE Go("failed") /\ UNCHANGED <<pos, line>>
    /\ UNCHANGED <<sourceVars, expired, frame, resultVars, status>>

\* The rest of an oversized frame.
Discard ==
    /\ pc = "discard"
    /\ LET rest == Len(frames[frame].content) - ReadLen
       IN  IF CanRead(rest)
           THEN pos' = pos + rest /\ Go("lines")
           ELSE Go("failed") /\ UNCHANGED pos
    /\ UNCHANGED <<sourceVars, expired, frame, line, resultVars, status>>

\* bytes.Split at newlines, without an empty last part: the lengths of the lines.
\* Of the first i characters, ended has the lines that a newline ends, and open
\* is the length of the part after it.
LineLengths(content) ==
    LET parts[i \in 0 .. Len(content)] ==
            IF i = 0 THEN [ended |-> <<>>, open |-> 0]
            ELSE IF content[i] = "newline"
            THEN [ended |-> Append(parts[i - 1].ended, parts[i - 1].open), open |-> 0]
            ELSE [ended |-> parts[i - 1].ended, open |-> parts[i - 1].open + 1]
        all == parts[Len(content)]
    IN  IF all.open = 0 THEN all.ended ELSE Append(all.ended, all.open)

Kept(content) == SubSeq(content, 1, Min({Len(content), MaxFrameSize}))

\* A line is known by its frame, its place there, and its length.
LinesOf(i) ==
    LET lengths == LineLengths(Kept(frames[i].content))
    IN  [j \in DOMAIN lengths |-> [frame |-> i, part |-> j, len |-> lengths[j]]]

IsWanted(out) == wanted = "all" \/ wanted = out

\* Mutant: the line that exceeds the limit is still taken.
TakeLineTooMany ==
    LET l == LinesOf(frame)[line]
    IN  /\ pc = "lines"
        /\ line <= Len(LinesOf(frame))
        /\ IF ~IsWanted(frames[frame].out)
           THEN Go("lines") /\ UNCHANGED resultVars
           ELSE /\ size' = size + l.len + 1
                /\ truncated' = (size' > MaxBytes)
                /\ Go(IF truncated' THEN "stopped" ELSE "lines")
                /\ lines' = Append(lines, l)
        /\ line' = line + 1
        /\ UNCHANGED <<sourceVars, expired, pos, frame, status>>

\* The callback of ReadContainerLogs: filter, count, stop at the limit.
TakeLine ==
    LET l == LinesOf(frame)[line]
    IN  /\ pc = "lines"
        /\ line <= Len(LinesOf(frame))
        /\ IF ~IsWanted(frames[frame].out)
           THEN Go("lines") /\ UNCHANGED resultVars
           ELSE /\ size' = size + l.len + 1
                /\ truncated' = (size' > MaxBytes)
                /\ Go(IF truncated' THEN "stopped" ELSE "lines")
                /\ lines' = IF truncated' THEN lines ELSE Append(lines, l)
        /\ line' = line + 1
        /\ UNCHANGED <<sourceVars, expired, pos, frame, status>>

FrameDone ==
    /\ pc = "lines"
    /\ line > Len(LinesOf(frame))
    /\ Go("header")
    /\ UNCHANGED <<sourceVars, expired, pos, frame, line, resultVars, status>>

\* The context of the request: the connection breaks, perhaps after some bytes
\* that had already arrived.
DeadlinePasses ==
    /\ ~expired
    /\ pc # "answered"
    /\ expired' = TRUE
    /\ IF pc \in {"stopped", "notFound", "failed"}
       THEN UNCHANGED <<limit, orderly>>
       ELSE /\ limit' \in pos .. limit
            /\ orderly' \in {FALSE, orderly /\ limit' = limit}
    /\ UNCHANGED <<frames, wanted, pc, pos, frame, line, resultVars, status>>

\* 200 with the lines; 504 when the deadline has passed; 500 for the rest.
Status ==
    CASE pc = "stopped"  -> 200
      [] pc = "notFound" -> 404
      [] pc = "failed"   -> IF expired THEN 504 ELSE 500

Answer ==
    /\ pc \in {"stopped", "notFound", "failed"}
    /\ status' = Status
    /\ Go("answered")
    /\ UNCHANGED <<sourceVars, expired, pos, frame, line, resultVars>>

Next ==
    \/ Open
    \/ ReadHeader
    \/ ReadContent
    \/ Discard
    \/ TakeLine
    \/ FrameDone
    \/ DeadlinePasses
    \/ Answer

Spec == Init /\ [][Next]_vars

-----------------------------------------------------------------------------
(* Properties                                                              *)

\* A header is read only where a frame begins, or at the end of the log,
\* however long the frames before it were (reader.go:60).
HeadersAreFound ==
    pc = "header" => \E i \in 1 .. Len(frames) + 1 : pos = FrameStart(i)

\* The frames that have arrived as a whole, and their lines of a wanted output.
WholeFrames == {i \in DOMAIN frames : FrameStart(i + 1) <= limit}

WantedLines ==
    FlattenSeq([i \in 1 .. Cardinality(WholeFrames) |->
                   IF IsWanted(frames[i].out) THEN LinesOf(i) ELSE <<>>])

BytesOf(ls) == MapThenSumSet(LAMBDA i : ls[i].len + 1, DOMAIN ls)

\* The viewer gets a list only if it is whole: all lines of the frames that
\* have arrived, after which the connection has ended in an orderly way between
\* two frames, or else a list that is marked as truncated, which is the longest
\* beginning of it that fits in MaxBytes.  A log that breaks off gives an error.
AnswerIsWhole ==
    status = 200 =>
        IF truncated
        THEN /\ IsStrictPrefix(lines, WantedLines)
             /\ BytesOf(lines) <= MaxBytes
             /\ BytesOf(SubSeq(WantedLines, 1, Len(lines) + 1)) > MaxBytes
        ELSE /\ lines = WantedLines
             /\ orderly
             /\ \E i \in 1 .. Len(frames) + 1 : limit = FrameStart(i)

=============================================================================
