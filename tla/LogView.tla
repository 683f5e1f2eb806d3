------------------------------ MODULE LogView -------------------------------
(***************************************************************************)
(* The lines the log viewer of internal/dashboard/dashboard.js keeps: what *)
(* addLine, dropOldestLines, applyLogFilter, vpRefluid, vpRender, reset    *)
(* and a click on the timeline do to the kept lines, the filter's marks on *)
(* them, the sums of their heights, the times behind the timeline, and the *)
(* rows in the document.                                                   *)
(*                                                                         *)
(* The browser runs one handler at a time; what interleaves are lines that *)
(* arrive, input of the user, the timer of the filter and the animation    *)
(* frame of a render.  The text of a line is its kind: whether the filter  *)
(* matches it, how many rows it takes when wrapped, and how many the       *)
(* viewer expects.  Every line has a time that parses, the server sends it *)
(* with each line; but lines arrive in any order of their times, because   *)
(* polls repeat lines and overtake each other, and a late history answer   *)
(* adds older lines.  That a line equal to the last one is left out is in  *)
(* LiveLogs.  Line i of the model is logs[i - 1] of the code.              *)
(***************************************************************************)
EXTENDS Integers, FiniteSets, FiniteSetsExt, SequencesExt

CONSTANTS
    Kinds,        \* [hit : BOOLEAN, rows : Nat \ {0}, guess : Nat \ {0}]
    KeepLines,    \* MAX_LOG_LINES
    Window,       \* lines a click on the timeline looks at (64)
    Height,       \* clientHeight, in rows
    Over,         \* rows drawn above and below the visible part
    MaxAdded,     \* bound: lines added between two resets
    MaxTs         \* bound: times of lines

VARIABLES
    query,       \* the filter is not empty
    ctx,         \* context lines are wanted
    wrapped,     \* long lines are wrapped
    filterTimer, \* the filter was typed into and is not applied yet
    logs,
    csum,        \* csum[i]: the height of the first i lines
    tlTimes,     \* tlTimes and tlErrs: the times of the lines
    tlMin,       \* the earliest and the latest time since the last reset
    tlMax,
    shownLines,
    totalLines,
    markIndex,   \* the line a click has marked; 0 for none
    vpEls,       \* the rows in the document, by index of their line
    vpTick       \* a render is scheduled

filterVars == <<query, ctx, filterTimer>>
timelineVars == <<tlTimes, tlMin, tlMax>>
vars == <<filterVars, wrapped, logs, csum, timelineVars, shownLines, totalLines,
          markIndex, vpEls, vpTick>>

NoRows == [i \in {} |-> 0]

Init ==
    /\ query \in BOOLEAN
    /\ ctx \in BOOLEAN
    /\ wrapped \in BOOLEAN
    /\ filterTimer = FALSE
    /\ logs = <<>>
    /\ csum = [i \in {0} |-> 0]
    /\ tlTimes = <<>>
    /\ tlMin = 0
    /\ tlMax = 0
    /\ shownLines = 0
    /\ totalLines = 0
    /\ markIndex = 0
    /\ vpEls = NoRows
    /\ vpTick = FALSE

-----------------------------------------------------------------------------
(* Helpers of the handlers                                                 *)

LineMatches(kind) == query => kind.hit

VpEstimate(kind) == IF wrapped THEN kind.guess ELSE 1

\* What the browser gives a row: offsetHeight.
OffsetHeight(kind) == IF wrapped THEN kind.rows ELSE 1

VpSlotH(line) == IF line.h > 0 THEN line.h ELSE line.est

HeightIn(lines, i) == IF lines[i].shown THEN VpSlotH(lines[i]) ELSE 0

\* rebuildCsum
RebuiltCsum(lines) ==
    LET sum[i \in 0 .. Len(lines)] == IF i = 0 THEN 0 ELSE sum[i - 1] + HeightIn(lines, i)
    IN  sum

\* Bisection: the least index in right, or n + 1, when right holds every index
\* of 1 .. n from some one on.
Bisect(n, right) ==
    LET search[range \in (1 .. n + 1) \X (1 .. n + 1)] ==
            LET lo  == range[1]
                hi  == range[2]
                mid == (lo + hi) \div 2
            IN  IF lo >= hi THEN lo
                ELSE IF mid \in right THEN search[<<lo, mid>>] ELSE search[<<mid + 1, hi>>]
    IN  search[<<1, n + 1>>]

VpFirstAbove(y) == Bisect(Len(logs), {i \in DOMAIN logs : csum[i] > y})

\* Mutant: the line at the time itself is passed over.
VpUpperBound(t) == Bisect(Len(logs), {i \in DOMAIN logs : logs[i].tsMs > t})

VpLowerBound(t) == Bisect(Len(logs), {i \in DOMAIN logs : logs[i].tsMs >= t})

-----------------------------------------------------------------------------
(* A line arrives                                                          *)

\* Mutant: the line before a match stays hidden.
NeverFlipped(ok) == FALSE

\* The line before becomes context of this one.
Flipped(ok) ==
    ctx /\ ok /\ logs # <<>> /\ ~Last(logs).match /\ ~Last(logs).shown

\* This line becomes context of the one before.
IsContext(ok) == ctx /\ ~ok /\ logs # <<>> /\ Last(logs).match

NewLine(kind, tsMs) ==
    LET ok == LineMatches(kind)
    IN  [num |-> totalLines + 1, kind |-> kind, tsMs |-> tsMs, match |-> ok,
         shown |-> ok \/ IsContext(ok), ctxN |-> IsContext(ok),
         h |-> 0, est |-> VpEstimate(kind)]

Pushed(line) ==
    LET n == Len(logs)
    IN  Append(IF Flipped(line.match)
               THEN [logs EXCEPT ![n].shown = TRUE, ![n].ctxN = TRUE]
               ELSE logs,
               line)

\* Mutant: the height of a line that was flipped is not added.
CsumWithoutFlip(lines, flipped) ==
    LET n == Len(lines)
    IN  [i \in 0 .. n |-> IF i = n THEN csum[n - 1] + HeightIn(lines, n) ELSE csum[i]]

\* Only the last sums change: that of the line before, if it was flipped, and
\* that of the new line.
CsumPushed(lines, flipped) ==
    LET n == Len(lines)
        before == IF flipped THEN csum[n - 2] + HeightIn(lines, n - 1) ELSE csum[n - 1]
    IN  [i \in 0 .. n |->
            IF i = n THEN before + HeightIn(lines, n)
            ELSE IF i = n - 1 THEN before ELSE csum[i]]

\* dropOldestLines, for the lines, the times, the sums and the rows.
Cut(lines) == IF Len(lines) > KeepLines THEN Len(lines) - KeepLines ELSE 0

Spliced(s, cut) == SubSeq(s, cut + 1, Len(s))

CsumSpliced(sums, n, cut) == [i \in 0 .. n - cut |-> sums[i + cut] - sums[cut]]

\* Mutant: the rows stay.
RowsStay(cut) == vpEls

RowsAfter(cut) == IF cut > 0 THEN NoRows ELSE vpEls

AddLine(kind, tsMs) ==
    LET line  == NewLine(kind, tsMs)
        lines == Pushed(line)
        cut   == Cut(lines)
    IN  /\ totalLines < MaxAdded
        /\ logs' = Spliced(lines, cut)
        /\ csum' = CsumSpliced(CsumPushed(lines, Flipped(line.match)), Len(lines), cut)
        /\ tlTimes' = Spliced(Append(tlTimes, tsMs), cut)
        /\ tlMin' = IF totalLines = 0 THEN tsMs ELSE Min({tlMin, tsMs})
        /\ tlMax' = IF totalLines = 0 THEN tsMs ELSE Max({tlMax, tsMs})
        /\ shownLines' = shownLines + (IF Flipped(line.match) THEN 1 ELSE 0)
                                    + (IF line.shown THEN 1 ELSE 0)
        /\ totalLines' = totalLines + 1
        /\ vpEls' = RowsAfter(cut)
        /\ vpTick' = TRUE
        /\ UNCHANGED <<filterVars, wrapped, markIndex>>

-----------------------------------------------------------------------------
(* The filter                                                              *)

Filtered(lines, q, c) ==
    LET ok(i) == q => lines[i].kind.hit
        near(i) == c /\ ((i > 1 /\ ok(i - 1)) \/ (i < Len(lines) /\ ok(i + 1)))
    IN  [i \in DOMAIN lines |->
            [lines[i] EXCEPT !.match = ok(i), !.shown = ok(i) \/ near(i), !.ctxN = ~ok(i) /\ near(i)]]

NumShown(lines) == Cardinality({i \in DOMAIN lines : lines[i].shown})

\* applyLogFilter: all lines again, their sums, and no row stays.
ApplyLogFilter ==
    /\ logs' = Filtered(logs, query', ctx')
    /\ shownLines' = NumShown(logs')
    /\ csum' = RebuiltCsum(logs')
    /\ vpEls' = NoRows
    /\ vpTick' = TRUE
    /\ UNCHANGED <<wrapped, timelineVars, totalLines, markIndex>>

\* input: the value has changed, the lines follow after 120 ms.
FilterInput ==
    /\ query' = ~query
    /\ filterTimer' = TRUE
    /\ UNCHANGED <<ctx, wrapped, logs, csum, timelineVars, shownLines, totalLines,
                   markIndex, vpEls, vpTick>>

FilterTimer ==
    /\ filterTimer
    /\ filterTimer' = FALSE
    /\ UNCHANGED <<query, ctx>>
    /\ ApplyLogFilter

ContextChange ==
    /\ ctx' = ~ctx
    /\ UNCHANGED <<query, filterTimer>>
    /\ ApplyLogFilter

-----------------------------------------------------------------------------
(* Rendering                                                               *)

\* A change of the wrapping: new estimates, nothing is measured any more.
WrapChange ==
    /\ wrapped' = ~wrapped
    /\ logs' = [i \in DOMAIN logs |->
                   [logs[i] EXCEPT !.est = IF wrapped' THEN logs[i].kind.guess ELSE 1, !.h = 0]]
    /\ csum' = RebuiltCsum(logs')
    /\ vpEls' = NoRows
    /\ vpTick' = TRUE
    /\ UNCHANGED <<filterVars, timelineVars, shownLines, totalLines, markIndex>>

\* The user scrolls: where to is seen in VpRender.
Scroll ==
    /\ logs # <<>>
    /\ vpTick' = TRUE
    /\ UNCHANGED <<filterVars, wrapped, logs, csum, timelineVars, shownLines, totalLines,
                   markIndex, vpEls>>

\* The lines to draw when the visible part begins at y.
ToDraw(y) ==
    {i \in VpFirstAbove(y - Over) .. VpFirstAbove(y + Height + Over) - 1 : logs[i].shown}

TopOf(sums, i) == sums[i - 1]

\* Rows out of range go, rows in range come or stay, all of them are measured.
VpRender(y) ==
    LET drawn == ToDraw(y)
    IN  /\ vpTick
        /\ vpTick' = FALSE
        /\ logs' = [i \in DOMAIN logs |->
                       IF i \in drawn THEN [logs[i] EXCEPT !.h = OffsetHeight(logs[i].kind)]
                       ELSE logs[i]]
        /\ csum' = IF logs' # logs THEN RebuiltCsum(logs') ELSE csum
        /\ vpEls' = [i \in drawn |->
                        [num  |-> IF i \in DOMAIN vpEls THEN vpEls[i].num ELSE logs[i].num,
                         ctxN |-> IF i \in DOMAIN vpEls THEN vpEls[i].ctxN ELSE logs[i].ctxN,
                         top  |-> TopOf(csum', i)]]
        /\ UNCHANGED <<filterVars, wrapped, timelineVars, shownLines, totalLines, markIndex>>

\* scrollTop lies between the first line and the last screenful.
ScrollTops == 0 .. Max({csum[Len(logs)] - Height, 0})

-----------------------------------------------------------------------------
(* The timeline, and reset                                                 *)

\* The line to jump to: the first one shown among Window lines from time t on,
\* the first one from t on if none is, and the last one if there is none.
JumpTarget(t) ==
    LET n == Len(logs)
        from == VpLowerBound(t)
        near == {i \in from .. Min({n, from + Window - 1}) : logs[i].shown}
    IN  Min({n, IF near # {} THEN Min(near) ELSE from})

\* The bins begin at times, rounded up, from tlMin on; the last after tlMax when
\* the lines span fewer milliseconds than there are bins.
BinStarts == tlMin .. tlMax + 1

ClickTimeline(t) ==
    /\ logs # <<>>
    /\ vpTick' = TRUE
    /\ UNCHANGED <<filterVars, wrapped, logs, csum, timelineVars, shownLines, totalLines, vpEls>>
    /\ markIndex' = JumpTarget(t)

MarkExpires ==
    /\ markIndex # 0
    /\ markIndex' = 0
    /\ UNCHANGED <<filterVars, wrapped, logs, csum, timelineVars, shownLines, totalLines,
                   vpEls, vpTick>>

Reset ==
    /\ logs' = <<>>
    /\ csum' = [i \in {0} |-> 0]
    /\ tlTimes' = <<>>
    /\ tlMin' = 0
    /\ tlMax' = 0
    /\ shownLines' = 0
    /\ totalLines' = 0
    /\ markIndex' = 0
    /\ vpEls' = NoRows
    /\ vpTick' = TRUE
    /\ UNCHANGED <<filterVars, wrapped>>

Next ==
    \/ \E kind \in Kinds, tsMs \in 1 .. MaxTs : AddLine(kind, tsMs)
    \/ FilterInput
    \/ FilterTimer
    \/ ContextChange
    \/ WrapChange
    \/ Scroll
    \/ \E y \in ScrollTops : VpRender(y)
    \/ \E t \in BinStarts : ClickTimeline(t)
    \/ MarkExpires
    \/ Reset

Spec == Init /\ [][Next]_vars

-----------------------------------------------------------------------------
(* Properties                                                              *)

\* No more than the newest KeepLines lines are kept, and when the oldest are
\* dropped, the sums of heights and the timeline have forgotten the same lines,
\* and no more, although they are kept in arrays of their own and brought up to
\* date line by line (dashboard.js:869).
ForgetsTheSameLines ==
    /\ [i \in DOMAIN logs |-> logs[i].num] =
           [i \in 1 .. Min({totalLines, KeepLines}) |->
               i + Max({totalLines - KeepLines, 0})]
    /\ csum = RebuiltCsum(logs)
    /\ tlTimes = [i \in DOMAIN logs |-> logs[i].tsMs]

\* Filtering line by line comes to the same as filtering all lines at once: a
\* line is shown exactly if it matches or is next to a match and context is
\* wanted, unless typed text waits for its timer.  The first kept line may still
\* be shown as the context of one that was dropped.
FilterIsIncremental ==
    ~filterTimer =>
        LET all == Filtered(logs, query, ctx)
        IN  /\ \A i \in DOMAIN logs :
                  \/ logs[i] = all[i]
                  \/ (i = 1 /\ logs[i].num > 1 /\ logs[i].ctxN /\ ~all[i].shown)
            /\ totalLines = Len(logs) => shownLines = NumShown(logs)

\* A row of the document shows the line whose index it has, as it is now and in
\* its place, although indices shift when lines are dropped, and heights and the
\* filter change under the rows.
RowsShowTheirLines ==
    \A i \in DOMAIN vpEls :
        /\ i \in DOMAIN logs
        /\ logs[i].shown
        /\ vpEls[i] = [num |-> logs[i].num, ctxN |-> logs[i].ctxN, top |-> csum[i - 1]]

\* No line of time t or later is before an earlier line.
InOrderAt(t) == \A i, j \in DOMAIN logs : i < j /\ logs[i].tsMs >= t => logs[j].tsMs >= t

\* The line marked is of time t or later, if there is one, and no shown line of
\* that time or later is before it.
FirstOfTime(t) ==
    /\ (\E i \in DOMAIN logs : logs[i].tsMs >= t) => logs[markIndex'].tsMs >= t
    /\ \A i \in 1 .. markIndex' - 1 : logs[i].tsMs >= t => ~logs[i].shown

\* The line marked is where a line of time t or later follows an earlier one, or
\* at an end of the log, or it is after that place and nothing in between is shown.
CrossesTime(t) ==
    \E from \in 1 .. Len(logs) + 1 :
        /\ from > 1 => logs[from - 1].tsMs < t
        /\ from <= Len(logs) => logs[from].tsMs >= t
        /\ markIndex' >= Min({Len(logs), from})
        /\ \A i \in from .. markIndex' - 1 : ~logs[i].shown

\* The first such line, unless the lines before the time are mixed with others.
FindsTime(t) == CrossesTime(t) /\ (InOrderAt(t) => FirstOfTime(t))

\* A click on the timeline leads to the first shown line of its time or later
\* when repeated or late lines have not mixed the lines before its time with
\* those after.  When they have, the bisection searches times that are not in
\* order (dashboard.js:1540): then it only leads to some place where the log
\* passes that time, which may be the end although a line of that time is kept.
ClickFindsTime == [][\A t \in 1 .. MaxTs + 1 : ClickTimeline(t) => FindsTime(t)]_vars

\* "rendering only visible lines" (README.md:39): the lines in the visible part
\* of the log are drawn.
VisibleAreDrawn ==
    [][\A y \in ScrollTops : VpRender(y) =>
          \A i \in DOMAIN logs :
              logs[i].shown /\ csum[i - 1] < y + Height /\ csum[i] > y => i \in DOMAIN vpEls']_vars

=============================================================================
