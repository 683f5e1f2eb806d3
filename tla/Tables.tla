------------------------------- MODULE Tables --------------------------------
(***************************************************************************)
(* The table of containers on the dashboard page: groupContainers of       *)
(* internal/metrics/dashboard.go, which puts them into groups, and         *)
(* dashboard.js, which replaces the rows by those of a refresh and applies *)
(* to them, and at every click, what the user has set: the column to sort  *)
(* by, the filter, and the groups that are collapsed.                      *)
(*                                                                         *)
(* The body of the table is one sequence of rows; a group is a row of its  *)
(* own and the rows up to the next one.  The settings are kept in          *)
(* localStorage, where the next page finds them.  Refreshes may be asked   *)
(* for by the timer and by the button, and their answers overtake each     *)
(* other.  Cells are a name and a value; the filter matches the value 1.   *)
(* The other two tables have no groups.                                    *)
(***************************************************************************)
EXTENDS Integers, FiniteSets, SequencesExt

CONSTANTS
    Project,     \* function from names to projects, both numbers in their order; the
                 \* highest project is that of the containers without one
    Snapshots,   \* what Docker may have: functions from some names to values
    MaxPolls     \* bound: refreshes on their way at a time

VARIABLES
    containers,  \* what Docker has
    polls,       \* refreshes on their way, with the answer once there is one
    query,       \* the filter is not empty
    sorted,      \* ui.sorts[0]: column and direction
    collapsed,   \* ui.collapsed: the projects
    tbody,       \* the rows of the table, headers of groups among them
    thAsc,       \* data-asc of the columns
    allBtn,      \* the button for all groups offers to expand them
    unfiltered,  \* history: groups expanded by a click, past the filter
    fresh        \* history: nothing has set allBtn since the page was loaded

settings == <<query, sorted, collapsed>>
vars == <<containers, polls, settings, tbody, thAsc, allBtn, unfiltered, fresh>>

Columns == {"name", "value"}

NoPoll == [at |-> "none", rows |-> <<>>]

NoSort == [col |-> "none", asc |-> FALSE]

-----------------------------------------------------------------------------
(* What the server sends: a header per project and its containers by name. *)

Header(p) == [header |-> TRUE, key |-> p, value |-> 0, collapsed |-> FALSE, shown |-> TRUE]

Row(n, v) == [header |-> FALSE, key |-> n, value |-> v, collapsed |-> FALSE, shown |-> TRUE]

\* The elements of a finite set, one after the other as the pairs of before say.
InOrder(S, before) ==
    CHOOSE s \in [1 .. Cardinality(S) -> S] :
        \A i, j \in DOMAIN s : i < j => <<s[i], s[j]>> \in before

Increasing(S) == InOrder(S, {p \in S \X S : p[1] < p[2]})

GroupOf(cs, project) ==
    LET names == Increasing({n \in DOMAIN cs : Project[n] = project})
    IN  <<Header(project)>> \o [i \in DOMAIN names |-> Row(names[i], cs[names[i]])]

GroupContainers(cs) ==
    LET projects == Increasing({Project[n] : n \in DOMAIN cs})
    IN  FlattenSeq([i \in DOMAIN projects |-> GroupOf(cs, projects[i])])

-----------------------------------------------------------------------------
(* The functions of dashboard.js over the rows.                            *)

Headers(rows) == {i \in DOMAIN rows : rows[i].header}

\* getGroups: the rows of the group whose header is row i.
RowsOf(rows, i) ==
    {j \in DOMAIN rows : j > i /\ \A h \in Headers(rows) : ~(i < h /\ h <= j)}

NextHeader(rows, i) == {h \in Headers(rows) : h > i /\ \A k \in Headers(rows) : ~(i < k /\ k < h)}

\* The rows without r, which is one of them.
Without(rows, r) == RemoveAt(rows, CHOOSE i \in DOMAIN rows : rows[i] = r)

\* The row r before the one in ref, which has at most one, or at the end.
PutBefore(rows, r, ref) ==
    LET at == {i \in DOMAIN rows : rows[i] \in ref}
    IN  IF at = {} THEN Append(rows, r) ELSE InsertAt(rows, CHOOSE i \in at : TRUE, r)

\* tbody.insertBefore(r, ref), which moves a row.
InsertBefore(rows, r, ref) == PutBefore(Without(rows, r), r, ref)

Cell(r, col) == IF col = "name" THEN r.key ELSE r.value

\* The comparison of a sort, which is stable.
SortsBefore(rows, i, j, col, asc) ==
    LET x == Cell(rows[i], col)
        y == Cell(rows[j], col)
    IN  IF x = y THEN i < j ELSE IF asc THEN x < y ELSE y < x

\* The rows in the positions is, sorted by the cells of a column.
SortedRows(rows, is, col, asc) ==
    LET order == InOrder(is, {p \in is \X is : SortsBefore(rows, p[1], p[2], col, asc)})
    IN  [k \in DOMAIN order |-> rows[order[k]]]

\* Mutant: the sorted rows go to the end of the table.
RefAtEnd(rows, i) == {}

\* Where the sorted rows of the group of header i are put.
RefOf(rows, i) == {rows[h] : h \in NextHeader(rows, i)}

\* The rows of the group of header i are moved one by one, in table acc.
SortGroup(rows, acc, i, col, asc) ==
    LET inOrder == SortedRows(rows, RowsOf(rows, i), col, asc)
        moved[k \in 0 .. Len(inOrder)] ==
            IF k = 0 THEN acc ELSE InsertBefore(moved[k - 1], inOrder[k], RefOf(rows, i))
    IN  moved[Len(inOrder)]

\* One group after the other.
ApplySort(rows, col, asc) ==
    LET upTo[k \in 0 .. Len(rows)] ==
            IF k = 0 THEN rows
            ELSE IF rows[k].header THEN SortGroup(rows, upTo[k - 1], k, col, asc)
            ELSE upTo[k - 1]
    IN  upTo[Len(rows)]

ApplyCollapsed(rows, list) ==
    [i \in DOMAIN rows |->
        IF rows[i].header THEN [rows[i] EXCEPT !.collapsed = rows[i].key \in list] ELSE rows[i]]

RowMatches(r, q) == q => r.value = 1

\* The header of the group that row i belongs to.
HeaderOf(rows, i) == CHOOSE h \in Headers(rows) : i \in RowsOf(rows, h)

\* Mutant: the filter is applied to the rows of collapsed groups too.
FilterOnly(rows, q) ==
    [i \in DOMAIN rows |->
        IF rows[i].header
        THEN [rows[i] EXCEPT !.shown =
                  rows[i].collapsed \/ \E j \in RowsOf(rows, i) : RowMatches(rows[j], q)]
        ELSE [rows[i] EXCEPT !.shown = RowMatches(rows[i], q)]]

ApplyFilter(rows, q) ==
    [i \in DOMAIN rows |->
        IF rows[i].header
        THEN [rows[i] EXCEPT !.shown =
                  rows[i].collapsed \/ \E j \in RowsOf(rows, i) : RowMatches(rows[j], q)]
        ELSE [rows[i] EXCEPT !.shown =
                  ~rows[HeaderOf(rows, i)].collapsed /\ RowMatches(rows[i], q)]]

ApplyUI(rows) ==
    LET inOrder == IF sorted = NoSort THEN rows ELSE ApplySort(rows, sorted.col, sorted.asc)
    IN  ApplyFilter(ApplyCollapsed(inOrder, collapsed), query)

\* applySort marks the column.
ThAscAfter(asc) == IF sorted = NoSort THEN asc ELSE [asc EXCEPT ![sorted.col] = sorted.asc]

\* A table without rows counts as one group without header.
AllCollapsed(rows) == \A i \in Headers(rows) : rows[i].collapsed

SyncCollapseAll(rows) == AllCollapsed(rows)

-----------------------------------------------------------------------------

Init ==
    /\ containers \in Snapshots
    /\ polls = [p \in 1 .. MaxPolls |-> NoPoll]
    /\ query = FALSE
    /\ sorted = NoSort
    /\ collapsed = {}
    /\ tbody = GroupContainers(containers)
    /\ thAsc = [col \in Columns |-> FALSE]
    /\ allBtn = AllCollapsed(tbody)
    /\ unfiltered = {}
    /\ fresh = FALSE

ContainersChange ==
    /\ containers' \in Snapshots
    /\ UNCHANGED <<polls, settings, tbody, thAsc, allBtn, unfiltered, fresh>>

\* By the timer or by the button.
Poll(p) ==
    /\ polls[p].at = "none"
    /\ polls' = [polls EXCEPT ![p].at = "asked"]
    /\ UNCHANGED <<containers, settings, tbody, thAsc, allBtn, unfiltered, fresh>>

ServerAnswers(p) ==
    /\ polls[p].at = "asked"
    /\ polls' = [polls EXCEPT ![p] = [at |-> "answered", rows |-> GroupContainers(containers)]]
    /\ UNCHANGED <<containers, settings, tbody, thAsc, allBtn, unfiltered, fresh>>

\* A refresh that fails, or whose session has ended, changes nothing.
PollFails(p) ==
    /\ polls[p].at = "asked"
    /\ polls' = [polls EXCEPT ![p] = NoPoll]
    /\ UNCHANGED <<containers, settings, tbody, thAsc, allBtn, unfiltered, fresh>>

\* update
Update(p) ==
    /\ polls[p].at = "answered"
    /\ polls' = [polls EXCEPT ![p] = NoPoll]
    /\ tbody' = ApplyUI(polls[p].rows)
    /\ thAsc' = ThAscAfter(thAsc)
    /\ allBtn' = SyncCollapseAll(tbody')
    /\ unfiltered' = {}
    /\ fresh' = FALSE
    /\ UNCHANGED <<containers, settings>>

FilterInput ==
    /\ query' = ~query
    /\ tbody' = ApplyFilter(tbody, query')
    /\ unfiltered' = {}
    /\ UNCHANGED <<containers, polls, sorted, collapsed, thAsc, allBtn, fresh>>

SortClick(col) ==
    LET asc == ~thAsc[col]
    IN  /\ tbody' = ApplySort(tbody, col, asc)
        /\ thAsc' = [thAsc EXCEPT ![col] = asc]
        /\ sorted' = [col |-> col, asc |-> asc]
        /\ UNCHANGED <<containers, polls, query, collapsed, allBtn, unfiltered, fresh>>

Remembered(p, hide) == IF hide THEN collapsed \cup {p} ELSE collapsed \ {p}

\* A click on the header of a group: its rows are hidden, or all of them shown.
GroupClick(i) ==
    LET hide == ~tbody[i].collapsed
        p == tbody[i].key
    IN  /\ tbody[i].header /\ tbody[i].shown
        /\ tbody' = [j \in DOMAIN tbody |->
                        IF j = i THEN [tbody[j] EXCEPT !.collapsed = hide]
                        ELSE IF j \in RowsOf(tbody, i) THEN [tbody[j] EXCEPT !.shown = ~hide]
                        ELSE tbody[j]]
        /\ collapsed' = Remembered(p, hide)
        /\ allBtn' = SyncCollapseAll(tbody')
        /\ unfiltered' = IF hide THEN unfiltered \ {p} ELSE unfiltered \cup {p}
        /\ fresh' = FALSE
        /\ UNCHANGED <<containers, polls, query, sorted, thAsc>>

CollapseAllClick ==
    LET list == IF AllCollapsed(tbody) THEN {} ELSE {tbody[i].key : i \in Headers(tbody)}
    IN  /\ collapsed' = list
        /\ tbody' = ApplyFilter(ApplyCollapsed(tbody, list), query)
        /\ allBtn' = SyncCollapseAll(tbody')
        /\ unfiltered' = {}
        /\ fresh' = FALSE
        /\ UNCHANGED <<containers, polls, query, sorted, thAsc>>

\* The page is loaded again: the button is set before the groups are.
Load ==
    /\ polls' = [p \in 1 .. MaxPolls |-> NoPoll]
    /\ tbody' = ApplyUI(GroupContainers(containers))
    /\ thAsc' = ThAscAfter([col \in Columns |-> FALSE])
    /\ allBtn' = SyncCollapseAll(GroupContainers(containers))
    /\ unfiltered' = {}
    /\ fresh' = TRUE
    /\ UNCHANGED <<containers, settings>>

Next ==
    \/ ContainersChange
    \/ \E p \in 1 .. MaxPolls : Poll(p) \/ ServerAnswers(p) \/ PollFails(p) \/ Update(p)
    \/ FilterInput
    \/ \E col \in Columns : SortClick(col)
    \/ \E i \in DOMAIN tbody : GroupClick(i)
    \/ CollapseAllClick
    \/ Load

Spec == Init /\ [][Next]_vars

-----------------------------------------------------------------------------
(* Properties                                                              *)

\* However often the table is sorted and replaced, each row is below the header
\* of its own project, no project has two headers or no rows, no container two
\* rows, and the rows of each group are in the order the user has chosen last.
GroupsKeepTheirRows ==
    /\ \A i, j \in DOMAIN tbody :
           (tbody[i].header = tbody[j].header /\ tbody[i].key = tbody[j].key) => i = j
    /\ tbody # <<>> => tbody[1].header
    /\ \A i \in Headers(tbody) :
           /\ RowsOf(tbody, i) # {}
           /\ \A j \in RowsOf(tbody, i) : Project[tbody[j].key] = tbody[i].key
           /\ \A j, k \in RowsOf(tbody, i) :
                  (j < k /\ sorted # NoSort) =>
                      LET x == Cell(tbody[j], sorted.col)
                          y == Cell(tbody[k], sorted.col)
                      IN  IF sorted.asc THEN x <= y ELSE y <= x

\* What is displayed is what the settings say, although rows are replaced by a
\* refresh at any moment and a click changes only what it is about: a group is
\* collapsed exactly if it is remembered as such, its rows are hidden then and
\* otherwise where the filter does not match.  A group that a click has expanded
\* shows all its rows until the filter is applied again.  The button for all
\* groups offers what a click on it does, once anything has been clicked or
\* refreshed after the page was loaded.
DisplayFollowsSettings ==
  /\ fresh \/ allBtn = AllCollapsed(tbody)
  /\ \A i \in Headers(tbody) :
        LET p == tbody[i].key
            rows == RowsOf(tbody, i)
        IN  /\ tbody[i].collapsed = (p \in collapsed)
            /\ \A j \in rows :
                   tbody[j].shown =
                       (p \notin collapsed /\ (p \in unfiltered \/ RowMatches(tbody[j], query)))
            /\ tbody[i].shown = (p \in collapsed \/ \E j \in rows : tbody[j].shown)

=============================================================================
