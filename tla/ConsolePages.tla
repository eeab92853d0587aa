---------------------------- MODULE ConsolePages ----------------------------
(***************************************************************************)
(* The pages of the console, one at a time: its forms and dialogs, its     *)
(* tables and lists, and the queries behind them, which share no state     *)
(* with each other.  A behaviour is one of the part it begins with; the    *)
(* variables are those of that part, in the order of its module.           *)
(***************************************************************************)
EXTENDS Integers, FiniteSets

CONSTANTS
    Agents, Items, Words,           \* Agents, rows and texts of forms and tables
    Blank, New, Closed, NoRow,
    MaxEdits, MaxOutages,           \* bounds of the form
    MaxTyped, MaxChanges,           \* of dialogs
    MaxClicks, MaxOthers,           \* of the actions on rows
    TableRows, TableSizes,          \* of tables
    Colos, Jobs, Ranges, Searches, DefaultRange, Empty, MaxPage, \* of the results
    Filters, MaxTotal, ListSizes, InitialSize, MaxListChanges,   \* of lists
    Followed, MaxWrites, MaxPending, MaxFaults                   \* of the queries

VARIABLES part, v1, v2, v3, v4, v5, v6, v7, v8, v9, v10, v11

vars == <<part, v1, v2, v3, v4, v5, v6, v7, v8, v9, v10, v11>>

Form == INSTANCE ScanForm WITH
    kind <- v1, form <- v2, advanced <- v3, errors <- v4, online <- v5, known <- v6,
    sent <- v7, job <- v8, answer <- v9, edits <- v10, outages <- v11

Dialog == INSTANCE EditDialogs WITH
    Rows <- Items, Texts <- Words,
    kind <- v1, rows <- v2, shown <- v3, target <- v4, form <- v5, asking <- v6,
    requests <- v7, last <- v8, contested <- v9, typed <- v10, changes <- v11

Table == INSTANCE TableView WITH
    N <- TableRows, Sizes <- TableSizes, MaxChanges <- TableRows - 1,
    table <- v1, rows <- v2, data <- v3, search <- v4, value <- v5, sorting <- v6,
    pageIndex <- v7, pageSize <- v8, changes <- v9

Row == INSTANCE RowActions WITH
    Rows <- Items, Texts <- Words, None <- NoRow,
    table <- v1, device <- v2, canManage <- v3, rows <- v4, shown <- v5,
    confirming <- v6, requests <- v7, last <- v8, others <- v9, clicks <- v10, changes <- v11

Cascade == INSTANCE ResultFilters WITH
    Default <- DefaultRange, None <- Empty,
    view <- v1, search <- v2, agentId <- v3, jobId <- v4, available <- v5, timeRange <- v6,
    sorting <- v7, page <- v8, geo <- v9, facets <- v10, jobs <- v11

List == INSTANCE ServerPages WITH
    Sizes <- ListSizes, MaxChanges <- MaxListChanges,
    list <- v1, total <- v2, asked <- v3, data <- v4, changes <- v5

Queries == INSTANCE ConsoleQueries WITH
    watched <- v1, page <- v2, srv <- v3, q <- v4, phase <- v5, waits <- v6, own <- v7,
    overtaken <- v8, faults <- v9

ASSUME ConsolePagesAssumption ==
    /\ Form!ScanFormAssumption /\ Dialog!EditDialogsAssumption /\ Table!TableViewAssumption
    /\ Row!RowActionsAssumption /\ Cascade!ResultFiltersAssumption /\ List!ServerPagesAssumption
    /\ Queries!ConsoleQueriesAssumption

Unused(v) == v = "unused"

Init ==
    \/ part = "form"    /\ Form!Init
    \/ part = "dialog"  /\ Dialog!Init
    \/ part = "table"   /\ Table!Init   /\ Unused(v10) /\ Unused(v11)
    \/ part = "row"     /\ Row!Init
    \/ part = "cascade" /\ Cascade!Init
    \/ part = "list"    /\ List!Init    /\ Unused(v6) /\ Unused(v7) /\ Unused(v8) /\ Unused(v9)
                                        /\ Unused(v10) /\ Unused(v11)
    \/ part = "queries" /\ Queries!Init /\ Unused(v10) /\ Unused(v11)

Next ==
    /\ UNCHANGED part
    /\ \/ part = "form"    /\ Form!Next
       \/ part = "dialog"  /\ Dialog!Next
       \/ part = "table"   /\ Table!Next   /\ UNCHANGED <<v10, v11>>
       \/ part = "row"     /\ Row!Next
       \/ part = "cascade" /\ Cascade!Next
       \/ part = "list"    /\ List!Next    /\ UNCHANGED <<v6, v7, v8, v9, v10, v11>>
       \/ part = "queries" /\ Queries!Next /\ UNCHANGED <<v10, v11>>

Spec == Init /\ [][Next]_vars

-----------------------------------------------------------------------------
\* Every part keeps the types of its module.
TypeOK ==
    /\ part = "form" => Form!TypeOK
    /\ part = "dialog" => Dialog!TypeOK
    /\ part = "table" => Table!TypeOK
    /\ part = "row" => Row!TypeOK
    /\ part = "cascade" => Cascade!TypeOK
    /\ part = "list" => List!TypeOK
    /\ part = "queries" => Queries!TypeOK

\* What the form lets through is accepted by the server and kept as entered.
SubmissionHonoured == part = "form" => Form!SubmissionHonoured

\* A row that nobody else saved holds what was submitted last for it.
LastSaveWins == part = "dialog" => Dialog!LastSaveWins

\* Only a save, the person, or in a panel its changed row takes what a dialog holds.
EditsAreKept == [][part = "dialog" => Dialog!KeepsEdits]_vars

\* No page of a table or of the league is empty while there are rows, and the pages
\* of a table show all that its filters let through.
PagesCoverRows ==
    /\ part = "table" => Table!PagesCoverRows
    /\ part = "list" => List!LeaguePageHasRows

\* A row of a table that nobody else changed is as it was switched last.
LastToggleWins == part = "row" => Row!LastToggleWins

\* A switch takes back what others saved only if it could not know of it.
SwitchesKeepEdits == part = "row" => Row!SwitchesKeepEdits

\* What is shown and sent of the cascade of places is one with results.
CascadeHasResults == part = "cascade" => Cascade!CascadeHasResults

\* Another page size and a click back lead to rows the reader saw or that exist.
ReaderKeepsPlace == [][part = "list" => List!KeepsPlace]_vars

\* What a mutation of this tab changed is what a settled page shows.
OwnWritesShown == part = "queries" => Queries!OwnWritesShown

-----------------------------------------------------------------------------
\* What holds initially and is kept by every step: the invariant of the part shown.
IInv ==
    /\ part = "form" => Form!IInv
    /\ part = "dialog" => Dialog!IInv
    /\ part = "table" => Table!IInv
    /\ part = "row" => Row!IInv
    /\ part = "cascade" => Cascade!TypeOK
    /\ part = "list" => List!IInv
    /\ part = "queries" => Queries!IInv
=============================================================================
