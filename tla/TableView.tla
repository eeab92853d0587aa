----------------------------- MODULE TableView -----------------------------
(***************************************************************************)
(* DataTable over a polled list: search and enumeration filters of the     *)
(* toolbar, sorting from the column header, pages and page sizes, while    *)
(* rows come, go and change with every poll.  The rows are numbers in the  *)
(* order of the server; sizes are scaled down, the smallest one below the  *)
(* initial one as 10 is below 20.                                          *)
(***************************************************************************)
EXTENDS Integers, FiniteSets

CONSTANTS
    N,          \* rows the server may have
    Sizes,      \* the page sizes that can be chosen
    MaxChanges  \* changes of the server's rows (bound)

TableViewAssumption ==
    /\ N \in Nat \ {0} /\ Sizes \subseteq Nat \ {0} /\ Cardinality(Sizes) > 1
    /\ MaxChanges \in Nat

Ids    == 1 .. N
Values == {"u", "v"}  \* what the enumeration column holds

\* What the tables differ in: the initial page size and a filter on a column of few values.
Table(size, filter) == [initialPageSize |-> size, filter |-> filter]
Smallest == CHOOSE s \in Sizes : \A r \in Sizes : s <= r
Usual    == CHOOSE s \in Sizes \ {Smallest} : \A r \in Sizes \ {Smallest} : s <= r

ScanJobsTable       == Table(Usual, TRUE)
SchedulesTable      == Table(Smallest, FALSE)
ASNTable            == Table(Usual, TRUE)
UsersTable          == Table(Usual, TRUE)
AgentsTable         == Table(Usual, TRUE)
BlacklistTable      == Table(Usual, TRUE)
AutomationRunsTable == Table(Usual, FALSE)

Tables == {ScanJobsTable, SchedulesTable, ASNTable, UsersTable, AgentsTable, BlacklistTable,
           AutomationRunsTable}

VARIABLES
    table,    \* the table under study
    rows,     \* server: the value of every row there is
    data,     \* the cached rows
    search, value,  \* the column filters; "all" is no filter
    sorting,  \* "none", "asc" or "desc"
    pageIndex, pageSize,
    changes

vars == <<table, rows, data, search, value, sorting, pageIndex, pageSize, changes>>
view == <<search, value, sorting, pageIndex, pageSize>>

RowSets == UNION {[S -> Values] : S \in SUBSET Ids}

TypeOK ==
    /\ table \in Tables
    /\ rows \in RowSets /\ data \in RowSets
    /\ search \in {"", "odd"} /\ value \in Values \cup {"all"}
    /\ sorting \in {"none", "asc", "desc"}
    /\ pageIndex \in 0 .. N /\ pageSize \in Sizes
    /\ changes \in 0 .. MaxChanges

Init ==
    /\ table \in Tables
    /\ rows = [i \in Ids |-> "u"] /\ data = rows
    /\ search = "" /\ value = "all" /\ sorting = "none"
    /\ pageIndex = 0 /\ pageSize = table.initialPageSize
    /\ changes = 0

-----------------------------------------------------------------------------
Filtered ==
    {i \in DOMAIN data : (search = "odd" => i % 2 = 1) /\ (value # "all" => data[i] = value)}

\* How many rows are before row i in the sorted list.
Before(i) ==
    Cardinality({j \in Filtered : IF sorting = "desc" THEN j > i ELSE j < i})

Page == {i \in Filtered : Before(i) \div pageSize = pageIndex}

PageCount == (Cardinality(Filtered) + pageSize - 1) \div pageSize

\* (mutant) It is there for more rows than the usual first page.
FooterShown_Usual == Cardinality(DOMAIN data) > Usual

\* The line of the pages is there for more rows than the first page held.
FooterShown == Cardinality(DOMAIN data) > table.initialPageSize

\* Another list of rows, other filters or another order lead back to the first page.
AutoResetPageIndex == pageIndex' = 0

Insert(i) ==
    /\ i \notin DOMAIN rows
    /\ rows' = [j \in DOMAIN rows \cup {i} |-> IF j = i THEN "u" ELSE rows[j]]

Remove(i) ==
    /\ i \in DOMAIN rows
    /\ rows' = [j \in DOMAIN rows \ {i} |-> rows[j]]

Update(i) ==
    /\ i \in DOMAIN rows
    /\ rows' = [rows EXCEPT ![i] = IF @ = "u" THEN "v" ELSE "u"]

Change ==
    /\ changes < MaxChanges /\ changes' = changes + 1
    /\ \E i \in Ids : Insert(i) \/ Remove(i) \/ Update(i)
    /\ UNCHANGED <<table, data, view>>

\* A poll that brings the same rows keeps the list it had.
Poll ==
    /\ data' = rows
    /\ IF rows # data THEN AutoResetPageIndex ELSE UNCHANGED pageIndex
    /\ UNCHANGED <<table, rows, search, value, sorting, pageSize, changes>>

Search(s) ==
    /\ s # search /\ search' = s
    /\ AutoResetPageIndex
    /\ UNCHANGED <<table, rows, data, value, sorting, pageSize, changes>>

ChooseValue(v) ==
    /\ table.filter /\ v # value /\ value' = v
    /\ AutoResetPageIndex
    /\ UNCHANGED <<table, rows, data, search, sorting, pageSize, changes>>

\* The button is enabled while there is a filter; sorting and page size stay.
ResetFilters ==
    /\ search # "" \/ value # "all"
    /\ search' = "" /\ value' = "all"
    /\ AutoResetPageIndex
    /\ UNCHANGED <<table, rows, data, sorting, pageSize, changes>>

ToggleSorting(s) ==
    /\ s # sorting /\ sorting' = s
    /\ AutoResetPageIndex
    /\ UNCHANGED <<table, rows, data, search, value, pageSize, changes>>

\* setPageSize keeps the first row of the page on the page.
SetPageSize(n) ==
    /\ FooterShown /\ n # pageSize
    /\ pageSize' = n
    /\ pageIndex' = (pageIndex * pageSize) \div n
    /\ UNCHANGED <<table, rows, data, search, value, sorting, changes>>

PreviousPage ==
    /\ FooterShown /\ pageIndex > 0
    /\ pageIndex' = pageIndex - 1
    /\ UNCHANGED <<table, rows, data, search, value, sorting, pageSize, changes>>

NextPage ==
    /\ FooterShown /\ pageIndex + 1 < PageCount
    /\ pageIndex' = pageIndex + 1
    /\ UNCHANGED <<table, rows, data, search, value, sorting, pageSize, changes>>

Next ==
    \/ Change \/ Poll \/ ResetFilters \/ PreviousPage \/ NextPage
    \/ \E s \in {"", "odd"} : Search(s)
    \/ \E v \in Values \cup {"all"} : ChooseValue(v)
    \/ \E s \in {"asc", "desc"} : ToggleSorting(s)
    \/ \E n \in Sizes : SetPageSize(n)

Spec == Init /\ [][Next]_vars

-----------------------------------------------------------------------------
(***************************************************************************)
(* The reader never looks at an empty page while there are rows to show,   *)
(* whatever polls and filters took away under the page that was open; no   *)
(* row is shown that the filters exclude and none is left out.  Every row  *)
(* can be reached: there is only one page, or the line of the pages is     *)
(* there.  It is not when the reader chose pages smaller than the initial  *)
(* ones and the list then got as short as an initial page.                 *)
(***************************************************************************)
PagesCoverRows ==
    /\ Filtered # {} => Page # {}
    /\ Page \subseteq Filtered /\ Cardinality(Page) <= pageSize
    /\ pageIndex + 1 < PageCount => Cardinality(Page) = pageSize
    /\ pageSize >= table.initialPageSize => FooterShown \/ PageCount <= 1
-----------------------------------------------------------------------------
\* The inductive invariant: a page that is not the first one begins within the list.
PageInList == pageIndex > 0 => pageIndex * pageSize < Cardinality(Filtered)

IInv == TypeOK /\ PageInList
=============================================================================
