----------------------------- MODULE ServerPages -----------------------------
(***************************************************************************)
(* A list whose pages the server cuts: the results, and the candidates and *)
(* prefixes of the league.  The page shows the last answer while the one   *)
(* for the new page, size or filter is on its way (keepPreviousData), and  *)
(* its buttons work on what is shown.  Meanwhile the list grows and        *)
(* shrinks.  Sizes are scaled down.                                        *)
(***************************************************************************)
EXTENDS Integers

CONSTANTS
    Filters,     \* what may be filtered for
    MaxTotal,    \* rows there may be for one filter
    Sizes,       \* the page sizes that can be chosen
    InitialSize,
    MaxChanges   \* changes of the list (bound)

ServerPagesAssumption ==
    /\ MaxTotal \in Nat /\ Sizes \subseteq Nat \ {0} /\ InitialSize \in Sizes
    /\ MaxChanges \in Nat

\* clamps: the server goes back to the last page; keeps: a new size keeps the place.
ResultsTable == [clamps |-> FALSE, keeps |-> TRUE]
LeaguePage   == [clamps |-> TRUE, keeps |-> FALSE]
Lists        == {ResultsTable, LeaguePage}

VARIABLES
    list,
    total,    \* server: rows per filter
    asked,    \* state of the page: [filter, page, size]
    data,     \* what is shown: the question it answers, the page, the total
    changes

vars == <<list, total, asked, data, changes>>

Pages    == 1 .. MaxTotal + 1
Question == [filter : Filters, page : Pages, size : Sizes]
TotalPages(n, size) == (n + size - 1) \div size

Smaller(a, b) == IF a < b THEN a ELSE b
Larger(a, b)  == IF a > b THEN a ELSE b

TypeOK ==
    /\ list \in Lists /\ total \in [Filters -> 0 .. MaxTotal]
    /\ asked \in Question
    /\ data \in [for : Question, page : Pages, total : 0 .. MaxTotal]
    /\ changes \in 0 .. MaxChanges

-----------------------------------------------------------------------------
\* The page the server answers with: the results as asked, the league within the list.
normalizeLeaguePage(n, page, size) ==
    IF ~list.clamps THEN page
    ELSE IF n = 0 THEN 1 ELSE Smaller(page, TotalPages(n, size))

Reply(q, n) == [for |-> q, page |-> normalizeLeaguePage(n, q.page, q.size), total |-> n]

Rows(d) == Larger(0, Smaller(d.for.size, d.total - (d.page - 1) * d.for.size))

Init ==
    /\ list \in Lists /\ total \in [Filters -> 0 .. MaxTotal]
    /\ asked \in [filter : Filters, page : {1}, size : {InitialSize}]
    /\ data = [for |-> asked, page |-> normalizeLeaguePage(total[asked.filter], 1, InitialSize),
               total |-> total[asked.filter]]
    /\ changes = 0

\* What was shown stays, or there is an older answer in the cache.
Ask(q) ==
    /\ asked' = q
    /\ \/ data' = data
       \/ \E n \in 0 .. MaxTotal : data' = Reply(q, n)
    /\ UNCHANGED <<list, total, changes>>

ChangeFilter(f) ==
    /\ f # asked.filter
    /\ Ask([asked EXCEPT !.filter = f, !.page = 1])

\* Both pagers are there while there are rows; the table clamps to the pages it knows.
Pager == list.keeps \/ data.total > 0
Last  == TotalPages(data.total, data.for.size)

PreviousPage ==
    /\ Pager /\ data.page > 1
    /\ Ask([asked EXCEPT !.page = IF list.keeps THEN Larger(1, Smaller(data.page - 1, Last))
                                  ELSE data.page - 1,
                         !.size = IF list.keeps THEN data.for.size ELSE @])

NextPage ==
    /\ Pager /\ data.page < Last
    /\ Ask([asked EXCEPT !.page = data.page + 1, !.size = IF list.keeps THEN data.for.size ELSE @])

\* (mutant) The page keeps its number, not its place.
PageAtSize_SameNumber(n) == IF list.keeps THEN data.page ELSE 1

\* The page of size n that begins with or holds the first row shown.
PageAtSize(n) == IF list.keeps THEN ((data.page - 1) * data.for.size) \div n + 1 ELSE 1

SetPageSize(n) ==
    /\ Pager /\ n # data.for.size
    /\ Ask([asked EXCEPT !.page = PageAtSize(n), !.size = n])

\* The answer for the question as it is, or its repetition by the timer.
Answer ==
    /\ data' = Reply(asked, total[asked.filter])
    /\ UNCHANGED <<list, total, asked, changes>>

Change ==
    /\ changes < MaxChanges /\ changes' = changes + 1
    /\ \E f \in Filters, n \in 0 .. MaxTotal : total' = [total EXCEPT ![f] = n]
    /\ UNCHANGED <<list, asked, data>>

Next ==
    \/ \E f \in Filters : ChangeFilter(f)
    \/ \E n \in Sizes : SetPageSize(n)
    \/ PreviousPage \/ NextPage \/ Answer \/ Change

Spec == Init /\ [][Next]_vars

-----------------------------------------------------------------------------
(***************************************************************************)
(* The league never shows an empty page of a list with rows, although the  *)
(* list shrinks and the buttons work on an older answer.                   *)
(***************************************************************************)
LeaguePageHasRows == list.clamps /\ data.total > 0 => Rows(data) > 0

(***************************************************************************)
(* Another page size keeps the first row the reader saw on the page.  The  *)
(* results may be on an empty page: the list shrank, or the next page was  *)
(* asked for while another filter was on its way.  One click back asks for *)
(* a page that had rows.                                                   *)
(***************************************************************************)
KeepsPlace ==
    /\ \A n \in Sizes : list.keeps /\ SetPageSize(n) =>
        LET first == (data.page - 1) * data.for.size IN
        (asked'.page - 1) * n <= first /\ first < asked'.page * n
    /\ PreviousPage /\ data.total > 0 => asked'.page <= Last

ReaderKeepsPlace == [][KeepsPlace]_vars
-----------------------------------------------------------------------------
(***************************************************************************)
(* The inductive invariant.  What is shown is the answer to a question     *)
(* that was asked, and the results are asked for from a row there may be.  *)
(***************************************************************************)
AnswersQuestion == data = Reply(data.for, data.total)

WithinTotal(question) == (question.page - 1) * question.size <= MaxTotal

IInv == TypeOK /\ AnswersQuestion /\ (list.keeps => WithinTotal(asked) /\ WithinTotal(data.for))
=============================================================================
