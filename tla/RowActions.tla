----------------------------- MODULE RowActions -----------------------------
(***************************************************************************)
(* What a person does to the rows of a table: switching one on or off, and *)
(* deleting or stopping one after a question.  The rows are polled, others *)
(* change them, and the answers come late.  A row has a switch (of a job:  *)
(* that it is pending or running), other fields, one text, and may be one  *)
(* that the console does not remove (built in, or the own account).        *)
(***************************************************************************)
EXTENDS Naturals, FiniteSets

CONSTANTS
    Rows,       \* rows of a table
    Texts,      \* what the other fields of a row may be
    None,       \* no row
    MaxClicks,  \* requests a person sends (bound)
    MaxOthers   \* changes by others (bound)

RowActionsAssumption == None \notin Rows /\ MaxClicks \in Nat /\ MaxOthers \in Nat

\* What a switch sends ("row": all the cached fields; "flag": only itself), on which
\* devices it is, whether a viewer does not see it, on which devices a row can be
\* removed, how, and whether the question stays open until the answer.
Table(toggle, switches, gated, removers, removal, awaits) ==
    [toggle |-> toggle, switches |-> switches, gated |-> gated,
     removers |-> removers, removal |-> removal, awaits |-> awaits]

Both == {"table", "card"}
ScanJobsTable  == Table("none", {}, TRUE, Both, "stop", TRUE)
SchedulesTable == Table("row", Both, FALSE, {"table"}, "delete", FALSE)
ASNTable       == Table("flag", Both, TRUE, {"table"}, "delete", FALSE)
UsersTable     == Table("none", {}, TRUE, Both, "delete", TRUE)

Tables  == {ScanJobsTable, SchedulesTable, ASNTable, UsersTable}
Devices == Both  \* a narrow screen has cards

VARIABLES
    table, device, canManage,  \* what is looked at, on what, by whom
    rows,        \* server
    shown,       \* the cached rows
    confirming,  \* the row the open question is about
    requests,    \* requests that are not answered
    last,        \* history: how a row was switched last, what others saved of it last, and
                 \* whether a switch that did not know of that is to be expected
    others,      \* history: rows that others changed, or whose request failed
    clicks, changes

vars == <<table, device, canManage, rows, shown, confirming, requests, last, others,
          clicks, changes>>
page == <<table, device, canManage>>

Row == [there : BOOLEAN, enabled : BOOLEAN, text : Texts, fixed : BOOLEAN]

Request == [op : {"toggle", "remove"}, id : Rows, enabled : BOOLEAN, text : Texts,
            n : 0 .. MaxClicks, status : {"sent", "done", "failed"}]

TypeOK ==
    /\ table \in Tables /\ device \in Devices /\ canManage \in BOOLEAN
    /\ rows \in [Rows -> Row] /\ shown \in [Rows -> Row]
    /\ confirming \in Rows \cup {None}
    /\ requests \subseteq Request
    /\ last \in [Rows -> [enabled : BOOLEAN, text : Texts, undone : BOOLEAN]]
    /\ others \subseteq Rows
    /\ clicks \in 0 .. MaxClicks /\ changes \in 0 .. MaxOthers

Init ==
    /\ table \in Tables /\ device \in Devices /\ canManage \in BOOLEAN
    /\ \E t \in Texts, fixed \in SUBSET Rows :
        rows = [i \in Rows |-> [there |-> TRUE, enabled |-> TRUE, text |-> t, fixed |-> i \in fixed]]
    /\ shown = rows
    /\ confirming = None /\ requests = {}
    /\ last = [i \in Rows |-> [enabled |-> TRUE, text |-> rows[i].text, undone |-> FALSE]]
    /\ others = {}
    /\ clicks = 0 /\ changes = 0

-----------------------------------------------------------------------------
Poll ==
    /\ shown # rows /\ shown' = rows
    /\ UNCHANGED <<page, rows, confirming, requests, last, others, clicks, changes>>

\* The switchings of row i that are to be served.
Switches(i) == {r \in requests : r.op = "toggle" /\ r.id = i /\ r.status = "sent"}

\* Others edit, switch or remove a row; a job that ended does not run again.
OtherChange(i) ==
    /\ changes < MaxOthers /\ changes' = changes + 1
    /\ rows[i].there
    /\ \/ \E t \in Texts \ {rows[i].text} :
            /\ rows' = [rows EXCEPT ![i].text = t]
            /\ last' = [last EXCEPT ![i].text = t,
                        ![i].undone = table.toggle = "row" /\ \E r \in Switches(i) : r.text # t]
       \/ /\ table.removal = "stop" => rows[i].enabled
          /\ rows' = [rows EXCEPT ![i].enabled = ~@] /\ UNCHANGED last
       \/ rows' = [rows EXCEPT ![i].there = FALSE] /\ UNCHANGED last
    /\ others' = others \cup {i}
    /\ UNCHANGED <<page, shown, confirming, requests, clicks>>

Pending(op) == \E r \in requests : r.op = op

Send(op, i, enabled) ==
    /\ clicks < MaxClicks /\ clicks' = clicks + 1
    /\ requests' = requests \cup {[op |-> op, id |-> i, enabled |-> enabled, text |-> shown[i].text,
                                   n |-> clicks, status |-> "sent"]}

\* (mutant) No switch waits.
SwitchOffered_Always(i) ==
    /\ shown[i].there /\ device \in table.switches
    /\ canManage \/ (~table.gated /\ device = "table")

\* The switch of a table waits for the answer; the one of a card does not.
SwitchOffered(i) ==
    /\ shown[i].there /\ device \in table.switches
    /\ canManage \/ (~table.gated /\ device = "table")
    /\ device = "table" => ~Pending("toggle")

Toggle(i) ==
    /\ SwitchOffered(i) /\ confirming = None
    /\ Send("toggle", i, ~shown[i].enabled)
    /\ last' = [last EXCEPT ![i].enabled = ~shown[i].enabled,
                ![i].undone = @ \/ (table.toggle = "row" /\ shown[i].text # last[i].text)]
    /\ UNCHANGED <<page, rows, shown, confirming, others, changes>>

\* A built-in source, the own account and a job that has ended cannot be chosen.
RemovalOffered(i) ==
    /\ canManage /\ shown[i].there /\ device \in table.removers
    /\ IF table.removal = "stop" THEN shown[i].enabled ELSE ~shown[i].fixed

\* The item of the job menu handles onSelect, which no click of a menu item raises.
Asks(i) == IF table = ScanJobsTable /\ device = "table" THEN None ELSE i

ChooseRemoval(i) ==
    /\ RemovalOffered(i) /\ confirming = None
    /\ confirming' = Asks(i)
    /\ UNCHANGED <<page, rows, shown, requests, last, others, clicks, changes>>

Cancel ==
    /\ confirming # None /\ confirming' = None
    /\ UNCHANGED <<page, rows, shown, requests, last, others, clicks, changes>>

\* A question that waits has its button disabled while a removal is on its way.
MayConfirm == confirming # None /\ (table.awaits => ~Pending("remove"))

Confirm ==
    /\ MayConfirm
    /\ Send("remove", confirming, FALSE)
    /\ IF table.awaits THEN UNCHANGED confirming ELSE confirming' = None
    /\ UNCHANGED <<page, rows, shown, last, others, changes>>

\* (mutant) Every switch sends the whole row.
Effect_Row(r) ==
    IF r.op = "toggle" THEN [rows EXCEPT ![r.id].enabled = r.enabled, ![r.id].text = r.text]
    ELSE IF table.removal = "stop" THEN [rows EXCEPT ![r.id].enabled = FALSE]
    ELSE [rows EXCEPT ![r.id].there = FALSE]

\* requireAdmin, then the update: a schedule gets all its fields, a source the switch alone.
Effect(r) ==
    IF r.op = "toggle"
    THEN IF table.toggle = "row" THEN [rows EXCEPT ![r.id].enabled = r.enabled, ![r.id].text = r.text]
         ELSE [rows EXCEPT ![r.id].enabled = r.enabled]
    ELSE IF table.removal = "stop" THEN [rows EXCEPT ![r.id].enabled = FALSE]
    ELSE [rows EXCEPT ![r.id].there = FALSE]

Accepted(r) ==
    /\ canManage /\ rows[r.id].there
    /\ r.op = "remove" /\ table.removal = "stop" => rows[r.id].enabled

Answer(r, status) == requests' = (requests \ {r}) \cup {[r EXCEPT !.status = status]}

Serve(r) ==
    /\ r.status = "sent"
    /\ \/ Accepted(r) /\ rows' = Effect(r) /\ Answer(r, "done") /\ UNCHANGED others
       \/ UNCHANGED rows /\ Answer(r, "failed") /\ others' = others \cup {r.id}
    /\ UNCHANGED <<page, shown, confirming, last, clicks, changes>>

\* A success reads the rows again and closes a question that waited, whichever it is now.
Done(r) ==
    /\ r.status = "done" /\ requests' = requests \ {r}
    /\ shown' \in {rows, shown}
    /\ confirming' = IF r.op = "remove" /\ table.awaits THEN None ELSE confirming
    /\ UNCHANGED <<page, rows, last, others, clicks, changes>>

Failed(r) ==
    /\ r.status = "failed" /\ requests' = requests \ {r}
    /\ UNCHANGED <<page, rows, shown, confirming, last, others, clicks, changes>>

Next ==
    \/ Poll \/ Cancel \/ Confirm
    \/ \E i \in Rows : OtherChange(i) \/ Toggle(i) \/ ChooseRemoval(i)
    \/ \E r \in requests : Serve(r) \/ Done(r) \/ Failed(r)

Spec == Init /\ [][Next]_vars

-----------------------------------------------------------------------------
(***************************************************************************)
(* In a table, a row that nobody else changed ends up as it was switched   *)
(* last: two requests for it never overtake each other.  (On a card the    *)
(* switch stays enabled, and they may.)                                    *)
(***************************************************************************)
LastToggleWins ==
    device = "table" /\ requests = {} =>
        \A i \in Rows \ others : rows[i].there /\ table.toggle # "none" => rows[i].enabled = last[i].enabled

(***************************************************************************)
(* What others saved of a row outlasts its switch.  The switch of a source *)
(* never takes it back, however old the row is that the page shows; the    *)
(* switch of a schedule, which sends all the cached fields, does so only   *)
(* when it was on its way as they saved, or was clicked on a page that did *)
(* not show their edit yet: nothing that comes later undoes it.            *)
(***************************************************************************)
SwitchesKeepEdits == \A i \in Rows : ~last[i].undone => rows[i].text = last[i].text

-----------------------------------------------------------------------------
(***************************************************************************)
(* The inductive invariant.  Of a table one switch is on its way at most,  *)
(* and a row of it that nobody else changed is as it was switched last     *)
(* unless that request is still to be served.  A switching that sends all  *)
(* fields sends the text the row has.                                      *)
(***************************************************************************)
OneToggle ==
    device = "table" =>
        \A r, p \in requests : r.op = "toggle" /\ p.op = "toggle" => r = p

LastKept ==
    device = "table" /\ table.toggle # "none" =>
        \A i \in Rows \ others : rows[i].there =>
            /\ Switches(i) # {} \/ rows[i].enabled = last[i].enabled
            /\ \A r \in Switches(i) : r.enabled = last[i].enabled

\* A row holds what others saved last, and so does every switching of it that sends all.
EditKept ==
    \A i \in Rows : ~last[i].undone =>
        /\ rows[i].text = last[i].text
        /\ table.toggle = "row" => \A r \in Switches(i) : r.text = last[i].text

IInv == TypeOK /\ OneToggle /\ LastKept /\ EditKept
=============================================================================
