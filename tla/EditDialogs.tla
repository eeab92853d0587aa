---------------------------- MODULE EditDialogs ----------------------------
(***************************************************************************)
(* The dialogs in which a person creates or edits a row: a form that is    *)
(* filled from the cached row, a request that is answered while the form   *)
(* may have changed, been closed or been opened for another row, and the   *)
(* question before edits are thrown away.  One dialog is under study; what *)
(* the dialogs of the console differ in is a record each.  What a form     *)
(* holds is one text; a row also has fields that change by themselves (the *)
(* next run, the number of candidates).                                    *)
(***************************************************************************)
EXTENDS Naturals, FiniteSets

CONSTANTS
    Rows,     \* rows of the edited table
    Texts,    \* what can be entered
    Blank,    \* the defaults of a form
    New,      \* the target of a dialog that creates a row
    Closed,   \* the target of a closed dialog
    MaxTyped, \* texts entered (bound)
    MaxChanges  \* changes of rows by others or by themselves (bound)

EditDialogsAssumption ==
    /\ Blank \notin Texts /\ New \notin Rows /\ Closed \notin Rows /\ New # Closed
    /\ MaxTyped \in Nat /\ MaxChanges \in Nat

\* Which targets a dialog has, whether it asks before edits are lost, when it fills
\* the form ("opening", "closing", or with all new "data" too), and whether with the
\* row or with the defaults.
Kind(targets, asks, fills, blank) ==
    [targets |-> targets, asks |-> asks, fills |-> fills, blank |-> blank]

CreateScanDialog       == Kind({New}, TRUE, "closing", TRUE)
ScheduleDialog         == Kind(Rows \cup {New}, TRUE, "opening", FALSE)
BlacklistRecheckPanel  == Kind(Rows, FALSE, "data", FALSE)
SourceSyncPanel        == Kind(Rows, FALSE, "opening", FALSE)
EnrollmentApprovalPage == Kind(Rows, FALSE, "data", FALSE)
CreateASNDialog        == Kind({New}, FALSE, "closing", TRUE)
UserDialog             == Kind(Rows \cup {New}, FALSE, "opening", FALSE)
ResetPasswordDialog    == Kind(Rows, FALSE, "opening", TRUE)

Kinds == {CreateScanDialog, ScheduleDialog, BlacklistRecheckPanel, SourceSyncPanel,
          EnrollmentApprovalPage, CreateASNDialog, UserDialog, ResetPasswordDialog}

VARIABLES
    kind,      \* the dialog under study
    rows,      \* server: the text and the tick of every row
    shown,     \* the cached rows
    target,    \* the row the dialog is open for, New or Closed
    form,      \* what is entered, the values it is compared with, and the row it is of
    asking,    \* the question about unsaved changes is open
    requests,  \* the requests that are not over; the dialog waits for a live one
    last,      \* history: the text last submitted for a row
    contested, \* history: rows that others saved, or that two requests went for at once
    typed, changes

vars == <<kind, rows, shown, target, form, asking, requests, last, contested, typed, changes>>

Entries == Texts \cup {Blank}
Tables  == [Rows -> [text : Entries, tick : 0 .. MaxChanges]]
Forms   == [text : Entries, base : Entries, of : Rows \cup {New}]
Request == [item : Rows \cup {New}, of : Rows \cup {New}, text : Entries,
            status : {"sent", "saved", "failed"}, live : BOOLEAN]

TypeOK ==
    /\ kind \in Kinds
    /\ rows \in Tables /\ shown \in Tables
    /\ target \in Rows \cup {New, Closed}
    /\ form \in Forms
    /\ asking \in BOOLEAN
    /\ requests \subseteq Request /\ \A r, p \in requests : r.live /\ p.live => r = p
    /\ last \in [Rows -> Entries] /\ contested \subseteq Rows
    /\ typed \in 0 .. MaxTyped /\ changes \in 0 .. MaxChanges

Open    == target # Closed
Dirty   == form.text # form.base
Pending == \E r \in requests : r.live

\* form.reset with the values of target x.
Filled(x, table) ==
    LET text == IF x = New \/ kind.blank THEN Blank ELSE table[x].text
    IN  [text |-> text, base |-> text, of |-> x]

Init ==
    /\ kind \in Kinds
    /\ \E t \in [Rows -> Texts] : rows = [i \in Rows |-> [text |-> t[i], tick |-> 0]]
    /\ shown = rows /\ last = [i \in Rows |-> rows[i].text]
    /\ target = Closed /\ form = [text |-> Blank, base |-> Blank, of |-> New]
    /\ asking = FALSE /\ requests = {} /\ contested = {}
    /\ typed = 0 /\ changes = 0

-----------------------------------------------------------------------------
\* (mutant) The effect depends on the polled row in every dialog.
Follows_All(table) == form' = IF Open /\ table # shown THEN Filled(target, table) ELSE form

\* An effect fills the form again when the data it depends on change under it.
Follows(table) ==
    form' = IF kind.fills = "data" /\ Open /\ table # shown THEN Filled(target, table) ELSE form

Poll ==
    /\ shown # rows /\ shown' = rows
    /\ Follows(rows)
    /\ UNCHANGED <<kind, rows, target, asking, requests, last, contested, typed, changes>>

\* Another administrator saves a row.
OtherSave(i, t) ==
    /\ changes < MaxChanges /\ changes' = changes + 1
    /\ rows' = [rows EXCEPT ![i].text = t]
    /\ contested' = contested \cup {i}
    /\ UNCHANGED <<kind, shown, target, form, asking, requests, last, typed>>

Tick(i) ==
    /\ changes < MaxChanges /\ changes' = changes + 1
    /\ rows' = [rows EXCEPT ![i].tick = @ + 1]
    /\ UNCHANGED <<kind, shown, target, form, asking, requests, last, contested, typed>>

\* A dialog that is filled at its closing is opened as that left it.
OpenFor(x) ==
    /\ ~Open /\ x \in kind.targets
    /\ target' = x
    /\ form' = IF kind.fills = "closing" THEN form ELSE Filled(x, shown)
    /\ UNCHANGED <<kind, rows, shown, asking, requests, last, contested, typed, changes>>

Type(t) ==
    /\ Open /\ ~asking /\ t # form.text
    /\ typed < MaxTyped /\ typed' = typed + 1
    /\ form' = [form EXCEPT !.text = t]
    /\ UNCHANGED <<kind, rows, shown, target, asking, requests, last, contested, changes>>

\* Closing resets a form that asks or that is filled then.
Closes ==
    /\ target' = Closed /\ asking' = FALSE
    /\ form' = IF kind.asks \/ kind.fills = "closing" THEN [form EXCEPT !.text = form.base] ELSE form

\* requestOpenChange, requestClose: no question while a request is on its way.
RequestClose ==
    /\ Open /\ ~asking
    /\ IF kind.asks /\ Dirty /\ ~Pending
       THEN asking' = TRUE /\ UNCHANGED <<target, form>>
       ELSE Closes
    /\ UNCHANGED <<kind, rows, shown, requests, last, contested, typed, changes>>

KeepEditing ==
    /\ asking /\ asking' = FALSE
    /\ UNCHANGED <<kind, rows, shown, target, form, requests, last, contested, typed, changes>>

Discard ==
    /\ asking /\ Closes
    /\ UNCHANGED <<kind, rows, shown, requests, last, contested, typed, changes>>

\* The page is left, and with it the form; a request that is on its way goes on.
Leave ==
    /\ \A r \in requests : r.live
    /\ Open \/ Pending
    /\ target' = Closed /\ asking' = FALSE
    /\ form' = [text |-> Blank, base |-> Blank, of |-> New]
    /\ requests' = {[r EXCEPT !.live = FALSE] : r \in requests}
    /\ UNCHANGED <<kind, rows, shown, last, contested, typed, changes>>

\* (mutant) The button stays enabled.
MaySubmit_Twice == Open /\ ~asking

\* The button is disabled while a request is on its way.
MaySubmit == Open /\ ~asking /\ ~Pending

Submit ==
    /\ MaySubmit
    /\ requests' = requests \cup {[item |-> target, of |-> form.of, text |-> form.text,
                                   status |-> "sent", live |-> TRUE]}
    /\ last' = [i \in Rows |-> IF i = target THEN form.text ELSE last[i]]
    /\ contested' = contested \cup {r.item : r \in {q \in requests : q.item \in Rows /\ ~q.live}}
    /\ UNCHANGED <<kind, rows, shown, target, form, asking, typed, changes>>

\* The server saves, or the request fails; one nobody waits for is over.
Saved(r) == [rows EXCEPT ![r.item].text = r.text]

Replace(r, new) == requests' = (requests \ {r}) \cup (IF r.live THEN {new} ELSE {})

Serve(r) ==
    /\ r.status = "sent"
    /\ \/ /\ rows' = IF r.item \in Rows THEN Saved(r) ELSE rows
          /\ Replace(r, [r EXCEPT !.status = "saved"])
          /\ UNCHANGED contested
       \/ /\ Replace(r, [r EXCEPT !.status = "failed"])
          /\ contested' = contested \cup ({r.item} \cap Rows)
          /\ UNCHANGED rows
    /\ UNCHANGED <<kind, shown, target, form, asking, last, typed, changes>>

\* After a success the rows are read again, and the form is closed, whichever row it
\* has been opened for in the meantime; ScheduleDialog also resets it to the values that
\* were saved, which are those of the row of the request.
SavedForm(r) ==
    IF kind = ScheduleDialog THEN [text |-> r.text, base |-> r.text, of |-> r.of]
    ELSE IF kind.fills = "closing" THEN [form EXCEPT !.text = form.base] ELSE form

Continue(r) ==
    /\ r.live /\ r.status = "saved"
    /\ requests' = requests \ {r}
    /\ shown' \in {rows, shown}
    /\ target' = Closed /\ form' = SavedForm(r)
    /\ UNCHANGED <<kind, rows, asking, last, contested, typed, changes>>

\* onError: a message; the form stays.
Fail(r) ==
    /\ r.live /\ r.status = "failed"
    /\ requests' = requests \ {r}
    /\ UNCHANGED <<kind, rows, shown, target, form, asking, last, contested, typed, changes>>

Next ==
    \/ Poll \/ RequestClose \/ KeepEditing \/ Discard \/ Leave \/ Submit
    \/ \E i \in Rows : Tick(i) \/ \E t \in Texts : OtherSave(i, t)
    \/ \E x \in Rows \cup {New} : OpenFor(x)
    \/ \E t \in Texts : Type(t)
    \/ \E r \in requests : Serve(r) \/ Continue(r) \/ Fail(r)

Spec == Init /\ [][Next]_vars

-----------------------------------------------------------------------------
(***************************************************************************)
(* When all is answered, a row that nobody else saved holds what was       *)
(* submitted last, in whatever order dialogs were opened and answers came: *)
(* although one dialog serves all rows, and an answer may find it open for *)
(* another one, a request carries the values of the row it goes to.        *)
(***************************************************************************)
LastSaveWins ==
    /\ requests = {} => \A i \in Rows \ contested : rows[i].text = last[i]
    /\ \A r \in requests : r.of = r.item

(***************************************************************************)
(* Entered text is taken, from any dialog and at any time, only by a save  *)
(* that succeeded (the one of this form, or an earlier one that finds the  *)
(* dialog opened again), by the person (who leaves the page, or closes the *)
(* dialog, which asks first unless it never does or a save is on its way), *)
(* or, in a panel that follows its row, by a row that has changed: no      *)
(* failure, change by others or other poll takes it.  Such a panel never   *)
(* compares what is entered with a row older than the one the page shows.  *)
(* And any dialog opens with the row as the page shows it, or with the     *)
(* defaults: nothing of an earlier editing is left.                        *)
(***************************************************************************)
TextTaken == Open /\ Dirty /\ typed' = typed /\ (target' # target \/ form'.text # form.text)

KeepsEdits ==
    /\ TextTaken =>
         \/ \E r \in requests \ requests' : r.status = "saved"
         \/ Leave
         \/ /\ target' = Closed /\ UNCHANGED <<rows, shown, requests>>
            /\ asking \/ Pending \/ ~kind.asks
         \/ kind.fills = "data" /\ target' = target /\ shown' # shown
    /\ kind.fills = "data" /\ target' # Closed => form'.base = shown'[target'].text
    /\ ~Open /\ Open' => form' = Filled(target', shown)

EditsAreKept == [][KeepsEdits]_vars
-----------------------------------------------------------------------------
(***************************************************************************)
(* The inductive invariant.  A dialog that is filled at its closing opens  *)
(* as that left it: it must have left the defaults, which are the base of  *)
(* its form always.                                                        *)
(***************************************************************************)
StartsBlank ==
    kind.fills = "closing" =>
        /\ form.base = Blank /\ form.of = New
        /\ target = Closed => form.text = Blank

\* A panel that is filled with all new data compares with the row as the page shows it.
FollowsRow ==
    kind.fills = "data" /\ Open => target \in Rows /\ form.base = shown[target].text

\* The form is of the row the dialog is open for, and a request of the row it goes to.
OwnForm ==
    /\ Open => form.of = target
    /\ \A r \in requests : r.of = r.item

\* What was submitted last for a row is in the one request for it that was not served
\* yet, or it is saved.
LastKept ==
    \A i \in Rows \ contested :
        /\ (\E r \in requests : r.item = i /\ r.status = "sent") \/ rows[i].text = last[i]
        /\ \A r \in requests : r.item = i /\ r.status = "sent" => r.text = last[i]

TicksCounted == \A i \in Rows : rows[i].tick <= changes

IInv == TypeOK /\ StartsBlank /\ FollowsRow /\ OwnForm /\ LastKept /\ TicksCounted
=============================================================================
