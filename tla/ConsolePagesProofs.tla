------------------------- MODULE ConsolePagesProofs -------------------------
(***************************************************************************)
(* Proofs about ConsolePages.  Each part has an inductive invariant of its *)
(* own, IInv in its module: a lemma Init says that it holds initially, a   *)
(* lemma Step that every step keeps it, and the lemmas after these what    *)
(* follows from it.  The last section puts the parts together.  In a proof *)
(* the variables have the names they have in the module of the part.       *)
(***************************************************************************)
EXTENDS ConsolePages, FiniteSetTheorems, TLAPS

-----------------------------------------------------------------------------
(* The scan and schedule forms. *)

\* The ends and the defaults of the numeric fields.
LEMMA FormNumbers ==
  /\ Form!Numbers = {"target_count", "port", "attempts", "timeout_ms", "max_latency_ms",
                     "max_packet_loss", "blacklist_minutes"}
  /\ \A f \in Form!Numbers :
        /\ Form!Low[f] \in Int /\ 0 <= Form!Low[f] /\ Form!Low[f] <= 500
        /\ Form!High[f] \in Int /\ 10 <= Form!High[f] /\ Form!High[f] <= 65535
        /\ Form!Default[f] \in Int /\ 3 <= Form!Default[f] /\ Form!Default[f] <= 5000
  <1>1. Form!Numbers = {"target_count", "port", "attempts", "timeout_ms", "max_latency_ms",
                        "max_packet_loss", "blacklist_minutes"}
    BY DEF Form!Numbers, Form!Low
  <1>2. \A f \in Form!Numbers : Form!Low[f] \in Int /\ 0 <= Form!Low[f] /\ Form!Low[f] <= 500
    BY <1>1 DEF Form!Low
  <1>3. \A f \in Form!Numbers : Form!High[f] \in Int /\ 10 <= Form!High[f] /\ Form!High[f] <= 65535
    BY <1>1 DEF Form!High
  <1>4. \A f \in Form!Numbers :
          Form!Default[f] \in Int /\ 3 <= Form!Default[f] /\ Form!Default[f] <= 5000
    BY <1>1 DEF Form!Default
  <1>. QED  BY <1>1, <1>2, <1>3, <1>4

\* What may be entered in a numeric field.
LEMMA FormEntries ==
  /\ Form!NaN \in Form!Entries /\ Form!Entries \subseteq Int
  /\ \A n \in Int : -1 <= n /\ n <= 65536 => n \in Form!Entries
  <1>1. Form!MaxEntry \in Int
    BY DEF Form!MaxEntry
  <1>2. Form!MaxEntry = 65536
    BY DEF Form!MaxEntry
  <1>3. Form!NaN \in Form!Entries
    BY DEF Form!Entries
  <1>4. Form!Entries \subseteq Int
    BY <1>1 DEF Form!Entries, Form!NaN
  <1>5. \A n \in Int : -1 <= n /\ n <= Form!MaxEntry => n \in Form!Entries
    BY <1>1 DEF Form!Entries
  <1>. QED  BY <1>2, <1>3, <1>4, <1>5

\* The form begins with values of the form.
LEMMA FormDefaults ==
  ASSUME NEW k \in {"job", "schedule"}
  PROVE  /\ Form!DefaultValues(k) \in Form!Form
         /\ Form!SenselessCronOnly(Form!DefaultValues(k))
  <1>1. Form!Default \in [Form!Numbers -> Form!Entries]
    <2>1. Form!Default = [f \in Form!Numbers |-> Form!Default[f]]
      BY FormNumbers DEF Form!Default
    <2>2. \A f \in Form!Numbers : Form!Default[f] \in Form!Entries
      BY FormNumbers, FormEntries
    <2>. QED  BY <2>1, <2>2
  <1>. QED  BY <1>1 DEF Form!DefaultValues, Form!Form, Form!Texts, Form!Modes,
               Form!SenselessCronOnly, Form!TextFields

\* The defaults the server fills in leave values of the form.
LEMMA FormApplied ==
  ASSUME NEW v \in Form!Form
  PROVE  Form!ApplyDefaults(v) \in Form!Form
  <1>1. \A f \in Form!Numbers : Form!Default[f] \in Form!Entries
    BY FormNumbers, FormEntries
  <1>2. 80 \in Form!Entries
    BY FormEntries
  <1>. QED  BY <1>1, <1>2 DEF Form!ApplyDefaults, Form!Form

\* What the form lets through is valid for the server once its defaults are filled in, unless the
\* cron expression is one that only the server can judge.
LEMMA FormAcceptedIsValid ==
  ASSUME NEW v \in Form!Form, Form!Refused(v) = {}, Form!SenselessCronOnly(v),
         ~Form!Validate(Form!ApplyDefaults(v))
  PROVE  v.text.cron_expression = "senseless"
  <1>. DEFINE w == Form!ApplyDefaults(v)
  <1>1. w.text = v.text /\ w.mode = v.mode
    BY DEF Form!ApplyDefaults, Form!Form
  <1>0. \A f \in Form!Numbers : v.number[f] \in Int
    <2>1. v.number \in [Form!Numbers -> Form!Entries]
      BY DEF Form!Form
    <2>2. Form!Entries \subseteq Int
      BY FormEntries
    <2>3. \A f \in Form!Numbers : v.number[f] \in Form!Entries
      BY <2>1
    <2>. QED  BY <2>2, <2>3
  <1>11. \A f \in Form!Numbers : Form!Low[f] <= v.number[f] /\ v.number[f] <= Form!High[f]
    BY <1>0, FormNumbers DEF Form!Refused
  <1>12. \A f \in Form!Numbers : v.number[f] # 0 => w.number[f] = v.number[f]
    BY DEF Form!ApplyDefaults, Form!Form
  <1>2. \A f \in Form!Numbers :
          /\ v.number[f] \in Int /\ Form!Low[f] <= v.number[f] /\ v.number[f] <= Form!High[f]
          /\ w.number[f] = v.number[f] \/ v.number[f] = 0
    BY <1>0, <1>11, <1>12
  <1>3. \A f \in Form!Numbers : v.number[f] = 0 => Form!Low[f] = 0
    BY <1>2, FormNumbers
  <1>4. \A f \in Form!Numbers \ {"max_packet_loss"} : Form!Low[f] # 0
    BY FormNumbers DEF Form!Low
  <1>5. /\ Form!Within(w.number.target_count, 1, 10000) /\ Form!Within(w.number.port, 1, 65535)
        /\ Form!Within(w.number.attempts, 1, 10) /\ Form!Within(w.number.timeout_ms, 500, 30000)
    <2>1. /\ w.number.target_count = v.number.target_count /\ w.number.port = v.number.port
          /\ w.number.attempts = v.number.attempts /\ w.number.timeout_ms = v.number.timeout_ms
      BY <1>2, <1>3, <1>4, FormNumbers
    <2>. HIDE DEF w
    <2>. QED  BY <1>2, <2>1, FormNumbers DEF Form!Low, Form!High, Form!Within
  <1>6. /\ Form!Within(w.number.max_latency_ms, 1, 60000)
        /\ Form!Within(w.number.blacklist_minutes, 1, 10080)
    <2>1. /\ w.number.max_latency_ms = v.number.max_latency_ms
          /\ w.number.blacklist_minutes = v.number.blacklist_minutes
      BY <1>2, <1>3, <1>4, FormNumbers
    <2>. HIDE DEF w
    <2>. QED  BY <1>2, <2>1, FormNumbers DEF Form!Low, Form!High, Form!Within
  <1>7. Form!Within(w.number.max_packet_loss, 0, 100)
    <2>1. Form!Within(v.number.max_packet_loss, 0, 100)
      BY <1>2, FormNumbers DEF Form!Low, Form!High, Form!Within
    <2>2. w.number.max_packet_loss \in {50, v.number.max_packet_loss}
      BY FormNumbers DEF Form!ApplyDefaults, Form!Form, Form!Default
    <2>. QED  BY <2>1, <2>2 DEF Form!Within
  <1>8. \A f \in Form!TextFields :
          v.text[f] = "good" \/ (f = "cron_expression" /\ v.text[f] = "senseless")
    BY DEF Form!Refused, Form!SenselessCronOnly, Form!Form, Form!Texts
  <1>9. \/ v.text.cron_expression = "senseless"
        \/ v.text.hostname = "good" /\ v.text.path = "good" /\ v.text.cron_expression = "good"
    BY <1>8 DEF Form!TextFields
  <1>. HIDE DEF w
  <1>10. Form!Validate(w) \/ v.text.cron_expression = "senseless"
    BY <1>1, <1>5, <1>6, <1>7, <1>9 DEF Form!Validate
  <1>. QED  BY <1>10 DEF w

\* The invariant holds initially.
LEMMA FormInit == ASSUME Form!ScanFormAssumption, Form!Init PROVE Form!IInv
  <1>. DEFINE form == v2   edits == v10   outages == v11
  <1>1. form \in Form!Form /\ Form!SenselessCronOnly(form)
    BY FormDefaults DEF Form!Init
  <1>2. edits \in 0 .. MaxEdits /\ outages \in 0 .. MaxOutages
    BY DEF Form!Init, Form!ScanFormAssumption
  <1>. QED  BY <1>1, <1>2 DEF Form!Init, Form!IInv, Form!TypeOK, Form!SentIsAccepted,
               Form!AnswerIsOfRequest

\* A step of the person that edits the form.
LEMMA FormEdited ==
  ASSUME Form!ScanFormAssumption, Form!IInv, NEW v \in Form!Form, Form!SenselessCronOnly(v),
         NEW fields, Form!Edited(v, fields)
  PROVE  Form!IInv'
  <1>. DEFINE errors == v4   edits == v10
  <1>1. errors' \subseteq Form!Numbers \cup Form!TextFields
    BY DEF Form!Edited, Form!Revalidated, Form!IInv, Form!TypeOK
  <1>2. edits' \in 0 .. MaxEdits
    BY DEF Form!Edited, Form!IInv, Form!TypeOK, Form!ScanFormAssumption
  <1>3. Form!TypeOK'
    BY <1>1, <1>2 DEF Form!Edited, Form!IInv, Form!TypeOK
  <1>. QED  BY <1>3 DEF Form!Edited, Form!IInv, Form!SentIsAccepted, Form!AnswerIsOfRequest

\* Every step keeps the invariant.
LEMMA FormStep ==
  ASSUME Form!ScanFormAssumption, Form!IInv, [Form!Next]_(Form!vars)
  PROVE  Form!IInv'
  <1>. DEFINE kind == v1   form == v2   advanced == v3   errors == v4   online == v5
              known == v6   sent == v7   job == v8   answer == v9   edits == v10
              outages == v11
  <1>. USE DEF Form!IInv
  <1>1. ASSUME NEW f \in Form!Numbers, NEW n \in Form!Around(f), Form!EditNumber(f, n)
        PROVE  Form!IInv'
    <2>1. n \in Form!Entries
      BY FormNumbers, FormEntries DEF Form!Around
    <2>2. /\ [form EXCEPT !.number[f] = n] \in Form!Form
          /\ Form!SenselessCronOnly([form EXCEPT !.number[f] = n])
      BY <2>1 DEF Form!TypeOK, Form!Form, Form!SentIsAccepted, Form!SenselessCronOnly
    <2>. QED  BY <1>1, <2>2, FormEdited DEF Form!EditNumber
  <1>2. ASSUME NEW f \in Form!TextFields, NEW t \in Form!Texts, Form!EditText(f, t) PROVE Form!IInv'
    <2>1. /\ [form EXCEPT !.text[f] = t] \in Form!Form
          /\ Form!SenselessCronOnly([form EXCEPT !.text[f] = t])
      BY <1>2 DEF Form!TypeOK, Form!Form, Form!SentIsAccepted, Form!SenselessCronOnly, Form!EditText
    <2>. QED  BY <1>2, <2>1, FormEdited DEF Form!EditText
  <1>3. ASSUME NEW m \in Form!Modes, Form!ChooseMode(m) PROVE Form!IInv'
    <2>1. [form EXCEPT !.mode = m] \in Form!Form /\ Form!SenselessCronOnly([form EXCEPT !.mode = m])
      BY DEF Form!TypeOK, Form!Form, Form!SentIsAccepted, Form!SenselessCronOnly
    <2>. QED  BY <1>3, <2>1, FormEdited DEF Form!ChooseMode
  <1>4. ASSUME NEW s \in {"http", "https"}, Form!ChooseScheme(s) PROVE Form!IInv'
    <2>. DEFINE v == [form EXCEPT !.scheme = s, !.number.port = IF s = "https" THEN 443 ELSE 80]
    <2>1. 443 \in Form!Entries /\ 80 \in Form!Entries
      BY FormEntries
    <2>2. form \in Form!Form /\ Form!SenselessCronOnly(form)
      BY DEF Form!TypeOK, Form!SentIsAccepted
    <2>. DEFINE u == [form EXCEPT !.scheme = s]
                p == [u.number EXCEPT !.port = IF s = "https" THEN 443 ELSE 80]
    <2>3. u \in Form!Form /\ Form!SenselessCronOnly(u)
      BY <2>2 DEF Form!Form, Form!SenselessCronOnly
    <2>4. p \in [Form!Numbers -> Form!Entries]
      <3>. HIDE DEF u
      <3>. QED  BY <2>1, <2>3 DEF Form!Form
    <2>5. v \in Form!Form /\ Form!SenselessCronOnly(v)
      <3>1. v = [u EXCEPT !.number = p]
        OBVIOUS
      <3>. HIDE DEF u, v, p
      <3>. QED  BY <3>1, <2>3, <2>4 DEF Form!Form, Form!SenselessCronOnly
    <2>. QED  BY <1>4, <2>5, FormEdited DEF Form!ChooseScheme
  <1>5. ASSUME NEW a \in Agents, Form!ToggleAgent(a) PROVE Form!IInv'
    <2>. DEFINE v == [form EXCEPT !.agents = IF a \in @ THEN @ \ {a} ELSE @ \cup {a}]
    <2>1. v \in Form!Form /\ Form!SenselessCronOnly(v)
      BY DEF Form!TypeOK, Form!Form, Form!SentIsAccepted, Form!SenselessCronOnly
    <2>. QED  BY <1>5, <2>1, FormEdited DEF Form!ToggleAgent
  <1>. USE DEF Form!TypeOK, Form!SentIsAccepted, Form!AnswerIsOfRequest
  <1>6. ASSUME NEW a \in Agents, Form!Outage(a) PROVE Form!IInv'
    BY <1>6 DEF Form!Outage, Form!ScanFormAssumption
  <1>7. CASE Form!Unfold
    BY <1>7 DEF Form!Unfold
  <1>8. CASE Form!PollAgents
    BY <1>8 DEF Form!PollAgents
  <1>9. CASE Form!Submit
    <2>1. Form!Refused(form) \subseteq Form!Numbers \cup Form!TextFields
      BY DEF Form!Refused
    <2>2. Form!NoRequest \notin Form!Form
      BY DEF Form!NoRequest, Form!Form, Form!Modes
    <2>. QED  BY <1>9, <2>1, <2>2 DEF Form!Submit
  <1>10. CASE Form!Create
    <2>. DEFINE v == Form!ApplyDefaults(sent)
                tasks == Form!ResolveScanAgentIDs(sent.agents)
    <2>1. sent \in Form!Form /\ v \in Form!Form
      BY <1>10, FormApplied DEF Form!Create
    <2>2. tasks \subseteq Agents
      BY <2>1 DEF Form!ResolveScanAgentIDs, Form!Form
    <2>3. job = Form!NoRequest
      BY <1>10 DEF Form!Create
    <2>4. UNCHANGED <<kind, form, advanced, errors, online, known, sent, edits, outages>>
      BY <1>10 DEF Form!Create
    <2>5. \/ answer' = "invalid" /\ ~Form!Validate(v) /\ job' = job
          \/ answer' = "failed" /\ job' = job
          \/ answer' = "created" /\ job' = [values |-> v, tasks |-> {}]
          \/ answer' = "no_agents" /\ job' = job
          \/ answer' = "created" /\ job' = [values |-> v, tasks |-> tasks]
      BY <1>10 DEF Form!Create
    <2>6. sent # Form!NoRequest
      BY <1>10 DEF Form!Create
    <2>. HIDE DEF v, tasks
    <2>7. Form!TypeOK'
      BY <2>1, <2>2, <2>3, <2>4, <2>5
    <2>8. Form!SentIsAccepted'
      BY <2>4
    <2>9. Form!AnswerIsOfRequest'
      BY <2>3, <2>4, <2>5, <2>6 DEF v
    <2>. QED  BY <2>7, <2>8, <2>9
  <1>11. CASE Form!Answered
    BY <1>11, FormDefaults DEF Form!Answered, Form!ScanFormAssumption
  <1>12. CASE UNCHANGED Form!vars
    BY <1>12 DEF Form!vars
  <1>. QED  BY <1>1, <1>2, <1>3, <1>4, <1>5, <1>6, <1>7, <1>8, <1>9, <1>10, <1>11, <1>12
               DEF Form!Next

\* An answer "invalid" is about the cron expression, and a job has what was entered.
LEMMA FormHonours == ASSUME Form!IInv PROVE Form!SubmissionHonoured
  <1>. DEFINE sent == v7   job == v8   answer == v9
  <1>1. ASSUME answer = "invalid" PROVE sent.text.cron_expression = "senseless"
    BY <1>1, FormAcceptedIsValid DEF Form!IInv, Form!TypeOK, Form!SentIsAccepted,
       Form!AnswerIsOfRequest
  <1>2. ASSUME job # Form!NoRequest
        PROVE  /\ \A f \in Form!Numbers :
                     sent.number[f] # 0 => job.values.number[f] = sent.number[f]
               /\ job.values.mode = sent.mode /\ job.values.scheme = sent.scheme
               /\ job.values.agents = sent.agents
    <2>1. sent \in Form!Form /\ job.values = Form!ApplyDefaults(sent)
      BY <1>2 DEF Form!IInv, Form!TypeOK, Form!AnswerIsOfRequest
    <2>. QED  BY <2>1 DEF Form!ApplyDefaults, Form!Form
  <1>. QED  BY <1>1, <1>2 DEF Form!SubmissionHonoured

-----------------------------------------------------------------------------
(* The edit dialogs. *)

\* What the kinds of dialogs have in common.
LEMMA DialogKinds ==
  ASSUME NEW k \in Dialog!Kinds
  PROVE  /\ k.fills = "closing" => k.targets = {New} /\ k.blank /\ k # Dialog!ScheduleDialog
         /\ k.fills = "data" => k.targets = Items /\ ~k.blank /\ ~k.asks
                               /\ k # Dialog!ScheduleDialog
  <1>0. Dialog!ScheduleDialog.fills = "opening"
    BY DEF Dialog!Kind, Dialog!ScheduleDialog
  <1>1. k = Dialog!CreateScanDialog => k.fills = "closing" /\ k.targets = {New} /\ k.blank
    BY DEF Dialog!Kind, Dialog!CreateScanDialog
  <1>2. k = Dialog!ScheduleDialog => k.fills = "opening"
    BY DEF Dialog!Kind, Dialog!ScheduleDialog
  <1>3. k = Dialog!BlacklistRecheckPanel => k.fills = "data" /\ k.targets = Items /\ ~k.blank /\ ~k.asks
    BY DEF Dialog!Kind, Dialog!BlacklistRecheckPanel
  <1>4. k = Dialog!SourceSyncPanel => k.fills = "opening"
    BY DEF Dialog!Kind, Dialog!SourceSyncPanel
  <1>5. k = Dialog!EnrollmentApprovalPage => k.fills = "data" /\ k.targets = Items /\ ~k.blank /\ ~k.asks
    BY DEF Dialog!Kind, Dialog!EnrollmentApprovalPage
  <1>6. k = Dialog!CreateASNDialog => k.fills = "closing" /\ k.targets = {New} /\ k.blank
    BY DEF Dialog!Kind, Dialog!CreateASNDialog
  <1>7. k = Dialog!UserDialog => k.fills = "opening"
    BY DEF Dialog!Kind, Dialog!UserDialog
  <1>8. k = Dialog!ResetPasswordDialog => k.fills = "opening"
    BY DEF Dialog!Kind, Dialog!ResetPasswordDialog
  <1>9. /\ "closing" # "opening" /\ "closing" # "data" /\ "opening" # "data"
    OBVIOUS
  <1>. QED  BY <1>0, <1>1, <1>2, <1>3, <1>4, <1>5, <1>6, <1>7, <1>8, <1>9 DEF Dialog!Kinds

\* The invariant holds initially.
LEMMA DialogInit == ASSUME Dialog!EditDialogsAssumption, Dialog!Init PROVE Dialog!IInv
  <1>. DEFINE kind == v1   rows == v2   shown == v3   target == v4   form == v5   asking == v6
              requests == v7   last == v8   contested == v9   typed == v10   changes == v11
  <1>1. PICK t \in [Items -> Words] : rows = [i \in Items |-> [text |-> t[i], tick |-> 0]]
    BY DEF Dialog!Init
  <1>2. rows \in Dialog!Tables
    BY <1>1 DEF Dialog!EditDialogsAssumption, Dialog!Tables, Dialog!Entries
  <1>3. last \in [Items -> Dialog!Entries]
    BY <1>2 DEF Dialog!Init, Dialog!Tables
  <1>4. Dialog!TypeOK
    <2>1. form \in Dialog!Forms
      BY DEF Dialog!Init, Dialog!Forms, Dialog!Entries
    <2>2. target \in Items \cup {New, Closed} /\ asking \in BOOLEAN /\ requests = {}
      BY DEF Dialog!Init
    <2>3. typed \in 0 .. MaxTyped /\ changes \in 0 .. MaxChanges
      BY DEF Dialog!Init, Dialog!EditDialogsAssumption
    <2>4. kind \in Dialog!Kinds /\ shown \in Dialog!Tables /\ contested \subseteq Items
      BY <1>2 DEF Dialog!Init
    <2>. QED  BY <1>2, <1>3, <2>1, <2>2, <2>3, <2>4 DEF Dialog!TypeOK
  <1>5. Dialog!StartsBlank /\ Dialog!FollowsRow /\ Dialog!OwnForm /\ Dialog!LastKept
    BY DEF Dialog!Init, Dialog!StartsBlank, Dialog!FollowsRow, Dialog!OwnForm, Dialog!LastKept,
       Dialog!Open
  <1>6. Dialog!TicksCounted
    BY <1>1 DEF Dialog!Init, Dialog!TicksCounted
  <1>. QED  BY <1>4, <1>5, <1>6 DEF Dialog!IInv

\* A dialog that is filled has the form of its row.
LEMMA DialogFilled ==
  ASSUME NEW x \in Items \cup {New}, NEW cached \in Dialog!Tables
  PROVE  Dialog!Filled(x, cached) \in Dialog!Forms /\ Dialog!Filled(x, cached).of = x
  BY DEF Dialog!Filled, Dialog!Tables, Dialog!Forms, Dialog!Entries

\* A step keeps the types, and every request and form belongs to the row it is about.
LEMMA DialogTypes ==
  ASSUME Dialog!EditDialogsAssumption, Dialog!IInv, [Dialog!Next]_(Dialog!vars)
  PROVE  Dialog!TypeOK' /\ Dialog!OwnForm'
  <1>. DEFINE kind == v1   rows == v2   target == v4   form == v5   requests == v7   last == v8
              contested == v9
  <1>. USE DEF Dialog!TypeOK, Dialog!OwnForm, Dialog!IInv
  <1>1. CASE Dialog!Poll
    <2>1. Dialog!Open => target \in Items \cup {New}
      BY DEF Dialog!Open
    <2>. QED  BY <1>1, <2>1, DialogFilled DEF Dialog!Poll, Dialog!Follows, Dialog!Open
  <1>2. ASSUME NEW i \in Items, NEW t \in Words, Dialog!OtherSave(i, t)
        PROVE  Dialog!TypeOK' /\ Dialog!OwnForm'
    <2>1. rows' \in Dialog!Tables
      BY <1>2 DEF Dialog!OtherSave, Dialog!Tables, Dialog!Entries
    <2>. QED  BY <1>2, <2>1 DEF Dialog!OtherSave, Dialog!Open, Dialog!EditDialogsAssumption
  <1>3. ASSUME NEW i \in Items, Dialog!Tick(i) PROVE Dialog!TypeOK' /\ Dialog!OwnForm'
    <2>1. rows[i].tick + 1 \in 0 .. MaxChanges
      BY <1>3 DEF Dialog!Tick, Dialog!Tables, Dialog!TicksCounted, Dialog!EditDialogsAssumption
    <2>2. rows' \in Dialog!Tables
      BY <1>3, <2>1 DEF Dialog!Tick, Dialog!Tables
    <2>. QED  BY <1>3, <2>2 DEF Dialog!Tick, Dialog!Open, Dialog!EditDialogsAssumption
  <1>4. ASSUME NEW x \in Items \cup {New}, Dialog!OpenFor(x) PROVE Dialog!TypeOK' /\ Dialog!OwnForm'
    <2>1. kind.fills = "closing" => x = New /\ form.of = New
      BY <1>4, DialogKinds DEF Dialog!OpenFor, Dialog!StartsBlank
    <2>. QED  BY <1>4, <2>1, DialogFilled DEF Dialog!OpenFor, Dialog!Open
  <1>5. ASSUME NEW t \in Words, Dialog!Type(t) PROVE Dialog!TypeOK' /\ Dialog!OwnForm'
    BY <1>5 DEF Dialog!Type, Dialog!Open, Dialog!Forms, Dialog!Entries, Dialog!EditDialogsAssumption
  <1>6. CASE Dialog!RequestClose
    BY <1>6 DEF Dialog!RequestClose, Dialog!Closes, Dialog!Open, Dialog!Forms
  <1>7. CASE Dialog!KeepEditing
    BY <1>7 DEF Dialog!KeepEditing, Dialog!Open
  <1>8. CASE Dialog!Discard
    BY <1>8 DEF Dialog!Discard, Dialog!Closes, Dialog!Open, Dialog!Forms
  <1>9. CASE Dialog!Leave
    <2>. DEFINE gone(r) == [r EXCEPT !.live = FALSE]
    <2>1. \A r \in requests :
            gone(r) \in Dialog!Request /\ gone(r).of = gone(r).item /\ ~gone(r).live
      BY DEF Dialog!Request
    <2>2. requests' = {gone(r) : r \in requests}
      BY <1>9 DEF Dialog!Leave
    <2>3. requests' \subseteq Dialog!Request /\ \A p \in requests' : p.of = p.item /\ ~p.live
      <3>. HIDE DEF gone
      <3>. QED  BY <2>1, <2>2
    <2>4. [text |-> Blank, base |-> Blank, of |-> New] \in Dialog!Forms
      BY DEF Dialog!Forms, Dialog!Entries
    <2>. QED  BY <1>9, <2>3, <2>4 DEF Dialog!Leave, Dialog!Open
  <1>10. CASE Dialog!Submit
    <2>. DEFINE new == [item |-> target, of |-> form.of, text |-> form.text,
                        status |-> "sent", live |-> TRUE]
    <2>1. target \in Items \cup {New} /\ form.of = target /\ form.text \in Dialog!Entries
      BY <1>10 DEF Dialog!Submit, Dialog!MaySubmit, Dialog!Open, Dialog!Forms
    <2>2. new \in Dialog!Request /\ new.of = new.item
      BY <2>1 DEF Dialog!Request, Dialog!Entries
    <2>3. requests' = requests \cup {new} /\ \A p \in requests : ~p.live
      BY <1>10 DEF Dialog!Submit, Dialog!MaySubmit, Dialog!Pending
    <2>4. /\ requests' \subseteq Dialog!Request /\ \A p \in requests' : p.of = p.item
          /\ \A p, r \in requests' : p.live /\ r.live => p = r
      <3>. HIDE DEF new
      <3>. QED  BY <2>2, <2>3
    <2>5. last' \in [Items -> Dialog!Entries]
      BY <1>10, <2>1 DEF Dialog!Submit
    <2>6. contested' \subseteq Items
      BY <1>10 DEF Dialog!Submit
    <2>. QED  BY <1>10, <2>4, <2>5, <2>6 DEF Dialog!Submit, Dialog!Open
  <1>11. ASSUME NEW r \in requests, Dialog!Serve(r) PROVE Dialog!TypeOK' /\ Dialog!OwnForm'
    <2>1. ASSUME NEW new \in Dialog!Request, Dialog!Replace(r, new), new.of = new.item,
                 new.live = r.live
          PROVE  /\ requests' \subseteq Dialog!Request /\ \A p \in requests' : p.of = p.item
                 /\ \A p, s \in requests' : p.live /\ s.live => p = s
      BY <2>1 DEF Dialog!Replace
    <2>2. \A st \in {"saved", "failed"} :
             /\ [r EXCEPT !.status = st] \in Dialog!Request
             /\ [r EXCEPT !.status = st].live = r.live
             /\ [r EXCEPT !.status = st].of = [r EXCEPT !.status = st].item
      BY DEF Dialog!Request
    <2>3. /\ requests' \subseteq Dialog!Request /\ \A p \in requests' : p.of = p.item
          /\ \A p, s \in requests' : p.live /\ s.live => p = s
      BY <1>11, <2>1, <2>2 DEF Dialog!Serve
    <2>4. rows' \in Dialog!Tables
      BY <1>11 DEF Dialog!Serve, Dialog!Saved, Dialog!Tables, Dialog!Request, Dialog!Entries
    <2>5. contested' \subseteq Items
      BY <1>11 DEF Dialog!Serve
    <2>. QED  BY <1>11, <2>3, <2>4, <2>5 DEF Dialog!Serve, Dialog!Open
  <1>12. ASSUME NEW r \in requests, Dialog!Continue(r) PROVE Dialog!TypeOK' /\ Dialog!OwnForm'
    BY <1>12 DEF Dialog!Continue, Dialog!SavedForm, Dialog!Open, Dialog!Forms, Dialog!Request,
       Dialog!Entries
  <1>13. ASSUME NEW r \in requests, Dialog!Fail(r) PROVE Dialog!TypeOK' /\ Dialog!OwnForm'
    BY <1>13 DEF Dialog!Fail, Dialog!Open
  <1>14. CASE UNCHANGED Dialog!vars
    BY <1>14 DEF Dialog!vars, Dialog!Open
  <1>. QED  BY <1>1, <1>2, <1>3, <1>4, <1>5, <1>6, <1>7, <1>8, <1>9, <1>10, <1>11, <1>12,
               <1>13, <1>14 DEF Dialog!Next

\* A row ticks no further than it is counted.
LEMMA DialogTicks ==
  ASSUME Dialog!EditDialogsAssumption, Dialog!IInv, [Dialog!Next]_(Dialog!vars)
  PROVE  Dialog!TicksCounted'
  <1>. DEFINE rows == v2   requests == v7   changes == v11
  <1>. USE DEF Dialog!IInv, Dialog!TypeOK, Dialog!TicksCounted, Dialog!Tables
  <1>1. ASSUME NEW i \in Items, NEW t \in Words, Dialog!OtherSave(i, t) PROVE Dialog!TicksCounted'
    BY <1>1 DEF Dialog!OtherSave
  <1>2. ASSUME NEW i \in Items, Dialog!Tick(i) PROVE Dialog!TicksCounted'
    BY <1>2 DEF Dialog!Tick
  <1>3. ASSUME NEW r \in requests, Dialog!Serve(r) PROVE Dialog!TicksCounted'
    BY <1>3 DEF Dialog!Serve, Dialog!Saved
  <1>4. CASE UNCHANGED <<rows, changes>>
    BY <1>4
  <1>5. \/ UNCHANGED <<rows, changes>>
        \/ \E i \in Items : Dialog!Tick(i) \/ \E t \in Words : Dialog!OtherSave(i, t)
        \/ \E r \in requests : Dialog!Serve(r)
    BY DEF Dialog!Next, Dialog!vars, Dialog!Poll, Dialog!RequestClose, Dialog!KeepEditing,
       Dialog!Discard, Dialog!OpenFor, Dialog!Type, Dialog!Leave, Dialog!Submit, Dialog!Continue,
       Dialog!Fail
  <1>. QED  BY <1>1, <1>2, <1>3, <1>4, <1>5

\* A closed dialog that is cleared when it closes is blank.
LEMMA DialogBlank ==
  ASSUME Dialog!EditDialogsAssumption, Dialog!IInv, [Dialog!Next]_(Dialog!vars)
  PROVE  Dialog!StartsBlank'
  <1>. DEFINE kind == v1   target == v4   form == v5   requests == v7
  <1>. USE DEF Dialog!IInv, Dialog!TypeOK, Dialog!Forms, Dialog!StartsBlank
  <1>kinds. /\ kind.fills = "closing" =>
                 kind.targets = {New} /\ kind.blank /\ kind # Dialog!ScheduleDialog
            /\ New # Closed
    BY DialogKinds DEF Dialog!EditDialogsAssumption
  <1>1. CASE Dialog!Poll
    BY <1>1, <1>kinds DEF Dialog!Poll, Dialog!Follows, Dialog!Filled
  <1>2. ASSUME NEW x \in Items \cup {New}, Dialog!OpenFor(x) PROVE Dialog!StartsBlank'
    BY <1>2, <1>kinds DEF Dialog!OpenFor, Dialog!Open, Dialog!Filled
  <1>3. ASSUME NEW t \in Words, Dialog!Type(t) PROVE Dialog!StartsBlank'
    BY <1>3 DEF Dialog!Type, Dialog!Open
  <1>4. CASE Dialog!RequestClose \/ Dialog!Discard
    BY <1>4, <1>kinds DEF Dialog!RequestClose, Dialog!Discard, Dialog!Closes
  <1>5. CASE Dialog!Leave
    BY <1>5 DEF Dialog!Leave
  <1>6. ASSUME NEW r \in requests, Dialog!Continue(r) PROVE Dialog!StartsBlank'
    BY <1>6, <1>kinds DEF Dialog!Continue, Dialog!SavedForm
  <1>7. CASE UNCHANGED <<kind, target, form>>
    BY <1>7
  <1>8. \/ Dialog!Poll \/ Dialog!RequestClose \/ Dialog!Discard \/ Dialog!Leave
        \/ UNCHANGED <<kind, target, form>>
        \/ \E x \in Items \cup {New} : Dialog!OpenFor(x)
        \/ \E t \in Words : Dialog!Type(t)
        \/ \E r \in requests : Dialog!Continue(r)
    BY DEF Dialog!Next, Dialog!vars, Dialog!KeepEditing, Dialog!Submit, Dialog!Tick,
       Dialog!OtherSave, Dialog!Serve, Dialog!Fail
  <1>. QED  BY <1>1, <1>2, <1>3, <1>4, <1>5, <1>6, <1>7, <1>8

\* A panel that follows its row compares with the row as the page shows it.
LEMMA DialogFollows ==
  ASSUME Dialog!EditDialogsAssumption, Dialog!IInv, [Dialog!Next]_(Dialog!vars)
  PROVE  Dialog!FollowsRow'
  <1>. DEFINE kind == v1   rows == v2   shown == v3   target == v4   form == v5   requests == v7
  <1>. USE DEF Dialog!IInv, Dialog!FollowsRow, Dialog!Open
  <1>0. kind.fills = "data" => kind.targets = Items /\ ~kind.blank /\ New \notin Items
    BY DialogKinds DEF Dialog!TypeOK, Dialog!EditDialogsAssumption
  <1>1. ASSUME kind.fills = "data", NEW x \in Items, NEW cached
        PROVE  Dialog!Filled(x, cached).base = cached[x].text
    BY <1>0, <1>1 DEF Dialog!Filled
  <1>2. CASE Dialog!Poll
    BY <1>1, <1>2 DEF Dialog!Poll, Dialog!Follows
  <1>3. ASSUME NEW x \in Items \cup {New}, Dialog!OpenFor(x) PROVE Dialog!FollowsRow'
    <2>1. kind.fills = "data" => /\ x \in Items /\ target' = x /\ shown' = shown
                                /\ form' = Dialog!Filled(x, shown)
      BY <1>0, <1>3 DEF Dialog!OpenFor
    <2>2. kind' = kind
      BY <1>3 DEF Dialog!OpenFor
    <2>. QED  BY <1>1, <2>1, <2>2
  <1>4. ASSUME NEW t \in Words, Dialog!Type(t) PROVE Dialog!FollowsRow'
    BY <1>4 DEF Dialog!Type, Dialog!TypeOK, Dialog!Forms
  <1>5. CASE Dialog!RequestClose
    BY <1>5 DEF Dialog!RequestClose, Dialog!Closes
  <1>6. ASSUME target' = Closed PROVE Dialog!FollowsRow'
    BY <1>6
  <1>7. CASE UNCHANGED <<kind, shown, target, form>>
    BY <1>7
  <1>8. \/ Dialog!Poll \/ Dialog!RequestClose \/ target' = Closed
        \/ UNCHANGED <<kind, shown, target, form>>
        \/ \E x \in Items \cup {New} : Dialog!OpenFor(x)
        \/ \E t \in Words : Dialog!Type(t)
    BY DEF Dialog!Next, Dialog!vars, Dialog!KeepEditing, Dialog!Discard, Dialog!Closes,
       Dialog!Leave, Dialog!Submit, Dialog!Tick, Dialog!OtherSave, Dialog!Serve, Dialog!Continue,
       Dialog!Fail
  <1>. QED  BY <1>2, <1>3, <1>4, <1>5, <1>6, <1>7, <1>8

\* A row that nobody else saved holds what was submitted last, or its request is out.
LEMMA DialogLast ==
  ASSUME Dialog!EditDialogsAssumption, Dialog!IInv, [Dialog!Next]_(Dialog!vars)
  PROVE  Dialog!LastKept'
  <1>. DEFINE rows == v2   target == v4   form == v5   requests == v7   last == v8
              contested == v9
  <1>. USE DEF Dialog!IInv, Dialog!TypeOK, Dialog!LastKept
  <1>1. ASSUME NEW i \in Items, NEW t \in Words, Dialog!OtherSave(i, t) PROVE Dialog!LastKept'
    BY <1>1 DEF Dialog!OtherSave, Dialog!Tables, Dialog!Entries
  <1>2. ASSUME NEW i \in Items, Dialog!Tick(i) PROVE Dialog!LastKept'
    BY <1>2 DEF Dialog!Tick, Dialog!Tables
  <1>3. CASE Dialog!Leave
    <2>. DEFINE gone(r) == [r EXCEPT !.live = FALSE]
    <2>1. \A r \in requests : /\ gone(r).item = r.item /\ gone(r).status = r.status
                              /\ gone(r).text = r.text
      BY DEF Dialog!Request
    <2>2. requests' = {gone(r) : r \in requests}
      BY <1>3 DEF Dialog!Leave
    <2>3. /\ \A r \in requests : \E p \in requests' : p.item = r.item /\ p.status = r.status
          /\ \A p \in requests' : \E r \in requests :
                p.item = r.item /\ p.status = r.status /\ p.text = r.text
      <3>. HIDE DEF gone
      <3>. QED  BY <2>1, <2>2
    <2>4. UNCHANGED <<rows, last, contested>>
      BY <1>3 DEF Dialog!Leave
    <2>. QED  BY <2>3, <2>4
  <1>4. CASE Dialog!Submit
    <2> SUFFICES ASSUME NEW i \in Items \ contested'
                 PROVE  /\ \/ \E r \in requests' : r.item = i /\ r.status = "sent"
                           \/ rows'[i].text = last'[i]
                        /\ \A r \in requests' : r.item = i /\ r.status = "sent"
                                                 => r.text = last'[i]
      OBVIOUS
    <2>1. /\ i \in Items \ contested
          /\ \A p \in requests : p.item # i
      BY <1>4 DEF Dialog!Submit, Dialog!MaySubmit, Dialog!Pending
    <2>. DEFINE new == [item |-> target, of |-> form.of, text |-> form.text,
                        status |-> "sent", live |-> TRUE]
    <2>2. /\ requests' = requests \cup {new} /\ rows' = rows
          /\ last'[i] = IF i = target THEN form.text ELSE last[i]
      BY <1>4 DEF Dialog!Submit
    <2>3. new.item = target /\ new.status = "sent" /\ new.text = form.text
      OBVIOUS
    <2>. HIDE DEF new
    <2>4. CASE i = target
      BY <2>1, <2>2, <2>3, <2>4
    <2>5. CASE i # target
      BY <2>1, <2>2, <2>3, <2>5
    <2>. QED  BY <2>4, <2>5
  <1>5. ASSUME NEW r \in requests, Dialog!Serve(r) PROVE Dialog!LastKept'
    <2>1. ASSUME NEW st \in {"saved", "failed"}, Dialog!Replace(r, [r EXCEPT !.status = st])
          PROVE  /\ \A p \in requests \ {r} : p \in requests'
                 /\ \A p \in requests' : p.status = "sent" => p \in requests
      <3>1. [r EXCEPT !.status = st].status = st /\ st # "sent"
        BY DEF Dialog!Request
      <3>. QED  BY <2>1, <3>1 DEF Dialog!Replace
    <2>2. UNCHANGED last /\ r.status = "sent"
      BY <1>5 DEF Dialog!Serve
    <2>3. CASE /\ rows' = IF r.item \in Items THEN Dialog!Saved(r) ELSE rows
               /\ Dialog!Replace(r, [r EXCEPT !.status = "saved"])
               /\ UNCHANGED contested
      <3>1. ASSUME NEW i \in Items \ contested, r.item = i
            PROVE  rows'[i].text = last[i]
        BY <2>2, <2>3, <3>1 DEF Dialog!Saved, Dialog!Tables
      <3>2. ASSUME NEW i \in Items, r.item # i PROVE rows'[i] = rows[i]
        BY <2>3, <3>2 DEF Dialog!Saved, Dialog!Tables
      <3>3. /\ \A p \in requests \ {r} : p \in requests'
            /\ \A p \in requests' : p.status = "sent" => p \in requests
        BY <2>1, <2>3
      <3>4. UNCHANGED <<last, contested>>
        BY <2>2, <2>3
      <3>. QED  BY <3>1, <3>2, <3>3, <3>4
    <2>4. CASE /\ Dialog!Replace(r, [r EXCEPT !.status = "failed"])
               /\ contested' = contested \cup ({r.item} \cap Items)
               /\ UNCHANGED rows
      <3>1. /\ \A p \in requests \ {r} : p \in requests'
            /\ \A p \in requests' : p.status = "sent" => p \in requests
        BY <2>1, <2>4
      <3>. QED  BY <2>2, <2>4, <3>1
    <2>. QED  BY <1>5, <2>3, <2>4 DEF Dialog!Serve
  <1>6. ASSUME NEW r \in requests, Dialog!Continue(r) \/ Dialog!Fail(r) PROVE Dialog!LastKept'
    BY <1>6 DEF Dialog!Continue, Dialog!Fail
  <1>7. CASE UNCHANGED <<rows, requests, last, contested>>
    BY <1>7
  <1>8. \/ Dialog!Leave \/ Dialog!Submit \/ UNCHANGED <<rows, requests, last, contested>>
        \/ \E i \in Items : Dialog!Tick(i) \/ \E t \in Words : Dialog!OtherSave(i, t)
        \/ \E r \in requests : Dialog!Serve(r) \/ Dialog!Continue(r) \/ Dialog!Fail(r)
    BY DEF Dialog!Next, Dialog!vars, Dialog!Poll, Dialog!RequestClose, Dialog!KeepEditing,
       Dialog!Discard, Dialog!OpenFor, Dialog!Type
  <1>. QED  BY <1>1, <1>2, <1>3, <1>4, <1>5, <1>6, <1>7, <1>8

\* Every step keeps the invariant of the dialogs.
LEMMA DialogStep ==
  ASSUME Dialog!EditDialogsAssumption, Dialog!IInv, [Dialog!Next]_(Dialog!vars)
  PROVE  Dialog!IInv'
  BY DialogTypes, DialogBlank, DialogFollows, DialogLast, DialogTicks DEF Dialog!IInv

\* When all is answered, a row that nobody else saved holds what was submitted last for it,
\* and every request carries the values of the row it goes to.
LEMMA DialogLastWins == ASSUME Dialog!IInv PROVE Dialog!LastSaveWins
  BY DEF Dialog!IInv, Dialog!LastKept, Dialog!OwnForm, Dialog!LastSaveWins

\* Only a save, the person, or in a panel its changed row takes what was entered, and every
\* dialog opens with its row as the page shows it, or with the defaults.
LEMMA DialogKeeps ==
  ASSUME Dialog!EditDialogsAssumption, Dialog!IInv, [Dialog!Next]_(Dialog!vars)
  PROVE  [Dialog!KeepsEdits]_(Dialog!vars)
  <1>. DEFINE kind == v1   shown == v3   target == v4   form == v5   requests == v7
  <1>. USE DEF Dialog!TextTaken
  <1>0. /\ kind.fills = "closing" => kind.targets = {New} /\ kind.blank
        /\ New # Closed
    BY DialogKinds DEF Dialog!IInv, Dialog!TypeOK, Dialog!EditDialogsAssumption
  <1>follows. /\ kind' = kind
              /\ kind.fills = "data" /\ target' # Closed => form'.base = shown'[target'].text
    <2>1. kind' = kind
      BY DEF Dialog!Next, Dialog!vars, Dialog!Poll, Dialog!RequestClose, Dialog!KeepEditing,
         Dialog!Discard, Dialog!Leave, Dialog!Submit, Dialog!Tick, Dialog!OtherSave,
         Dialog!OpenFor, Dialog!Type, Dialog!Serve, Dialog!Continue, Dialog!Fail
    <2>. QED  BY <2>1, DialogFollows DEF Dialog!FollowsRow, Dialog!Open
  <1>1. CASE Dialog!Poll
    BY <1>0, <1>1, <1>follows DEF Dialog!Poll, Dialog!Follows, Dialog!KeepsEdits, Dialog!Open
  <1>2. ASSUME NEW i \in Items, NEW t \in Words, Dialog!OtherSave(i, t) PROVE Dialog!KeepsEdits
    BY <1>2, <1>follows DEF Dialog!OtherSave, Dialog!KeepsEdits, Dialog!Open
  <1>3. ASSUME NEW i \in Items, Dialog!Tick(i) PROVE Dialog!KeepsEdits
    BY <1>3, <1>follows DEF Dialog!Tick, Dialog!KeepsEdits, Dialog!Open
  <1>4. ASSUME NEW x \in Items \cup {New}, Dialog!OpenFor(x) PROVE Dialog!KeepsEdits
    <2>1. ~Dialog!Open /\ target' = x /\ shown' = shown
      BY <1>4 DEF Dialog!OpenFor
    <2>2. CASE kind.fills = "closing"
      <3>1. x = New /\ form' = form
        BY <1>0, <1>4, <2>2 DEF Dialog!OpenFor
      <3>2. form = [text |-> Blank, base |-> Blank, of |-> New]
        BY <2>1, <2>2 DEF Dialog!IInv, Dialog!TypeOK, Dialog!Forms, Dialog!StartsBlank,
           Dialog!Open
      <3>3. Dialog!Filled(New, shown) = [text |-> Blank, base |-> Blank, of |-> New]
        BY DEF Dialog!Filled
      <3>. QED  BY <1>follows, <2>1, <3>1, <3>2, <3>3 DEF Dialog!KeepsEdits
    <2>3. CASE kind.fills # "closing"
      <3>1. form' = Dialog!Filled(x, shown)
        BY <1>4, <2>3 DEF Dialog!OpenFor
      <3>. QED  BY <1>follows, <2>1, <3>1 DEF Dialog!KeepsEdits
    <2>. QED  BY <2>2, <2>3
  <1>5. ASSUME NEW t \in Words, Dialog!Type(t) PROVE Dialog!KeepsEdits
    BY <1>5, <1>follows DEF Dialog!Type, Dialog!KeepsEdits, Dialog!Open, Dialog!IInv, Dialog!TypeOK
  <1>6. CASE Dialog!RequestClose
    BY <1>6, <1>follows DEF Dialog!RequestClose, Dialog!KeepsEdits, Dialog!Closes, Dialog!Open
  <1>7. CASE Dialog!KeepEditing
    BY <1>7, <1>follows DEF Dialog!KeepEditing, Dialog!KeepsEdits, Dialog!Open
  <1>8. CASE Dialog!Discard
    BY <1>8, <1>follows DEF Dialog!Discard, Dialog!Closes, Dialog!KeepsEdits, Dialog!Open
  <1>9. CASE Dialog!Leave
    BY <1>9, <1>follows DEF Dialog!Leave, Dialog!KeepsEdits, Dialog!Open
  <1>10. CASE Dialog!Submit
    BY <1>10, <1>follows DEF Dialog!Submit, Dialog!KeepsEdits, Dialog!MaySubmit, Dialog!Open
  <1>11. ASSUME NEW r \in requests, Dialog!Serve(r) PROVE Dialog!KeepsEdits
    BY <1>11, <1>follows DEF Dialog!Serve, Dialog!KeepsEdits, Dialog!Open
  <1>12. ASSUME NEW r \in requests, Dialog!Continue(r) PROVE Dialog!KeepsEdits
    BY <1>12, <1>follows DEF Dialog!Continue, Dialog!KeepsEdits, Dialog!Pending, Dialog!Open
  <1>13. ASSUME NEW r \in requests, Dialog!Fail(r) PROVE Dialog!KeepsEdits
    BY <1>13, <1>follows DEF Dialog!Fail, Dialog!KeepsEdits, Dialog!Open
  <1>. QED  BY <1>1, <1>2, <1>3, <1>4, <1>5, <1>6, <1>7, <1>8, <1>9, <1>10, <1>11,
               <1>12, <1>13 DEF Dialog!Next

-----------------------------------------------------------------------------
(* The tables. *)

\* A set of numbers has a least one.
LEMMA TableLeast ==
  ASSUME NEW T \in SUBSET Nat, T # {}
  PROVE  \E x \in T : \A y \in T : x <= y
  <1>1. PICK x \in T : \A y \in T : ~(<<y, x>> \in OpToRel(<, Nat))
    BY NatLessThanWellFounded, WFMin
  <1>2. \A y \in T : ~(y < x)
    BY <1>1 DEF OpToRel
  <1>3. \A y \in T : x <= y
    BY <1>2
  <1>. QED  BY <1>3

\* The cardinality of TableView is that of FiniteSets.
LEMMA TableCardinality == \A S : Table!Cardinality(S) = Cardinality(S)
  BY DEF Table!Cardinality, Cardinality

\* The smallest and the usual page size are sizes.
LEMMA TableSizesExist ==
  ASSUME Table!TableViewAssumption
  PROVE  /\ Table!Smallest \in TableSizes /\ Table!Usual \in TableSizes
         /\ TableSizes \subseteq Nat \ {0}
  <1>1. TableSizes \subseteq Nat \ {0} /\ Cardinality(TableSizes) > 1
    BY TableCardinality DEF Table!TableViewAssumption
  <1>2. TableSizes # {}
    BY <1>1, FS_EmptySet
  <1>3. \E s \in TableSizes : \A r \in TableSizes : s <= r
    BY <1>1, <1>2, TableLeast
  <1>4. Table!Smallest \in TableSizes
    BY <1>3 DEF Table!Smallest
  <1>5. TableSizes \ {Table!Smallest} # {}
    <2>1. ASSUME TableSizes \ {Table!Smallest} = {} PROVE FALSE
      <3>1. TableSizes = {Table!Smallest}
        BY <1>4, <2>1
      <3>2. Cardinality(TableSizes) = 1
        BY <3>1, FS_Singleton
      <3>. QED  BY <1>1, <3>2
    <2>. QED  BY <2>1
  <1>6. \E s \in TableSizes \ {Table!Smallest} : \A r \in TableSizes \ {Table!Smallest} : s <= r
    BY <1>1, <1>5, TableLeast
  <1>7. Table!Usual \in TableSizes \ {Table!Smallest}
    BY <1>6 DEF Table!Usual
  <1>. QED  BY <1>1, <1>4, <1>7

\* The initial page size of every table is one that can be chosen.
LEMMA TableInitial ==
  ASSUME Table!TableViewAssumption, NEW t \in Table!Tables
  PROVE  t.initialPageSize \in TableSizes
  BY TableSizesExist DEF Table!Tables, Table!Table, Table!ScanJobsTable, Table!SchedulesTable,
     Table!ASNTable, Table!UsersTable, Table!AgentsTable, Table!BlacklistTable,
     Table!AutomationRunsTable

\* A list of rows and their values.
LEMMA TableRowSet ==
  ASSUME NEW r
  PROVE  r \in Table!RowSets <=> \E S \in SUBSET Table!Ids : r \in [S -> Table!Values]
  <1>1. ASSUME NEW S \in SUBSET Table!Ids, r \in [S -> Table!Values] PROVE r \in Table!RowSets
    <2>1. [S -> Table!Values] \in {[T -> Table!Values] : T \in SUBSET Table!Ids}
      OBVIOUS
    <2>. QED  BY <1>1, <2>1 DEF Table!RowSets
  <1>2. ASSUME r \in Table!RowSets PROVE \E S \in SUBSET Table!Ids : r \in [S -> Table!Values]
    <2>1. PICK F \in {[T -> Table!Values] : T \in SUBSET Table!Ids} : r \in F
      BY <1>2 DEF Table!RowSets
    <2>. QED  BY <2>1
  <1>. QED  BY <1>1, <1>2

\* Rounding down and up.
LEMMA TableDivision ==
  ASSUME NEW x \in Nat, NEW s \in Nat \ {0}, NEW p \in Nat
  PROVE  /\ x \div s \in Nat /\ (x \div s) * s <= x /\ x < (x \div s + 1) * s
         /\ x \div s = p <=> p * s <= x /\ x < p * s + s
         /\ p < (x + s - 1) \div s => p * s < x
         /\ x <= s => (x + s - 1) \div s <= 1
  OBVIOUS

\* What the filters let through is a finite part of the rows.
LEMMA TableFiltered ==
  ASSUME Table!TableViewAssumption, Table!TypeOK
  PROVE  /\ Table!Filtered \subseteq Table!Ids /\ Table!Filtered \subseteq DOMAIN v3
         /\ DOMAIN v3 \subseteq Table!Ids
         /\ IsFiniteSet(Table!Filtered) /\ Cardinality(Table!Filtered) \in Nat
         /\ Cardinality(Table!Filtered) <= TableRows
         /\ IsFiniteSet(DOMAIN v3) /\ Cardinality(DOMAIN v3) \in Nat
         /\ Cardinality(Table!Filtered) <= Cardinality(DOMAIN v3)
  <1>. DEFINE data == v3
  <1>1. DOMAIN data \subseteq Table!Ids
    BY TableRowSet DEF Table!TypeOK
  <1>2. Table!Filtered \subseteq DOMAIN data
    BY DEF Table!Filtered
  <1>3. IsFiniteSet(Table!Ids) /\ Cardinality(Table!Ids) = TableRows
    BY FS_Interval DEF Table!Ids, Table!TableViewAssumption
  <1>. QED  BY <1>1, <1>2, <1>3, FS_Subset, FS_CardinalityType

\* The rows are sorted: the number of the rows before one is its place in the list.
LEMMA TablePlaces ==
  ASSUME Table!TableViewAssumption, Table!TypeOK
  PROVE  /\ \A i \in Table!Filtered : Table!Before(i) \in 0 .. Cardinality(Table!Filtered) - 1
         /\ \A i, k \in Table!Filtered : Table!Before(i) = Table!Before(k) => i = k
         /\ \A x \in 0 .. Cardinality(Table!Filtered) - 1 :
               \E i \in Table!Filtered : Table!Before(i) = x
  <1>. DEFINE sorting == v6
  <1>. DEFINE n == Cardinality(Table!Filtered)
              Less(j, i) == IF sorting = "desc" THEN j > i ELSE j < i
              B(i) == {j \in Table!Filtered : Less(j, i)}
              f == [i \in Table!Filtered |-> Table!Before(i)]
  <1>1. /\ \A i \in Table!Filtered : ~Less(i, i)
        /\ \A i, k \in Table!Filtered : i # k => Less(i, k) \/ Less(k, i)
        /\ \A i, j, k \in Table!Filtered : Less(i, j) /\ Less(j, k) => Less(i, k)
    BY TableFiltered DEF Table!Ids, Table!TableViewAssumption
  <1>2. \A i \in Table!Filtered : Table!Before(i) = Cardinality(B(i))
    BY TableCardinality DEF Table!Before
  <1>3. IsFiniteSet(Table!Filtered) /\ n \in Nat
    BY TableFiltered
  <1>. HIDE DEF Less
  <1>4. ASSUME NEW i \in Table!Filtered
        PROVE  IsFiniteSet(B(i)) /\ Table!Before(i) \in 0 .. n - 1 /\ Table!Before(i) \in Nat
    <2>1. /\ B(i) \subseteq Table!Filtered \ {i} /\ IsFiniteSet(Table!Filtered \ {i})
          /\ Cardinality(Table!Filtered \ {i}) = n - 1
      BY <1>1, <1>3, FS_RemoveElement
    <2>2. IsFiniteSet(B(i)) /\ Cardinality(B(i)) <= n - 1 /\ Cardinality(B(i)) \in Nat
      BY <2>1, FS_Subset, FS_CardinalityType
    <2>. QED  BY <1>2, <1>3, <2>2
  <1>5. ASSUME NEW i \in Table!Filtered, NEW k \in Table!Filtered, Less(i, k)
        PROVE  Table!Before(i) < Table!Before(k)
    <2>1. B(i) \cup {i} \subseteq B(k) /\ i \notin B(i)
      BY <1>1, <1>5
    <2>2. IsFiniteSet(B(i)) /\ IsFiniteSet(B(k))
      BY <1>4
    <2>3. Cardinality(B(i) \cup {i}) = Cardinality(B(i)) + 1
      BY <2>1, <2>2, FS_AddElement
    <2>4. Cardinality(B(i) \cup {i}) <= Cardinality(B(k))
      BY <2>1, <2>2, FS_Subset
    <2>5. Cardinality(B(i)) \in Nat /\ Cardinality(B(k)) \in Nat
      BY <2>2, FS_CardinalityType
    <2>. QED  BY <1>2, <2>3, <2>4, <2>5
  <1>6. ASSUME NEW i \in Table!Filtered, NEW k \in Table!Filtered, Table!Before(i) = Table!Before(k)
        PROVE  i = k
    <2>1. Table!Before(i) \in Nat /\ Table!Before(k) \in Nat
      BY <1>4
    <2>. QED  BY <1>1, <1>5, <1>6, <2>1
  <1>7. f \in Injection(Table!Filtered, 0 .. n - 1)
    BY <1>4, <1>6 DEF Injection, IsInjective
  <1>8. IsFiniteSet(0 .. n - 1) /\ Cardinality(0 .. n - 1) = n
    BY <1>3, FS_Interval
  <1>9. f \in Surjection(Table!Filtered, 0 .. n - 1)
    BY <1>7, <1>8, FS_Injection
  <1>10. \A x \in 0 .. n - 1 : \E i \in Table!Filtered : Table!Before(i) = x
    BY <1>9 DEF Surjection
  <1>. QED  BY <1>4, <1>6, <1>10

\* The constants are numbers.
LEMMA TableNumbers ==
  ASSUME Table!TableViewAssumption
  PROVE  /\ TableRows \in Nat /\ 0 \in 0 .. TableRows /\ (TableRows - 1) \in Nat
         /\ 0 \in 0 .. (TableRows - 1)
  BY DEF Table!TableViewAssumption

\* The page, its size and the number of rows are numbers.
LEMMA TablePaging ==
  ASSUME Table!TableViewAssumption, Table!TypeOK
  PROVE  /\ v8 \in Nat \ {0} /\ v8 \in TableSizes /\ v7 \in Nat
         /\ v7 * v8 \in Nat
         /\ Cardinality(Table!Filtered) \in Nat /\ IsFiniteSet(Table!Filtered)
  <1>. DEFINE pageIndex == v7   pageSize == v8
  <1>1. pageSize \in Nat \ {0} /\ pageSize \in TableSizes
    BY TableSizesExist DEF Table!TypeOK
  <1>2. pageIndex \in Nat
    <2>1. pageIndex \in 0 .. TableRows
      BY DEF Table!TypeOK
    <2>. QED  BY <2>1, TableNumbers
  <1>3. pageIndex * pageSize \in Nat
    BY <1>1, <1>2
  <1>. QED  BY <1>1, <1>2, <1>3, TableFiltered

\* What a page shows.
LEMMA TablePageRows ==
  ASSUME Table!TableViewAssumption, Table!TypeOK
  PROVE  /\ v7 * v8 < Cardinality(Table!Filtered) => Table!Page # {}
         /\ Cardinality(Table!Page) <= v8
         /\ v7 * v8 + v8 <= Cardinality(Table!Filtered) => Cardinality(Table!Page) = v8
  <1>. DEFINE pageIndex == v7   pageSize == v8
  <1>. DEFINE n == Cardinality(Table!Filtered)
              first == pageIndex * pageSize
              f == [i \in Table!Page |-> Table!Before(i)]
  <1>1. /\ pageSize \in Nat \ {0} /\ pageIndex \in Nat /\ n \in Nat
        /\ first \in Nat
    BY TablePaging
  <1>2. \A i \in Table!Page : i \in Table!Filtered /\ Table!Before(i) \in Nat
    BY <1>1, TablePlaces DEF Table!Page
  <1>3. \A x \in Nat : x \div pageSize = pageIndex <=> first <= x /\ x < first + pageSize
    BY <1>1, TableDivision
  <1>. HIDE DEF first
  <1>4. Table!Page = {i \in Table!Filtered : /\ first <= Table!Before(i)
                                            /\ Table!Before(i) < first + pageSize}
    BY <1>1, <1>3, TablePlaces DEF Table!Page
  <1>5. ASSUME first < n PROVE Table!Page # {}
    <2>1. first \in 0 .. n - 1
      BY <1>1, <1>5
    <2>2. PICK i \in Table!Filtered : Table!Before(i) = first
      BY <2>1, TablePlaces
    <2>. QED  BY <1>1, <1>4, <2>2
  <1>. DEFINE T == first .. first + pageSize - 1
  <1>6. f \in Injection(Table!Page, T)
    <2>1. \A i \in Table!Page : Table!Before(i) \in T
      BY <1>1, <1>2, <1>4
    <2>2. \A i, k \in Table!Page : Table!Before(i) = Table!Before(k) => i = k
      BY <1>2, TablePlaces
    <2>. QED  BY <2>1, <2>2 DEF Injection, IsInjective
  <1>7. IsFiniteSet(T) /\ Cardinality(T) = pageSize
    BY <1>1, FS_Interval
  <1>8. Cardinality(Table!Page) <= pageSize
    BY <1>6, <1>7, FS_Injection
  <1>9. ASSUME first + pageSize <= n PROVE Cardinality(Table!Page) = pageSize
    <2>1. ASSUME NEW x \in T PROVE \E i \in Table!Page : f[i] = x
      <3>1. x \in 0 .. n - 1 /\ x \in Nat /\ first <= x /\ x < first + pageSize
        BY <1>1, <1>9
      <3>2. PICK i \in Table!Filtered : Table!Before(i) = x
        BY <3>1, TablePlaces
      <3>. QED  BY <1>4, <3>1, <3>2
    <2>2. f \in Surjection(Table!Page, T)
      BY <1>6, <2>1 DEF Surjection, Injection
    <2>. QED  BY <1>6, <1>7, <2>2, FS_Injection
  <1>. QED  BY <1>5, <1>8, <1>9 DEF first

\* The invariant holds initially.
LEMMA TableInit == ASSUME Table!TableViewAssumption, Table!Init PROVE Table!IInv
  <1>. DEFINE rows == v2   pageIndex == v7   pageSize == v8
  <1>1. rows \in Table!RowSets
    <2>1. rows \in [Table!Ids -> Table!Values]
      BY DEF Table!Init, Table!Values
    <2>. QED  BY <2>1, TableRowSet
  <1>2. pageSize \in TableSizes
    BY TableInitial DEF Table!Init
  <1>3. Table!TypeOK
    BY <1>1, <1>2, TableNumbers DEF Table!Init, Table!TypeOK
  <1>4. pageIndex = 0
    BY DEF Table!Init
  <1>. QED  BY <1>3, <1>4 DEF Table!IInv, Table!PageInList

\* A step back to the first page.
LEMMA TableReset ==
  ASSUME Table!TableViewAssumption, Table!IInv, Table!TypeOK', Table!AutoResetPageIndex
  PROVE  Table!IInv'
  BY DEF Table!IInv, Table!PageInList, Table!AutoResetPageIndex

\* A step to another page of the same list.
LEMMA TablePaged ==
  ASSUME Table!TableViewAssumption, Table!IInv, UNCHANGED <<v1, v2, v3, v4, v5, v6, v9>>,
         v8' \in TableSizes, v7' \in Nat,
         v7' = 0 \/ v7' * v8' < Cardinality(Table!Filtered)
  PROVE  Table!IInv'
  <1>. DEFINE pageIndex == v7   pageSize == v8
  <1>1. Table!Filtered' = Table!Filtered
    BY DEF Table!Filtered
  <1>2. Table!PageInList'
    BY TableCardinality, <1>1 DEF Table!PageInList
  <1>3. pageIndex' \in 0 .. TableRows
    <2>1. /\ Cardinality(Table!Filtered) \in Nat /\ Cardinality(Table!Filtered) <= TableRows
          /\ TableRows \in Nat
          /\ pageSize' \in Nat \ {0}
      BY TableFiltered, TableSizesExist, TableNumbers DEF Table!IInv
    <2>2. pageIndex' <= pageIndex' * pageSize' /\ pageIndex' * pageSize' \in Nat
      <3>. DEFINE a == pageIndex'
                  s == pageSize'
      <3>1. a \in Nat /\ s \in Nat \ {0}
        BY <2>1
      <3>. HIDE DEF a, s
      <3>2. a <= a * s /\ a * s \in Nat
        BY <3>1
      <3>. QED  BY <3>2 DEF a, s
    <2>. QED  BY <2>1, <2>2
  <1>4. Table!TypeOK'
    BY <1>3 DEF Table!IInv, Table!TypeOK
  <1>. QED  BY <1>2, <1>4 DEF Table!IInv

\* Every step keeps the invariant.
LEMMA TableStep ==
  ASSUME Table!TableViewAssumption, Table!IInv, [Table!Next]_(Table!vars)
  PROVE  Table!IInv'
  <1>. DEFINE table == v1   rows == v2   data == v3   search == v4   value == v5
              sorting == v6   pageIndex == v7   pageSize == v8   changes == v9
  <1>types. Table!TypeOK
    BY DEF Table!IInv
  <1>1. CASE Table!Change
    <2>1. ASSUME NEW i \in Table!Ids, Table!Insert(i) \/ Table!Remove(i) \/ Table!Update(i)
          PROVE  rows' \in Table!RowSets
      <3>1. PICK S \in SUBSET Table!Ids : rows \in [S -> Table!Values]
        BY <1>types, TableRowSet DEF Table!TypeOK
      <3>2. CASE Table!Insert(i)
        <4>1. S \cup {i} \in SUBSET Table!Ids /\ rows' \in [S \cup {i} -> Table!Values]
          BY <3>1, <3>2 DEF Table!Insert, Table!Values
        <4>. QED  BY <4>1, TableRowSet
      <3>3. CASE Table!Remove(i)
        <4>1. S \ {i} \in SUBSET Table!Ids /\ rows' \in [S \ {i} -> Table!Values]
          BY <3>1, <3>3 DEF Table!Remove
        <4>. QED  BY <4>1, TableRowSet
      <3>4. CASE Table!Update(i)
        <4>1. rows' \in [S -> Table!Values]
          BY <3>1, <3>4 DEF Table!Update, Table!Values
        <4>. QED  BY <4>1, TableRowSet
      <3>. QED  BY <2>1, <3>2, <3>3, <3>4
    <2>2. /\ rows' \in Table!RowSets /\ UNCHANGED <<table, data, Table!view>>
          /\ changes' \in 0 .. (TableRows - 1)
      <3>1. PICK i \in Table!Ids : Table!Insert(i) \/ Table!Remove(i) \/ Table!Update(i)
        BY <1>1 DEF Table!Change
      <3>2. rows' \in Table!RowSets
        BY <2>1, <3>1
      <3>3. changes' = changes + 1 /\ changes < (TableRows - 1) /\ changes \in 0 .. (TableRows - 1)
        BY <1>types, <1>1 DEF Table!Change, Table!TypeOK
      <3>4. changes' \in 0 .. (TableRows - 1)
        BY <3>3, TableNumbers
      <3>. QED  BY <1>1, <3>2, <3>4 DEF Table!Change
    <2>3. Table!TypeOK' /\ Table!Filtered' = Table!Filtered
      BY <1>types, <2>2 DEF Table!TypeOK, Table!view, Table!Filtered
    <2>. QED  BY <2>2, <2>3 DEF Table!IInv, Table!PageInList, Table!view
  <1>2. CASE Table!Poll
    <2>1. CASE rows # data
      <3>1. Table!TypeOK'
        BY <1>types, <1>2, <2>1, TableNumbers DEF Table!Poll, Table!TypeOK, Table!AutoResetPageIndex
      <3>. QED  BY <1>2, <2>1, <3>1, TableReset DEF Table!Poll
    <2>2. CASE rows = data
      <3>1. UNCHANGED <<table, rows, data, search, value, sorting, pageIndex, pageSize, changes>>
        BY <1>2, <2>2 DEF Table!Poll
      <3>2. Table!TypeOK' /\ Table!Filtered' = Table!Filtered
        BY <1>types, <3>1 DEF Table!TypeOK, Table!Filtered
      <3>. QED  BY <3>1, <3>2 DEF Table!IInv, Table!PageInList
    <2>. QED  BY <2>1, <2>2
  <1>3. CASE Table!ResetFilters
    <2>1. Table!TypeOK'
      BY <1>types, <1>3, TableNumbers DEF Table!ResetFilters, Table!TypeOK, Table!AutoResetPageIndex
    <2>. QED  BY <1>3, <2>1, TableReset DEF Table!ResetFilters
  <1>4. ASSUME NEW s \in {"", "odd"}, Table!Search(s) PROVE Table!IInv'
    <2>1. Table!TypeOK'
      BY <1>types, <1>4, TableNumbers DEF Table!Search, Table!TypeOK, Table!AutoResetPageIndex
    <2>. QED  BY <1>4, <2>1, TableReset DEF Table!Search
  <1>5. ASSUME NEW v \in Table!Values \cup {"all"}, Table!ChooseValue(v) PROVE Table!IInv'
    <2>1. Table!TypeOK'
      BY <1>types, <1>5, TableNumbers DEF Table!ChooseValue, Table!TypeOK, Table!AutoResetPageIndex
    <2>. QED  BY <1>5, <2>1, TableReset DEF Table!ChooseValue
  <1>6. ASSUME NEW s \in {"asc", "desc"}, Table!ToggleSorting(s) PROVE Table!IInv'
    <2>1. Table!TypeOK'
      BY <1>types, <1>6, TableNumbers DEF Table!ToggleSorting, Table!TypeOK,
         Table!AutoResetPageIndex
    <2>. QED  BY <1>6, <2>1, TableReset DEF Table!ToggleSorting
  <1>nums. pageSize \in Nat \ {0} /\ pageIndex \in Nat /\ Cardinality(Table!Filtered) \in Nat
    BY <1>types, TablePaging
  <1>7. ASSUME NEW n \in TableSizes, Table!SetPageSize(n) PROVE Table!IInv'
    <2>. DEFINE first == pageIndex * pageSize
                p == first \div n
    <2>1. n \in Nat \ {0} /\ first \in Nat
      BY <1>nums, TableSizesExist
    <2>2. p \in Nat /\ p * n <= first /\ pageSize' = n /\ pageIndex' = p
      BY <1>7, <2>1, TableDivision DEF Table!SetPageSize
    <2>3. p = 0 \/ first < Cardinality(Table!Filtered)
      <3>1. pageIndex = 0 => first = 0
        BY <1>nums
      <3>2. first = 0 => p = 0
        BY <2>1
      <3>. QED  BY TableCardinality, <1>nums, <3>1, <3>2 DEF Table!IInv, Table!PageInList
    <2>4. p * n \in Nat
      BY <2>1, <2>2
    <2>. HIDE DEF first, p
    <2>5. p = 0 \/ p * n < Cardinality(Table!Filtered)
      BY <1>nums, <2>1, <2>2, <2>3, <2>4
    <2>. QED  BY <1>7, <2>2, <2>5, TablePaged DEF Table!SetPageSize
  <1>8. CASE Table!PreviousPage
    <2>1. pageIndex' = pageIndex - 1 /\ pageIndex > 0 /\ pageSize' = pageSize
      BY <1>8 DEF Table!PreviousPage
    <2>2. pageIndex * pageSize < Cardinality(Table!Filtered)
      BY TableCardinality, <2>1 DEF Table!IInv, Table!PageInList
    <2>3. pageIndex' * pageSize' <= pageIndex * pageSize /\ pageIndex' * pageSize' \in Nat
      BY <1>nums, <2>1
    <2>4. pageIndex' * pageSize' < Cardinality(Table!Filtered)
      BY <1>nums, <2>2, <2>3
    <2>5. pageIndex' \in Nat /\ pageSize' \in TableSizes
      BY <1>types, <1>nums, <2>1, TablePaging
    <2>. QED  BY <1>8, <2>4, <2>5, TablePaged DEF Table!PreviousPage
  <1>9. CASE Table!NextPage
    <2>1. pageIndex' = pageIndex + 1 /\ pageIndex + 1 < Table!PageCount /\ pageSize' = pageSize
      BY <1>9 DEF Table!NextPage
    <2>2. (pageIndex + 1) * pageSize < Cardinality(Table!Filtered)
      <3>1. pageIndex + 1 \in Nat
        BY <1>nums
      <3>. QED  BY TableCardinality, <1>nums, <2>1, <3>1, TableDivision DEF Table!PageCount
    <2>3. pageIndex' * pageSize' < Cardinality(Table!Filtered)
      BY <2>1, <2>2
    <2>4. pageIndex' \in Nat /\ pageSize' \in TableSizes
      BY <1>types, <1>nums, <2>1, TablePaging
    <2>. QED  BY <1>9, <2>3, <2>4, TablePaged DEF Table!NextPage
  <1>10. CASE UNCHANGED Table!vars
    BY <1>10 DEF Table!vars, Table!IInv, Table!TypeOK, Table!PageInList, Table!Filtered
  <1>. QED  BY <1>1, <1>2, <1>3, <1>4, <1>5, <1>6, <1>7, <1>8, <1>9, <1>10 DEF Table!Next

\* The pages cover the rows.
LEMMA TableCovers == ASSUME Table!TableViewAssumption, Table!IInv PROVE Table!PagesCoverRows
  <1>. DEFINE table == v1   data == v3   pageIndex == v7   pageSize == v8
  <1>. DEFINE n == Cardinality(Table!Filtered)
  <1>1. /\ Table!TypeOK /\ pageSize \in Nat \ {0} /\ pageIndex \in Nat /\ n \in Nat
        /\ IsFiniteSet(Table!Filtered)
    BY TablePaging DEF Table!IInv
  <1>2. Table!Filtered # {} => Table!Page # {}
    <2>1. Table!Filtered # {} => n > 0
      BY <1>1, FS_EmptySet
    <2>2. pageIndex = 0 => pageIndex * pageSize = 0
      BY <1>1
    <2>. QED  BY TableCardinality, <1>1, <2>1, <2>2, TablePageRows DEF Table!IInv, Table!PageInList
  <1>3. Table!Page \subseteq Table!Filtered /\ Cardinality(Table!Page) <= pageSize
    BY <1>1, TablePageRows DEF Table!Page
  <1>4. pageIndex + 1 < Table!PageCount => Cardinality(Table!Page) = pageSize
    <2>1. ASSUME pageIndex + 1 < Table!PageCount PROVE pageIndex * pageSize + pageSize <= n
      <3>0. pageIndex + 1 \in Nat
        BY <1>1
      <3>1. (pageIndex + 1) * pageSize < n
        BY TableCardinality, <1>1, <2>1, <3>0, TableDivision DEF Table!PageCount
      <3>2. (pageIndex + 1) * pageSize = pageIndex * pageSize + pageSize
        BY <1>1
      <3>3. pageIndex * pageSize \in Nat
        BY <1>1
      <3>. QED  BY <1>1, <3>1, <3>2, <3>3
    <2>. QED  BY <1>1, <2>1, TablePageRows
  <1>5. pageSize >= table.initialPageSize => Table!FooterShown \/ Table!PageCount <= 1
    <2> SUFFICES ASSUME pageSize >= table.initialPageSize, ~Table!FooterShown
                 PROVE  Table!PageCount <= 1
      OBVIOUS
    <2>1. table.initialPageSize \in Nat
      BY <1>1, TableInitial, TableSizesExist DEF Table!TypeOK
    <2>2. /\ n <= Cardinality(DOMAIN data) /\ Cardinality(DOMAIN data) \in Nat
      BY <1>1, TableFiltered
    <2>3. Cardinality(DOMAIN data) <= table.initialPageSize
      BY TableCardinality, <2>1, <2>2 DEF Table!FooterShown
    <2>4. n <= pageSize
      BY <1>1, <2>1, <2>2, <2>3
    <2>. QED  BY TableCardinality, <1>1, <2>4, TableDivision DEF Table!PageCount
  <1>. QED  BY TableCardinality, <1>2, <1>3, <1>4, <1>5 DEF Table!PagesCoverRows

-----------------------------------------------------------------------------
(* The actions on rows. *)

\* The invariant holds initially.
LEMMA RowInit == ASSUME Row!RowActionsAssumption, Row!Init PROVE Row!IInv
  <1>. DEFINE table == v1   device == v2   canManage == v3   rows == v4   shown == v5
              confirming == v6   requests == v7   last == v8   others == v9   clicks == v10
              changes == v11
  <1>1. PICK t \in Words, fixed \in SUBSET Items :
            rows = [i \in Items |-> [there |-> TRUE, enabled |-> TRUE, text |-> t,
                                     fixed |-> i \in fixed]]
    BY DEF Row!Init
  <1>2. rows \in [Items -> Row!Row]
    BY <1>1 DEF Row!Row
  <1>3. /\ last = [i \in Items |-> [enabled |-> TRUE, text |-> rows[i].text, undone |-> FALSE]]
        /\ requests = {} /\ others = {} /\ shown = rows
        /\ clicks = 0 /\ changes = 0 /\ confirming = NoRow
        /\ table \in Row!Tables /\ device \in Row!Devices /\ canManage \in BOOLEAN
    BY DEF Row!Init
  <1>4. Row!TypeOK
    BY <1>2, <1>3 DEF Row!TypeOK, Row!RowActionsAssumption, Row!Row
  <1>5. Row!OneToggle
    BY <1>3 DEF Row!OneToggle
  <1>6. Row!LastKept
    BY <1>1, <1>3 DEF Row!LastKept, Row!Switches
  <1>7. Row!EditKept
    BY <1>3 DEF Row!EditKept, Row!Switches
  <1>. QED  BY <1>4, <1>5, <1>6, <1>7 DEF Row!IInv

\* A request that is sent.
LEMMA RowSent ==
  ASSUME Row!RowActionsAssumption, Row!TypeOK, NEW op \in {"toggle", "remove"}, NEW i \in Items,
         NEW e \in BOOLEAN, Row!Send(op, i, e)
  PROVE  /\ v10' \in 0 .. MaxClicks /\ v7' \subseteq Row!Request
         /\ \E new \in Row!Request : /\ v7' = v7 \cup {new}
                                     /\ new.op = op /\ new.id = i /\ new.enabled = e
                                     /\ new.text = v5[i].text /\ new.status = "sent"
  <1>. DEFINE shown == v5   requests == v7   clicks == v10
  <1>. DEFINE new == [op |-> op, id |-> i, enabled |-> e, text |-> shown[i].text,
                      n |-> clicks, status |-> "sent"]
  <1>1. clicks' \in 0 .. MaxClicks /\ clicks \in 0 .. MaxClicks
    BY DEF Row!Send, Row!TypeOK, Row!RowActionsAssumption
  <1>2. shown[i].text \in Words
    BY DEF Row!TypeOK, Row!Row
  <1>3. new \in Row!Request
    BY <1>1, <1>2 DEF Row!Request
  <1>4. requests' = requests \cup {new}
    BY DEF Row!Send
  <1>5. /\ new.op = op /\ new.id = i /\ new.enabled = e /\ new.text = shown[i].text
        /\ new.status = "sent"
    OBVIOUS
  <1>. HIDE DEF new
  <1>. QED  BY <1>1, <1>3, <1>4, <1>5 DEF Row!TypeOK

\* An answer changes the status of its request only.
LEMMA RowAnswered ==
  ASSUME Row!TypeOK, NEW r \in v7, NEW st \in {"done", "failed"}, Row!Answer(r, st)
  PROVE  /\ v7' \subseteq Row!Request
         /\ \E new \in Row!Request : /\ v7' = (v7 \ {r}) \cup {new}
                                     /\ new.op = r.op /\ new.status # "sent"
  <1>. DEFINE requests == v7
  <1>. DEFINE new == [r EXCEPT !.status = st]
  <1>1. r \in Row!Request
    BY DEF Row!TypeOK
  <1>2. new \in Row!Request /\ new.op = r.op /\ new.status # "sent"
    BY <1>1 DEF Row!Request
  <1>3. requests' = (requests \ {r}) \cup {new}
    BY DEF Row!Answer
  <1>. HIDE DEF new
  <1>. QED  BY <1>2, <1>3 DEF Row!TypeOK

\* What a request does to the rows.
LEMMA RowEffect ==
  ASSUME Row!TypeOK, NEW r \in Row!Request
  PROVE  /\ Row!Effect(r) \in [Items -> Row!Row]
         /\ \A i \in Items : i # r.id => Row!Effect(r)[i] = v4[i]
         /\ r.op = "toggle" => /\ Row!Effect(r)[r.id].enabled = r.enabled
                               /\ Row!Effect(r)[r.id].there = v4[r.id].there
         /\ Row!Effect(r)[r.id].text =
               IF r.op = "toggle" /\ v1.toggle = "row" THEN r.text ELSE v4[r.id].text
         /\ r.op = "remove" /\ v1.removal # "stop" => ~Row!Effect(r)[r.id].there
  <1>. DEFINE table == v1   rows == v4
  <1>1. /\ rows \in [Items -> Row!Row] /\ r.id \in Items /\ r.enabled \in BOOLEAN
        /\ r.text \in Words
        /\ r.op \in {"toggle", "remove"}
    BY DEF Row!TypeOK, Row!Request
  <1>2. CASE r.op = "toggle" /\ table.toggle = "row"
    BY <1>1, <1>2 DEF Row!Effect, Row!Row
  <1>3. CASE r.op = "toggle" /\ table.toggle # "row"
    BY <1>1, <1>3 DEF Row!Effect, Row!Row
  <1>4. CASE r.op # "toggle"
    BY <1>1, <1>4 DEF Row!Effect, Row!Row
  <1>. QED  BY <1>2, <1>3, <1>4

\* What others do to row i: they leave its text, or the text is what they saved last.
LEMMA RowOthers ==
  ASSUME Row!TypeOK, NEW i \in Items, Row!OtherChange(i)
  PROVE  /\ v4' \in [Items -> Row!Row]
         /\ v8' \in [Items -> [enabled : BOOLEAN, text : Words, undone : BOOLEAN]]
         /\ \A k \in Items : k # i => v4'[k] = v4[k] /\ v8'[k] = v8[k]
         /\ \/ v4'[i].text = v4[i].text /\ v8' = v8
            \/ /\ v4'[i].text = v8'[i].text
               /\ ~v8'[i].undone /\ v1.toggle = "row" =>
                     \A r \in Row!Switches(i) : r.text = v8'[i].text
  <1>. DEFINE table == v1   rows == v4   last == v8
              History == [enabled : BOOLEAN, text : Words, undone : BOOLEAN]
  <1>0. rows \in [Items -> Row!Row] /\ last \in [Items -> History]
    BY DEF Row!TypeOK
  <1>1. ASSUME NEW t \in Words, rows' = [rows EXCEPT ![i].text = t],
               last' = [last EXCEPT ![i].text = t, ![i].undone =
                          table.toggle = "row" /\ \E r \in Row!Switches(i) : r.text # t]
        PROVE  /\ rows' \in [Items -> Row!Row] /\ last' \in [Items -> History]
               /\ \A k \in Items : k # i => rows'[k] = rows[k] /\ last'[k] = last[k]
               /\ rows'[i].text = last'[i].text
               /\ ~last'[i].undone /\ table.toggle = "row" =>
                     \A r \in Row!Switches(i) : r.text = last'[i].text
    <2>. DEFINE u == table.toggle = "row" /\ \E r \in Row!Switches(i) : r.text # t
    <2>1. u \in BOOLEAN /\ last' = [last EXCEPT ![i].text = t, ![i].undone = u]
      BY <1>1
    <2>2. ~u /\ table.toggle = "row" => \A r \in Row!Switches(i) : r.text = t
      OBVIOUS
    <2>. HIDE DEF u
    <2>3. rows' \in [Items -> Row!Row] /\ rows'[i].text = t
      BY <1>0, <1>1 DEF Row!Row
    <2>4. last' \in [Items -> History] /\ last'[i].text = t /\ last'[i].undone = u
      BY <1>0, <2>1
    <2>5. \A k \in Items : k # i => rows'[k] = rows[k] /\ last'[k] = last[k]
      BY <1>0, <1>1, <2>1
    <2>. QED  BY <2>2, <2>3, <2>4, <2>5
  <1>2. ASSUME \/ rows' = [rows EXCEPT ![i].enabled = ~@]
               \/ rows' = [rows EXCEPT ![i].there = FALSE]
        PROVE  /\ rows' \in [Items -> Row!Row] /\ rows'[i].text = rows[i].text
               /\ \A k \in Items : k # i => rows'[k] = rows[k]
    <2>. DEFINE e == ~rows[i].enabled
    <2>1. CASE rows' = [rows EXCEPT ![i].enabled = ~@]
      <3>1. e \in BOOLEAN /\ rows' = [rows EXCEPT ![i].enabled = e]
        BY <2>1
      <3>. HIDE DEF e
      <3>. QED  BY <1>0, <3>1 DEF Row!Row
    <2>2. CASE rows' = [rows EXCEPT ![i].there = FALSE]
      BY <1>0, <2>2 DEF Row!Row
    <2>. QED  BY <1>2, <2>1, <2>2
  <1>3. \/ \E t \in Words :
             /\ rows' = [rows EXCEPT ![i].text = t]
             /\ last' = [last EXCEPT ![i].text = t, ![i].undone =
                           table.toggle = "row" /\ \E r \in Row!Switches(i) : r.text # t]
        \/ /\ \/ rows' = [rows EXCEPT ![i].enabled = ~@]
              \/ rows' = [rows EXCEPT ![i].there = FALSE]
           /\ UNCHANGED last
    BY DEF Row!OtherChange
  <1>. QED  BY <1>0, <1>1, <1>2, <1>3

\* A step keeps the types.
LEMMA RowTypes == ASSUME Row!RowActionsAssumption, Row!IInv, [Row!Next]_(Row!vars) PROVE Row!TypeOK'
  <1>. DEFINE rows == v4   shown == v5   confirming == v6   requests == v7   last == v8
              others == v9   clicks == v10   changes == v11
              History == [enabled : BOOLEAN, text : Words, undone : BOOLEAN]
  <1>. USE DEF Row!IInv, Row!TypeOK
  <1>1. CASE Row!Poll
    BY <1>1 DEF Row!Poll, Row!page
  <1>2. CASE Row!Cancel
    BY <1>2 DEF Row!Cancel, Row!page
  <1>3. CASE Row!Confirm
    <2>1. confirming \in Items /\ Row!Send("remove", confirming, FALSE)
      BY <1>3 DEF Row!Confirm, Row!MayConfirm
    <2>2. clicks' \in 0 .. MaxClicks /\ requests' \subseteq Row!Request
      BY <2>1, RowSent
    <2>. QED  BY <1>3, <2>2 DEF Row!Confirm, Row!page
  <1>4. ASSUME NEW i \in Items, Row!OtherChange(i) PROVE Row!TypeOK'
    <2>1. rows' \in [Items -> Row!Row]
      BY <1>4, RowOthers
    <2>2. changes' \in 0 .. MaxOthers
      BY <1>4 DEF Row!OtherChange, Row!RowActionsAssumption
    <2>3. last' \in [Items -> History]
      BY <1>4, RowOthers
    <2>. QED  BY <1>4, <2>1, <2>2, <2>3 DEF Row!OtherChange, Row!page
  <1>5. ASSUME NEW i \in Items, Row!Toggle(i) PROVE Row!TypeOK'
    <2>1. (~shown[i].enabled) \in BOOLEAN /\ Row!Send("toggle", i, ~shown[i].enabled)
      BY <1>5 DEF Row!Toggle, Row!Row
    <2>2. clicks' \in 0 .. MaxClicks /\ requests' \subseteq Row!Request
      BY <2>1, RowSent
    <2>3. last' \in [Items -> History]
      BY <1>5 DEF Row!Toggle, Row!Row
    <2>. QED  BY <1>5, <2>1, <2>2, <2>3 DEF Row!Toggle, Row!page
  <1>6. ASSUME NEW i \in Items, Row!ChooseRemoval(i) PROVE Row!TypeOK'
    BY <1>6 DEF Row!ChooseRemoval, Row!Asks, Row!page
  <1>7. ASSUME NEW r \in requests, Row!Serve(r) PROVE Row!TypeOK'
    <2>1. requests' \subseteq Row!Request
      BY <1>7, RowAnswered DEF Row!Serve
    <2>2. rows' \in [Items -> Row!Row] /\ others' \subseteq Items
      BY <1>7, RowEffect DEF Row!Serve, Row!Request
    <2>. QED  BY <1>7, <2>1, <2>2 DEF Row!Serve, Row!page
  <1>8. ASSUME NEW r \in requests, Row!Done(r) PROVE Row!TypeOK'
    BY <1>8 DEF Row!Done, Row!page
  <1>9. ASSUME NEW r \in requests, Row!Failed(r) PROVE Row!TypeOK'
    BY <1>9 DEF Row!Failed, Row!page
  <1>10. CASE UNCHANGED Row!vars
    BY <1>10 DEF Row!vars
  <1>. QED  BY <1>1, <1>2, <1>3, <1>4, <1>5, <1>6, <1>7, <1>8, <1>9, <1>10 DEF Row!Next

\* A table has one switch out at a time.
LEMMA RowOneToggle ==
  ASSUME Row!RowActionsAssumption, Row!IInv, [Row!Next]_(Row!vars)
  PROVE  Row!OneToggle'
  <1>. DEFINE device == v2   shown == v5   confirming == v6   requests == v7
  <1>. USE DEF Row!IInv, Row!TypeOK, Row!OneToggle
  <1>1. CASE Row!Confirm
    <2>. DEFINE e == FALSE
    <2>1. /\ confirming \in Items /\ e \in BOOLEAN /\ Row!Send("remove", confirming, e)
          /\ UNCHANGED device
      BY <1>1 DEF Row!Confirm, Row!MayConfirm, Row!page
    <2>. HIDE DEF e
    <2>2. \E new \in Row!Request : requests' = requests \cup {new} /\ new.op = "remove"
      BY <2>1, RowSent
    <2>. QED  BY <2>1, <2>2
  <1>2. ASSUME NEW i \in Items, Row!Toggle(i) PROVE Row!OneToggle'
    <2>. DEFINE e == ~shown[i].enabled
    <2>1. e \in BOOLEAN /\ Row!Send("toggle", i, e) /\ UNCHANGED device
      BY <1>2 DEF Row!Toggle, Row!Row, Row!page
    <2>. HIDE DEF e
    <2>2. \E new \in Row!Request : requests' = requests \cup {new} /\ new.op = "toggle"
      BY <2>1, RowSent
    <2>3. device = "table" => \A r \in requests : r.op # "toggle"
      BY <1>2 DEF Row!Toggle, Row!SwitchOffered, Row!Pending
    <2>. QED  BY <2>1, <2>2, <2>3
  <1>3. ASSUME NEW r \in requests, Row!Serve(r) PROVE Row!OneToggle'
    <2>1. \E new \in Row!Request : requests' = (requests \ {r}) \cup {new} /\ new.op = r.op
      BY <1>3, RowAnswered DEF Row!Serve
    <2>. QED  BY <1>3, <2>1 DEF Row!Serve, Row!page
  <1>4. ASSUME NEW r \in requests, Row!Done(r) \/ Row!Failed(r) PROVE Row!OneToggle'
    BY <1>4 DEF Row!Done, Row!Failed, Row!page
  <1>5. CASE UNCHANGED <<device, requests>>
    BY <1>5
  <1>6. \/ Row!Confirm \/ UNCHANGED <<device, requests>>
        \/ \E i \in Items : Row!Toggle(i)
        \/ \E r \in requests : Row!Serve(r) \/ Row!Done(r) \/ Row!Failed(r)
    BY DEF Row!Next, Row!vars, Row!page, Row!Poll, Row!Cancel, Row!OtherChange, Row!ChooseRemoval
  <1>. QED  BY <1>1, <1>2, <1>3, <1>4, <1>5, <1>6

\* No table with a switch stops its rows instead of removing them.
LEMMA RowTablesApart ==
  ASSUME Row!TypeOK
  PROVE  /\ v1.toggle # "none" => v1.removal # "stop"
         /\ v1.toggle \in {"none", "row", "flag"}
  BY DEF Row!TypeOK, Row!Tables, Row!Table, Row!ScanJobsTable, Row!SchedulesTable, Row!ASNTable,
     Row!UsersTable

\* A row that nobody else changed is as it was switched last, or its switch is out.
LEMMA RowLastKept ==
  ASSUME Row!RowActionsAssumption, Row!IInv, [Row!Next]_(Row!vars)
  PROVE  Row!LastKept'
  <1>. DEFINE table == v1   device == v2   rows == v4   shown == v5   confirming == v6
              requests == v7   last == v8   others == v9
  <1>. USE DEF Row!IInv, Row!TypeOK, Row!LastKept, Row!Switches
  <1>1. CASE Row!Confirm
    <2>. DEFINE e == FALSE
    <2>1. /\ confirming \in Items /\ e \in BOOLEAN /\ Row!Send("remove", confirming, e)
          /\ UNCHANGED <<Row!page, rows, last, others>>
      BY <1>1 DEF Row!Confirm, Row!MayConfirm
    <2>. HIDE DEF e
    <2>2. \E new \in Row!Request : requests' = requests \cup {new} /\ new.op = "remove"
      BY <2>1, RowSent
    <2>3. \A i \in Items : Row!Switches(i)' = Row!Switches(i)
      BY <2>2
    <2>. QED  BY <2>1, <2>3 DEF Row!page
  <1>2. ASSUME NEW i \in Items, Row!OtherChange(i) PROVE Row!LastKept'
    <2>1. \A k \in Items : k # i => rows'[k] = rows[k] /\ last'[k] = last[k]
      BY <1>2, RowOthers
    <2>2. UNCHANGED <<table, device, requests>> /\ others' = others \cup {i}
      BY <1>2 DEF Row!OtherChange, Row!page
    <2>. QED  BY <2>1, <2>2
  <1>3. ASSUME NEW i \in Items, Row!Toggle(i) PROVE Row!LastKept'
    <2>. DEFINE e == ~shown[i].enabled
    <2>1. /\ e \in BOOLEAN /\ Row!Send("toggle", i, e)
          /\ UNCHANGED <<Row!page, rows, others>> /\ last'[i].enabled = e
          /\ \A k \in Items : k # i => last'[k] = last[k]
      BY <1>3 DEF Row!Toggle, Row!Row
    <2>. HIDE DEF e
    <2>2. PICK new \in Row!Request : /\ requests' = requests \cup {new}
                                     /\ new.op = "toggle" /\ new.id = i /\ new.status = "sent"
                                     /\ new.enabled = e
      BY <2>1, RowSent
    <2>3. device = "table" => \A r \in requests : r.op # "toggle"
      BY <1>3 DEF Row!Toggle, Row!SwitchOffered, Row!Pending
    <2>4. device = "table" =>
            \A k \in Items : Row!Switches(k)' = IF k = i THEN {new} ELSE Row!Switches(k)
      BY <2>2, <2>3
    <2>. QED  BY <2>1, <2>2, <2>4 DEF Row!page
  <1>4. ASSUME NEW r \in requests, Row!Serve(r) PROVE Row!LastKept'
    <2>1. PICK new \in Row!Request : /\ requests' = (requests \ {r}) \cup {new}
                                     /\ new.op = r.op /\ new.status # "sent"
      BY <1>4, RowAnswered DEF Row!Serve
    <2>2. \A i \in Items : Row!Switches(i)' = Row!Switches(i) \ {r}
      BY <2>1
    <2>3. UNCHANGED <<Row!page, last>> /\ r.status = "sent" /\ r \in Row!Request
      BY <1>4 DEF Row!Serve
    <2>4. CASE Row!Accepted(r) /\ rows' = Row!Effect(r) /\ UNCHANGED others
      <3>1. ASSUME NEW i \in Items, i # r.id
            PROVE  rows'[i] = rows[i] /\ Row!Switches(i)' = Row!Switches(i)
        BY <2>2, <2>3, <2>4, <3>1, RowEffect
      <3>2. CASE r.op = "toggle"
        <4>1. /\ rows'[r.id].enabled = r.enabled /\ rows[r.id].there
              /\ r \in Row!Switches(r.id)
          BY <2>3, <2>4, <3>2, RowEffect DEF Row!Accepted, Row!Request
        <4>2. device = "table" => Row!Switches(r.id)' = {}
          BY <2>2, <3>2, <2>3 DEF Row!OneToggle, Row!Request
        <4>. QED  BY <2>3, <2>4, <3>1, <4>1, <4>2 DEF Row!page, Row!Request
      <3>3. CASE r.op = "remove"
        <4>1. table.toggle # "none" => ~rows'[r.id].there
          BY <2>3, <2>4, <3>3, RowEffect, RowTablesApart
        <4>. QED  BY <2>3, <2>4, <3>1, <4>1 DEF Row!page, Row!Request
      <3>. QED  BY <2>3, <3>2, <3>3 DEF Row!Request
    <2>5. CASE UNCHANGED rows /\ others' = others \cup {r.id}
      <3>1. \A i \in Items : i # r.id => Row!Switches(i)' = Row!Switches(i)
        BY <2>2
      <3>. QED  BY <2>3, <2>5, <3>1 DEF Row!page
    <2>. QED  BY <1>4, <2>4, <2>5 DEF Row!Serve
  <1>5. ASSUME NEW r \in requests, Row!Done(r) \/ Row!Failed(r) PROVE Row!LastKept'
    <2>1. /\ r.status # "sent" /\ requests' = requests \ {r}
          /\ UNCHANGED <<Row!page, rows, last, others>>
      BY <1>5 DEF Row!Done, Row!Failed
    <2>2. \A i \in Items : Row!Switches(i)' = Row!Switches(i)
      BY <2>1
    <2>. QED  BY <2>1, <2>2 DEF Row!page
  <1>6. CASE UNCHANGED <<Row!page, rows, requests, last, others>>
    BY <1>6 DEF Row!page
  <1>7. \/ Row!Confirm \/ UNCHANGED <<Row!page, rows, requests, last, others>>
        \/ \E i \in Items : Row!Toggle(i) \/ Row!OtherChange(i)
        \/ \E r \in requests : Row!Serve(r) \/ Row!Done(r) \/ Row!Failed(r)
    BY DEF Row!Next, Row!vars, Row!page, Row!Poll, Row!Cancel, Row!ChooseRemoval
  <1>. QED  BY <1>1, <1>2, <1>3, <1>4, <1>5, <1>6, <1>7

\* Unless a switch is to be expected that did not know of it, a row holds what others saved
\* last, and so does every switching of it that sends all fields.
LEMMA RowEditKept ==
  ASSUME Row!RowActionsAssumption, Row!IInv, [Row!Next]_(Row!vars)
  PROVE  Row!EditKept'
  <1>. DEFINE table == v1   rows == v4   shown == v5   confirming == v6   requests == v7
              last == v8
  <1>. USE DEF Row!IInv, Row!TypeOK, Row!EditKept, Row!Switches
  <1>1. CASE Row!Confirm
    <2>. DEFINE e == FALSE
    <2>1. /\ confirming \in Items /\ e \in BOOLEAN /\ Row!Send("remove", confirming, e)
          /\ UNCHANGED <<table, rows, last>>
      BY <1>1 DEF Row!Confirm, Row!MayConfirm, Row!page
    <2>. HIDE DEF e
    <2>2. \E new \in Row!Request : requests' = requests \cup {new} /\ new.op = "remove"
      BY <2>1, RowSent
    <2>3. \A i \in Items : Row!Switches(i)' = Row!Switches(i)
      BY <2>2
    <2>. QED  BY <2>1, <2>3
  <1>2. ASSUME NEW i \in Items, Row!OtherChange(i) PROVE Row!EditKept'
    <2>1. UNCHANGED <<table, requests>>
      BY <1>2 DEF Row!OtherChange, Row!page
    <2>2. /\ \A k \in Items : k # i => rows'[k] = rows[k] /\ last'[k] = last[k]
          /\ \/ rows'[i].text = rows[i].text /\ last' = last
             \/ /\ rows'[i].text = last'[i].text
                /\ ~last'[i].undone /\ table.toggle = "row" =>
                      \A r \in requests : r.op = "toggle" /\ r.id = i /\ r.status = "sent"
                                            => r.text = last'[i].text
      BY <1>2, RowOthers
    <2>3. \A k \in Items : Row!Switches(k)' = Row!Switches(k)
      BY <2>1
    <2>. QED  BY <2>1, <2>2, <2>3
  <1>3. ASSUME NEW i \in Items, Row!Toggle(i) PROVE Row!EditKept'
    <2>. DEFINE e == ~shown[i].enabled
    <2>1. /\ e \in BOOLEAN /\ Row!Send("toggle", i, e)
          /\ UNCHANGED <<table, rows>> /\ \A k \in Items : last'[k].text = last[k].text
          /\ \A k \in Items : last[k].undone => last'[k].undone
          /\ ~last'[i].undone /\ table.toggle = "row" => shown[i].text = last[i].text
      BY <1>3 DEF Row!Toggle, Row!Row, Row!page
    <2>. HIDE DEF e
    <2>2. PICK new \in Row!Request : /\ requests' = requests \cup {new}
                                     /\ new.id = i /\ new.text = shown[i].text
      BY <2>1, RowSent
    <2>3. \A k \in Items : \A r \in Row!Switches(k)' :
             r \in Row!Switches(k) \/ (k = i /\ r.text = shown[i].text)
      BY <2>2
    <2>. QED  BY <2>1, <2>3
  <1>4. ASSUME NEW r \in requests, Row!Serve(r) PROVE Row!EditKept'
    <2>1. PICK new \in Row!Request : /\ requests' = (requests \ {r}) \cup {new}
                                     /\ new.op = r.op /\ new.status # "sent"
      BY <1>4, RowAnswered DEF Row!Serve
    <2>2. \A i \in Items : Row!Switches(i)' \subseteq Row!Switches(i)
      BY <2>1
    <2>3. UNCHANGED <<table, last>> /\ r.status = "sent" /\ r \in Row!Request
      BY <1>4 DEF Row!Serve, Row!page
    <2>4. ASSUME NEW i \in Items, ~last[i].undone PROVE rows'[i].text = last[i].text
      <3>1. CASE UNCHANGED rows
        BY <2>4, <3>1
      <3>2. CASE rows' = Row!Effect(r) /\ i # r.id
        BY <2>3, <2>4, <3>2, RowEffect
      <3>3. CASE rows' = Row!Effect(r) /\ i = r.id
        <4>1. r.op = "toggle" => r \in Row!Switches(i)
          BY <2>3, <3>3
        <4>. QED  BY <2>3, <2>4, <3>3, <4>1, RowEffect
      <3>. QED  BY <1>4, <3>1, <3>2, <3>3 DEF Row!Serve
    <2>. QED  BY <2>2, <2>3, <2>4
  <1>5. ASSUME NEW r \in requests, Row!Done(r) \/ Row!Failed(r) PROVE Row!EditKept'
    BY <1>5 DEF Row!Done, Row!Failed, Row!page
  <1>6. CASE UNCHANGED <<table, rows, requests, last>>
    BY <1>6
  <1>7. \/ Row!Confirm \/ UNCHANGED <<table, rows, requests, last>>
        \/ \E i \in Items : Row!Toggle(i) \/ Row!OtherChange(i)
        \/ \E r \in requests : Row!Serve(r) \/ Row!Done(r) \/ Row!Failed(r)
    BY DEF Row!Next, Row!vars, Row!page, Row!Poll, Row!Cancel, Row!ChooseRemoval
  <1>. QED  BY <1>1, <1>2, <1>3, <1>4, <1>5, <1>6, <1>7

\* Every step keeps the invariant.
LEMMA RowStep ==
  ASSUME Row!RowActionsAssumption, Row!IInv, [Row!Next]_(Row!vars)
  PROVE  Row!IInv'
  BY RowTypes, RowOneToggle, RowLastKept, RowEditKept DEF Row!IInv

\* When no switch is out, the row is as it was switched last.
LEMMA RowLastWins == ASSUME Row!IInv PROVE Row!LastToggleWins
  BY DEF Row!IInv, Row!LastKept, Row!LastToggleWins, Row!Switches

\* A switch takes back what others saved only if it could not know of it.
LEMMA RowKeepsEdits == ASSUME Row!IInv PROVE Row!SwitchesKeepEdits
  BY DEF Row!IInv, Row!EditKept, Row!SwitchesKeepEdits

-----------------------------------------------------------------------------
(* The cascade of places of the results. *)

\* The levels are in one line.
LEMMA CascadeUnder ==
  /\ Cascade!Under("continent") = Cascade!Levels
  /\ Cascade!Under("country") = {"country", "city", "code"}
  /\ Cascade!Under("city") = {"city", "code"} /\ Cascade!Under("code") = {"code"}
  <1>1. Cascade!Under("continent") = Cascade!Levels
    BY DEF Cascade!Under
  <1>2. Cascade!Under("country") = {"country", "city", "code"}
    BY DEF Cascade!Under
  <1>3. Cascade!Under("city") = {"city", "code"}
    BY DEF Cascade!Under
  <1>4. Cascade!Under("code") = {"code"}
    BY DEF Cascade!Under
  <1>. QED  BY <1>1, <1>2, <1>3, <1>4

\* A level is under itself, and of two levels one is under the other.
LEMMA CascadeLevels ==
  /\ \A l \in Cascade!Levels : l \in Cascade!Under(l) /\ Cascade!Under(l) \subseteq Cascade!Levels
  /\ \A j, k, l \in Cascade!Levels :
        k \in Cascade!Under(j) /\ l \in Cascade!Under(k) => l \in Cascade!Under(j)
  /\ \A k, l \in Cascade!Levels : k \in Cascade!Under(l) \/ l \in Cascade!Under(k)
  /\ \A k, l \in Cascade!Levels : k \in Cascade!Under(l) /\ l \in Cascade!Under(k) => k = l
  BY CascadeUnder DEF Cascade!Levels

\* A place has a lowest level that is chosen.
LEMMA CascadeLowest ==
  ASSUME NEW g, g = [l \in Cascade!Levels |-> g[l]], g # Cascade!NoGeo
  PROVE  \E l \in Cascade!Levels :
            g[l] # Empty /\ \A k \in Cascade!Levels : g[k] # Empty => l \in Cascade!Under(k)
  <1>1. CASE g["code"] # Empty
    BY <1>1, CascadeUnder DEF Cascade!Levels
  <1>2. CASE g["code"] = Empty /\ g["city"] # Empty
    BY <1>2, CascadeUnder DEF Cascade!Levels
  <1>3. CASE g["code"] = Empty /\ g["city"] = Empty /\ g["country"] # Empty
    BY <1>3, CascadeUnder DEF Cascade!Levels
  <1>4. CASE g["code"] = Empty /\ g["city"] = Empty /\ g["country"] = Empty
    <2>1. g["continent"] # Empty
      <3>1. ASSUME g["continent"] = Empty PROVE FALSE
        <4>1. \A l \in Cascade!Levels : g[l] = Empty
          BY <1>4, <3>1 DEF Cascade!Levels
        <4>2. Cascade!NoGeo = [l \in Cascade!Levels |-> g[l]]
          BY <4>1 DEF Cascade!NoGeo
        <4>. QED  BY <4>2
      <3>. QED  BY <3>1
    <2>. QED  BY <1>4, <2>1, CascadeUnder DEF Cascade!Levels
  <1>. QED  BY <1>1, <1>2, <1>3, <1>4

\* A value of its own level at every level makes a place.
LEMMA CascadePlaces ==
  ASSUME NEW g, g = [l \in Cascade!Levels |-> g[l]],
         \A l \in Cascade!Levels : g[l] \in Cascade!Values(l) \cup {Empty}
  PROVE  g \in [Cascade!Levels -> (UNION {Cascade!Values(l) : l \in Cascade!Levels}) \cup {Empty}]
  <1>. DEFINE U == UNION {Cascade!Values(l) : l \in Cascade!Levels}
              V == U \cup {Empty}
  <1>1. \A l \in Cascade!Levels : Cascade!Values(l) \cup {Empty} \subseteq V
    <2>1. \A l \in Cascade!Levels : Cascade!Values(l) \in {Cascade!Values(k) : k \in Cascade!Levels}
      OBVIOUS
    <2>2. \A S, T, x : x \in S /\ S \in T => x \in UNION T
      OBVIOUS
    <2>3. ASSUME NEW l \in Cascade!Levels, NEW x \in Cascade!Values(l) PROVE x \in U
      BY <2>1, <2>2
    <2>. HIDE DEF U
    <2>. QED  BY <2>3
  <1>. HIDE DEF V
  <1>2. g \in [Cascade!Levels -> V]
    BY <1>1
  <1>. QED  BY <1>2 DEF V, U

\* The types hold initially.
LEMMA CascadeInit == ASSUME Cascade!ResultFiltersAssumption, Cascade!Init PROVE Cascade!TypeOK
  <1>. DEFINE geo == v9
  <1>1. geo \in [Cascade!Levels -> (UNION {Cascade!Values(l) : l \in Cascade!Levels}) \cup {Empty}]
    BY CascadePlaces DEF Cascade!Init, Cascade!NoGeo
  <1>2. 1 \in 1 .. MaxPage /\ \A l \in Cascade!Levels : geo[l] \in Cascade!Values(l) \cup {Empty}
    BY DEF Cascade!Init, Cascade!NoGeo, Cascade!ResultFiltersAssumption
  <1>. QED  BY <1>1, <1>2 DEF Cascade!Init, Cascade!TypeOK, Cascade!ResultFiltersAssumption

\* Every step keeps the types.
LEMMA CascadeStep ==
  ASSUME Cascade!ResultFiltersAssumption, Cascade!TypeOK, [Cascade!Next]_(Cascade!vars)
  PROVE  Cascade!TypeOK'
  <1>. DEFINE geo == v9
  <1>. USE DEF Cascade!TypeOK
  <1>0. 1 \in 1 .. MaxPage
    BY DEF Cascade!ResultFiltersAssumption
  <1>none. ASSUME geo' = Cascade!NoGeo
        PROVE  /\ geo' \in [Cascade!Levels ->
                              (UNION {Cascade!Values(l) : l \in Cascade!Levels}) \cup {Empty}]
               /\ \A l \in Cascade!Levels : geo'[l] \in Cascade!Values(l) \cup {Empty}
    BY <1>none, CascadePlaces DEF Cascade!NoGeo
  <1>1. ASSUME NEW s \in Searches \cup {Empty}, Cascade!Search(s) PROVE Cascade!TypeOK'
    BY <1>0, <1>1 DEF Cascade!Search
  <1>2. ASSUME NEW a \in Agents \cup {Empty}, Cascade!ChangeAgent(a) PROVE Cascade!TypeOK'
    BY <1>0, <1>none, <1>2 DEF Cascade!ChangeAgent
  <1>3. ASSUME NEW j \in Jobs \cup {Empty}, Cascade!ChangeJob(j) PROVE Cascade!TypeOK'
    BY <1>0, <1>none, <1>3 DEF Cascade!ChangeJob
  <1>4. ASSUME NEW a \in {"true", "false", "all"}, Cascade!ChangeAvailable(a) PROVE Cascade!TypeOK'
    BY <1>0, <1>none, <1>4 DEF Cascade!ChangeAvailable
  <1>5. ASSUME NEW t \in Ranges, Cascade!ChangeTimeRange(t) PROVE Cascade!TypeOK'
    BY <1>0, <1>none, <1>5 DEF Cascade!ChangeTimeRange
  <1>6. ASSUME NEW v \in {"latest", "history"}, Cascade!ChangeView(v) PROVE Cascade!TypeOK'
    BY <1>0, <1>none, <1>6 DEF Cascade!ChangeView, Cascade!DefaultState, Cascade!DefaultSorting
  <1>7. ASSUME NEW s \in {"latency_ms", "scanned_at"}, Cascade!Sort(s) PROVE Cascade!TypeOK'
    BY <1>0, <1>7 DEF Cascade!Sort
  <1>8. ASSUME NEW l \in Cascade!Levels, NEW v \in Cascade!Values(l) \cup {Empty},
               Cascade!ChooseGeo(l, v)
        PROVE  Cascade!TypeOK'
    <2>1. \A k \in Cascade!Levels : Cascade!Chosen(l, v)[k] \in Cascade!Values(k) \cup {Empty}
      BY DEF Cascade!Chosen
    <2>2. Cascade!Chosen(l, v) \in
            [Cascade!Levels -> (UNION {Cascade!Values(k) : k \in Cascade!Levels}) \cup {Empty}]
      <3>1. Cascade!Chosen(l, v) = [k \in Cascade!Levels |-> Cascade!Chosen(l, v)[k]]
        BY DEF Cascade!Chosen
      <3>. QED  BY <2>1, <3>1, CascadePlaces
    <2>. QED  BY <1>0, <1>8, <2>1, <2>2 DEF Cascade!ChooseGeo
  <1>9. ASSUME NEW p \in 1 .. MaxPage, Cascade!Paginate(p) PROVE Cascade!TypeOK'
    BY <1>9 DEF Cascade!Paginate, Cascade!filters
  <1>10. ASSUME NEW S \in SUBSET Colos, Cascade!FacetsAnswer(S) PROVE Cascade!TypeOK'
    BY <1>10 DEF Cascade!FacetsAnswer, Cascade!filters
  <1>11. ASSUME NEW S \in SUBSET Jobs, Cascade!JobsAnswer(S) PROVE Cascade!TypeOK'
    BY <1>11 DEF Cascade!JobsAnswer, Cascade!filters
  <1>12. CASE Cascade!ResetAll
    BY <1>0, <1>none, <1>12 DEF Cascade!ResetAll, Cascade!ResultFiltersAssumption
  <1>13. CASE UNCHANGED Cascade!vars
    BY <1>13 DEF Cascade!vars
  <1>. QED  BY <1>1, <1>2, <1>3, <1>4, <1>5, <1>6, <1>7, <1>8, <1>9, <1>10, <1>11, <1>12, <1>13
            DEF Cascade!Next

\* What normalizeGeoSelection keeps at a level, and when.
LEMMA CascadeKept ==
  ASSUME NEW g, NEW l \in Cascade!Levels
  PROVE  /\ Cascade!normalizeGeoSelection(g)[l] \in {Empty, g[l]}
         /\ Cascade!normalizeGeoSelection(g)[l] # Empty =>
              /\ g[l] # Empty /\ Cascade!Valid(l, g)
              /\ \A k \in Cascade!Levels :
                    l \in Cascade!Under(k) => Cascade!normalizeGeoSelection(g)[k] = g[k]
         /\ (\A k \in Cascade!Levels :
                 l \in Cascade!Under(k) /\ g[k] # Empty => Cascade!Valid(k, g))
              => Cascade!normalizeGeoSelection(g)[l] = g[l]
  <1>. DEFINE Bad(k) == \E j \in Cascade!Levels :
                           k \in Cascade!Under(j) /\ g[j] # Empty /\ ~Cascade!Valid(j, g)
  <1>1. Cascade!normalizeGeoSelection(g) = [k \in Cascade!Levels |-> IF Bad(k) THEN Empty ELSE g[k]]
    BY DEF Cascade!normalizeGeoSelection
  <1>2. \A k \in Cascade!Levels :
          Cascade!normalizeGeoSelection(g)[k] = IF Bad(k) THEN Empty ELSE g[k]
    BY <1>1
  <1>3. ~Bad(l) => /\ \A k \in Cascade!Levels : l \in Cascade!Under(k) => ~Bad(k)
                   /\ g[l] # Empty => Cascade!Valid(l, g)
    BY CascadeLevels
  <1>4. (\A k \in Cascade!Levels : l \in Cascade!Under(k) /\ g[k] # Empty => Cascade!Valid(k, g))
          => ~Bad(l)
    OBVIOUS
  <1>. HIDE DEF Bad
  <1>. QED  BY <1>2, <1>3, <1>4

\* What is shown of the cascade has results, and so has every place that it offers.
LEMMA CascadeEmptyUp == ASSUME Cascade!TypeOK PROVE Cascade!CascadeHasResults
  <1>. DEFINE geo == v9   facets == v10
  <1>. DEFINE e == Cascade!effectiveGeo
  <1>0. e = [l \in Cascade!Levels |-> e[l]] /\ geo = [l \in Cascade!Levels |-> geo[l]]
    BY DEF Cascade!effectiveGeo, Cascade!normalizeGeoSelection, Cascade!TypeOK
  <1>kept. \A l \in Cascade!Levels : e[l] = Cascade!normalizeGeoSelection(geo)[l]
    BY DEF Cascade!effectiveGeo
  <1>. HIDE DEF e
  <1>1. ASSUME e # Cascade!NoGeo PROVE \E f \in facets : Cascade!Matches(f, e, Cascade!Levels)
    <2>1. PICK l \in Cascade!Levels :
            e[l] # Empty /\ \A k \in Cascade!Levels : e[k] # Empty => l \in Cascade!Under(k)
      BY <1>0, <1>1, CascadeLowest
    <2>2. /\ Cascade!Valid(l, geo)
          /\ \A k \in Cascade!Levels : l \in Cascade!Under(k) => e[k] = geo[k]
      BY <1>kept, <2>1, CascadeKept
    <2>3. PICK f \in facets :
            Cascade!Matches(f, geo, {k \in Cascade!Levels : l \in Cascade!Under(k)})
      BY <2>2 DEF Cascade!Valid
    <2>4. \A k \in Cascade!Levels : e[k] \in {Empty, f[k]}
      BY <2>1, <2>2, <2>3 DEF Cascade!Matches
    <2>. QED  BY <2>4 DEF Cascade!Matches
  <1>2. ASSUME NEW f \in facets, Cascade!Matches(f, geo, Cascade!Levels) PROVE e = geo
    <2>1. \A k \in Cascade!Levels : Cascade!Valid(k, geo)
      BY <1>2 DEF Cascade!Valid, Cascade!Matches
    <2>2. \A l \in Cascade!Levels : e[l] = geo[l]
      BY <1>kept, <2>1, CascadeKept
    <2>. QED  BY <1>0, <2>2
  <1>3. ASSUME e = geo, NEW l \in Cascade!Levels, NEW v \in Cascade!buildGeoFacetOptions(l)
        PROVE  Cascade!normalizeGeoSelection(Cascade!Chosen(l, v))[l] = v
    <2>1. PICK f \in facets : f[l] = v /\ Cascade!Matches(f, geo, Cascade!Levels \ Cascade!Under(l))
      BY <1>3 DEF Cascade!buildGeoFacetOptions, e
    <2>. DEFINE c == Cascade!Chosen(l, v)
    <2>2. \A k \in Cascade!Levels : l \in Cascade!Under(k) => c[k] = IF k = l THEN v ELSE geo[k]
      BY CascadeLevels DEF Cascade!Chosen
    <2>3. c[l] = v
      BY DEF Cascade!Chosen
    <2>. HIDE DEF c
    <2>4. \A k \in Cascade!Levels : l \in Cascade!Under(k) => c[k] \in {Empty, f[k]}
      BY <2>1, <2>2, CascadeLevels DEF Cascade!Matches
    <2>5. \A k \in Cascade!Levels : l \in Cascade!Under(k) => Cascade!Valid(k, c)
      BY <2>4, CascadeLevels DEF Cascade!Valid, Cascade!Matches
    <2>6. Cascade!normalizeGeoSelection(c)[l] = c[l]
      BY <2>5, CascadeKept
    <2>. QED  BY <2>3, <2>6 DEF c
  <1>. QED  BY <1>1, <1>2, <1>3 DEF Cascade!CascadeHasResults, e

-----------------------------------------------------------------------------
(* The lists the server cuts into pages. *)

\* How many pages there are, and which row a page begins with.
LEMMA ListPageNumbers ==
  ASSUME NEW n \in Nat, NEW size \in Nat \ {0}
  PROVE  /\ List!TotalPages(n, size) \in Nat /\ List!TotalPages(n, size) <= n
         /\ n > 0 => List!TotalPages(n, size) > 0
         /\ \A p \in Nat : p < List!TotalPages(n, size) => p * size < n
  <1>1. List!TotalPages(n, size) \in Nat
    BY DEF List!TotalPages
  <1>2. List!TotalPages(n, size) <= n
    <2>1. (n + size - 1) \div size <= n
      <3>1. n + size - 1 < (n + 1) * size
        OBVIOUS
      <3>. QED  BY <3>1
    <2>. QED  BY <2>1 DEF List!TotalPages
  <1>3. n > 0 => List!TotalPages(n, size) > 0
    BY DEF List!TotalPages
  <1>4. ASSUME NEW p \in Nat, p < List!TotalPages(n, size) PROVE p * size < n
    BY <1>4 DEF List!TotalPages
  <1>. QED  BY <1>1, <1>2, <1>3, <1>4

\* The page of another size that shows a row.
LEMMA ListFirstRow ==
  ASSUME NEW first \in Nat, NEW n \in Nat \ {0}
  PROVE  /\ first \div n \in Nat
         /\ (first \div n) * n <= first /\ first < (first \div n + 1) * n
  OBVIOUS

\* Earlier pages begin earlier.
LEMMA ListMonotone ==
  ASSUME NEW a \in Nat, NEW b \in Nat, NEW n \in Nat, a <= b
  PROVE  a * n <= b * n
  OBVIOUS

\* No page number exceeds the row it begins with.
LEMMA ListBounded ==
  ASSUME NEW a \in Nat, NEW n \in Nat \ {0}, NEW m \in Nat, a * n <= m
  PROVE  a <= m
  OBVIOUS

\* The page the server answers with.
LEMMA ListNormalized ==
  ASSUME List!TypeOK, List!ServerPagesAssumption, NEW n \in 0 .. MaxTotal,
         NEW p \in List!Pages, NEW size \in ListSizes
  PROVE  /\ List!normalizeLeaguePage(n, p, size) \in List!Pages
         /\ ~v1.clamps => List!normalizeLeaguePage(n, p, size) = p
         /\ v1.clamps /\ n > 0 => List!normalizeLeaguePage(n, p, size) <= List!TotalPages(n, size)
  <1>1. n \in Nat /\ size \in Nat \ {0} /\ MaxTotal \in Nat
    BY DEF List!ServerPagesAssumption
  <1>2. /\ List!TotalPages(n, size) \in Nat /\ List!TotalPages(n, size) <= n
        /\ n > 0 => List!TotalPages(n, size) > 0
    BY <1>1, ListPageNumbers
  <1>. QED  BY <1>1, <1>2 DEF List!normalizeLeaguePage, List!Pages, List!Smaller

\* An answer is one of the question and of the list.
LEMMA ListReply ==
  ASSUME List!TypeOK, List!ServerPagesAssumption, NEW question \in List!Question,
         NEW n \in 0 .. MaxTotal
  PROVE  /\ List!Reply(question, n) \in
               [for : List!Question, page : List!Pages, total : 0 .. MaxTotal]
         /\ List!Reply(question, n).for = question /\ List!Reply(question, n).total = n
  <1>1. List!normalizeLeaguePage(n, question.page, question.size) \in List!Pages
    BY ListNormalized DEF List!Question
  <1>. QED  BY <1>1 DEF List!Reply

\* The invariant holds initially.
LEMMA ListInit == ASSUME List!ServerPagesAssumption, List!Init PROVE List!IInv
  <1>. DEFINE total == v2   asked == v3   data == v4
  <1>. USE DEF List!ServerPagesAssumption
  <1>1. /\ asked \in List!Question /\ asked.page = 1 /\ asked.size = InitialSize
        /\ asked.filter \in Filters
    BY DEF List!Init, List!Question, List!Pages
  <1>2. total[asked.filter] \in 0 .. MaxTotal
    BY <1>1 DEF List!Init
  <1>3. data = List!Reply(asked, total[asked.filter])
    BY <1>1 DEF List!Init, List!Reply
  <1>4. List!normalizeLeaguePage(total[asked.filter], 1, InitialSize) = 1
    <2>. DEFINE n == total[asked.filter]
    <2>1. n \in Nat /\ InitialSize \in Nat \ {0}
      BY <1>2
    <2>. HIDE DEF n
    <2>2. List!TotalPages(n, InitialSize) \in Nat /\ (n > 0 => List!TotalPages(n, InitialSize) > 0)
      BY <2>1, ListPageNumbers
    <2>. QED  BY <2>1, <2>2 DEF List!normalizeLeaguePage, List!Smaller, n
  <1>5. data = [for |-> asked, page |-> 1, total |-> total[asked.filter]]
    BY <1>4 DEF List!Init
  <1>6. List!TypeOK
    BY <1>1, <1>2, <1>5 DEF List!Init, List!TypeOK, List!Pages
  <1>7. List!AnswersQuestion
    <2>1. data.for = asked /\ data.total = total[asked.filter]
      BY <1>5
    <2>. QED  BY <1>3, <2>1 DEF List!AnswersQuestion
  <1>8. List!WithinTotal(asked) /\ List!WithinTotal(data.for)
    BY <1>1, <1>5 DEF List!WithinTotal
  <1>. QED  BY <1>6, <1>7, <1>8 DEF List!IInv

\* A question that may be asked keeps the invariant, whatever is shown until the answer.
LEMMA ListAsked ==
  ASSUME List!ServerPagesAssumption, List!IInv, NEW question \in List!Question, List!Ask(question),
         v1.keeps => List!WithinTotal(question)
  PROVE  List!IInv'
  <1>. DEFINE list == v1   total == v2   asked == v3   data == v4   changes == v5
  <1>. USE DEF List!IInv
  <1>1. asked' = question /\ UNCHANGED <<list, total, changes>>
    BY DEF List!Ask
  <1>2. CASE data' = data
    <2>1. List!TypeOK'
      BY <1>1, <1>2 DEF List!TypeOK
    <2>2. List!AnswersQuestion'
      BY <1>1, <1>2 DEF List!AnswersQuestion, List!Reply, List!normalizeLeaguePage
    <2>. QED  BY <1>1, <1>2, <2>1, <2>2 DEF List!WithinTotal
  <1>3. ASSUME NEW n \in 0 .. MaxTotal, data' = List!Reply(question, n) PROVE List!IInv'
    <2>1. data'.for = question /\ data'.total = n
      BY <1>3, ListReply
    <2>2. List!TypeOK'
      BY <1>1, <1>3, ListReply DEF List!TypeOK
    <2>3. List!AnswersQuestion'
      BY <1>1, <1>3, <2>1 DEF List!AnswersQuestion, List!Reply, List!normalizeLeaguePage
    <2>. QED  BY <1>1, <2>1, <2>2, <2>3 DEF List!WithinTotal
  <1>. QED  BY <1>2, <1>3 DEF List!Ask

\* What is shown: a page that may be asked for, and one of the list in the league.
LEMMA ListShown ==
  ASSUME List!ServerPagesAssumption, List!IInv
  PROVE  /\ v4.for \in List!Question /\ v4.page \in List!Pages /\ v4.total \in 0 .. MaxTotal
         /\ v4.for.size \in ListSizes /\ v4.for.size \in Nat \ {0}
         /\ v1.keeps => ~v1.clamps /\ v4.page = v4.for.page
         /\ ~v1.keeps => v1.clamps
         /\ v1.clamps /\ v4.total > 0 => v4.page <= List!Last
         /\ List!Last \in Nat /\ List!Last <= v4.total
  <1>. DEFINE list == v1   data == v4
  <1>1. /\ data.for \in List!Question /\ data.page \in List!Pages /\ data.total \in 0 .. MaxTotal
        /\ data.for.size \in ListSizes /\ data.for.size \in Nat \ {0}
        /\ data.for.page \in List!Pages
    BY DEF List!IInv, List!TypeOK, List!Question, List!ServerPagesAssumption
  <1>2. data.page = List!normalizeLeaguePage(data.total, data.for.page, data.for.size)
    BY DEF List!IInv, List!AnswersQuestion, List!Reply
  <1>3. list.keeps <=> ~list.clamps
    BY DEF List!IInv, List!TypeOK, List!Lists, List!ResultsTable, List!LeaguePage
  <1>4. List!Last \in Nat /\ List!Last <= data.total
    <2>1. data.total \in Nat
      BY <1>1 DEF List!ServerPagesAssumption
    <2>. QED  BY <1>1, <2>1, ListPageNumbers DEF List!Last
  <1>. QED  BY <1>1, <1>2, <1>3, <1>4, ListNormalized DEF List!IInv, List!Last

\* The page after a click, and the page of another size.
LEMMA ListPrevious ==
  ASSUME List!ServerPagesAssumption, List!IInv, List!PreviousPage
  PROVE  /\ v3' \in List!Question /\ List!Ask(v3')
         /\ v1.keeps => List!WithinTotal(v3)'
         /\ v4.total > 0 => v3'.page <= List!Last
  <1>. DEFINE list == v1   asked == v3   data == v4
  <1>. DEFINE p == IF list.keeps THEN List!Larger(1, List!Smaller(data.page - 1, List!Last))
                                 ELSE data.page - 1
              s == IF list.keeps THEN data.for.size ELSE asked.size
  <1>1. asked' = [asked EXCEPT !.page = p, !.size = s] /\ List!Ask(asked') /\ data.page > 1
    BY DEF List!PreviousPage, List!Ask
  <1>2. asked \in List!Question /\ MaxTotal \in Nat
    BY DEF List!IInv, List!TypeOK, List!ServerPagesAssumption
  <1>3. p \in List!Pages /\ p <= data.page - 1 /\ (data.total > 0 => p <= List!Last)
    <2>1. data.total > 0 => List!Last > 0
      BY ListShown, ListPageNumbers DEF List!Last
    <2>. QED  BY <1>1, <1>2, <2>1, ListShown DEF List!Larger, List!Smaller, List!Pages
  <1>4. s \in ListSizes
    BY <1>2, ListShown DEF List!Question
  <1>. HIDE DEF p, s
  <1>5. asked' \in List!Question /\ asked'.page = p /\ asked'.size = s
    BY <1>1, <1>2, <1>3, <1>4 DEF List!Question
  <1>6. ASSUME list.keeps PROVE List!WithinTotal(asked)'
    <2>1. s = data.for.size /\ data.page = data.for.page /\ s \in Nat
      BY <1>6, ListShown DEF s
    <2>2. (data.page - 1) * s <= MaxTotal
      BY <1>6, <2>1 DEF List!IInv, List!WithinTotal
    <2>3. p - 1 \in Nat /\ data.page - 1 \in Nat /\ p - 1 <= data.page - 1
      BY <1>3, ListShown DEF List!Pages
    <2>4. (p - 1) * s <= (data.page - 1) * s
      BY <2>1, <2>3, ListMonotone
    <2>5. (p - 1) * s \in Int /\ (data.page - 1) * s \in Int
      BY <2>1, <2>3
    <2>6. (p - 1) * s <= MaxTotal
      BY <1>2, <2>2, <2>4, <2>5
    <2>. QED  BY <1>5, <2>6 DEF List!WithinTotal
  <1>. QED  BY <1>1, <1>3, <1>5, <1>6

\* The next page is within the list.
LEMMA ListNext ==
  ASSUME List!ServerPagesAssumption, List!IInv, List!NextPage
  PROVE  v3' \in List!Question /\ List!Ask(v3') /\ (v1.keeps => List!WithinTotal(v3)')
  <1>. DEFINE list == v1   asked == v3   data == v4
  <1>. DEFINE s == IF list.keeps THEN data.for.size ELSE asked.size
  <1>1. /\ asked' = [asked EXCEPT !.page = data.page + 1, !.size = s] /\ List!Ask(asked')
        /\ data.page < List!Last
    BY DEF List!NextPage, List!Ask
  <1>2. asked \in List!Question /\ MaxTotal \in Nat
    BY DEF List!IInv, List!TypeOK, List!ServerPagesAssumption
  <1>3. data.page + 1 \in List!Pages /\ data.page \in Nat
    BY <1>1, <1>2, ListShown DEF List!Pages
  <1>4. s \in ListSizes
    BY <1>2, ListShown DEF List!Question
  <1>5. data.page * data.for.size < data.total
    BY <1>1, <1>3, ListShown, ListPageNumbers DEF List!Last
  <1>. HIDE DEF s
  <1>6. asked' \in List!Question /\ asked'.page = data.page + 1 /\ asked'.size = s
    BY <1>1, <1>2, <1>3, <1>4 DEF List!Question
  <1>7. ASSUME list.keeps PROVE List!WithinTotal(asked)'
    <2>1. s = data.for.size
      BY <1>7 DEF s
    <2>2. (asked'.page - 1) * asked'.size = data.page * data.for.size
      BY <1>3, <1>6, <2>1
    <2>3. data.page * data.for.size <= MaxTotal
      BY <1>2, <1>3, <1>5, ListShown
    <2>. QED  BY <2>2, <2>3 DEF List!WithinTotal
  <1>. QED  BY <1>1, <1>6, <1>7

\* The page of another size shows the first row of the page before.
LEMMA ListSize ==
  ASSUME List!ServerPagesAssumption, List!IInv, NEW n \in ListSizes, List!SetPageSize(n)
  PROVE  /\ v3' \in List!Question /\ List!Ask(v3')
         /\ v1.keeps => List!WithinTotal(v3)'
         /\ v1.keeps => /\ (v3'.page - 1) * n <= (v4.page - 1) * v4.for.size
                        /\ (v4.page - 1) * v4.for.size < v3'.page * n
  <1>. DEFINE list == v1   asked == v3   data == v4
  <1>1. asked' = [asked EXCEPT !.page = List!PageAtSize(n), !.size = n] /\ List!Ask(asked')
    BY DEF List!SetPageSize, List!Ask
  <1>2. asked \in List!Question /\ MaxTotal \in Nat /\ n \in Nat \ {0}
    BY DEF List!IInv, List!TypeOK, List!ServerPagesAssumption
  <1>3. CASE ~list.keeps
    <2>1. List!PageAtSize(n) \in List!Pages
      BY <1>2, <1>3 DEF List!PageAtSize, List!Pages
    <2>. QED  BY <1>1, <1>2, <1>3, <2>1 DEF List!Question
  <1>4. CASE list.keeps
    <2>. DEFINE first == (data.page - 1) * data.for.size
                p == first \div n
    <2>1. first \in Nat /\ first <= MaxTotal
      <3>1. data.page - 1 \in Nat /\ data.for.size \in Nat /\ data.page = data.for.page
        BY <1>4, ListShown DEF List!Pages
      <3>2. first \in Nat
        BY <3>1
      <3>. QED  BY <1>4, <3>1, <3>2 DEF List!IInv, List!WithinTotal
    <2>2. List!PageAtSize(n) = p + 1
      BY <1>4 DEF List!PageAtSize
    <2>. HIDE DEF first
    <2>3. p \in Nat /\ p * n <= first /\ first < (p + 1) * n
      BY <1>2, <2>1, ListFirstRow
    <2>. HIDE DEF p
    <2>4. p * n <= MaxTotal
      BY <1>2, <2>1, <2>3
    <2>5. p <= MaxTotal
      BY <1>2, <2>3, <2>4, ListBounded
    <2>6. p + 1 \in List!Pages
      BY <1>2, <2>3, <2>5 DEF List!Pages
    <2>7. asked' \in List!Question /\ asked'.page = p + 1 /\ asked'.size = n
      BY <1>1, <1>2, <2>2, <2>6 DEF List!Question
    <2>8. asked'.page - 1 = p
      BY <2>3, <2>7
    <2>. QED  BY <1>1, <2>3, <2>4, <2>7, <2>8 DEF List!WithinTotal, first
  <1>. QED  BY <1>3, <1>4

\* Every step keeps the invariant.
LEMMA ListStep ==
  ASSUME List!ServerPagesAssumption, List!IInv, [List!Next]_(List!vars)
  PROVE  List!IInv'
  <1>. DEFINE list == v1   total == v2   asked == v3   data == v4   changes == v5
  <1>1. ASSUME NEW f \in Filters, List!ChangeFilter(f) PROVE List!IInv'
    <2>0. 1 \in List!Pages /\ asked \in List!Question
      BY DEF List!IInv, List!TypeOK, List!Pages, List!ServerPagesAssumption
    <2>1. [asked EXCEPT !.filter = f, !.page = 1] \in List!Question
      BY <2>0 DEF List!Question
    <2>2. [asked EXCEPT !.filter = f, !.page = 1].page = 1
          /\ [asked EXCEPT !.filter = f, !.page = 1].size \in Nat
      BY DEF List!IInv, List!TypeOK, List!Question, List!ServerPagesAssumption
    <2>3. List!WithinTotal([asked EXCEPT !.filter = f, !.page = 1])
      BY <2>2 DEF List!WithinTotal, List!ServerPagesAssumption
    <2>. QED  BY <1>1, <2>1, <2>3, ListAsked DEF List!ChangeFilter
  <1>ask. ASSUME asked' \in List!Question, List!Ask(asked'), list.keeps => List!WithinTotal(asked)'
        PROVE  List!IInv'
    <2>. DEFINE question == asked'
    <2>1. /\ question \in List!Question /\ List!Ask(question)
          /\ list.keeps => List!WithinTotal(question)
      BY <1>ask DEF List!WithinTotal
    <2>. HIDE DEF question
    <2>. QED  BY <2>1, ListAsked
  <1>2. ASSUME NEW n \in ListSizes, List!SetPageSize(n) PROVE List!IInv'
    BY <1>2, <1>ask, ListSize
  <1>3. CASE List!PreviousPage
    BY <1>3, <1>ask, ListPrevious
  <1>4. CASE List!NextPage
    BY <1>4, <1>ask, ListNext
  <1>5. CASE List!Answer
    <2>1. /\ data' = List!Reply(asked, total[asked.filter])
          /\ UNCHANGED <<list, total, asked, changes>>
      BY <1>5 DEF List!Answer
    <2>2. asked \in List!Question /\ total[asked.filter] \in 0 .. MaxTotal
      BY DEF List!IInv, List!TypeOK, List!Question
    <2>3. List!TypeOK' /\ data'.for = asked /\ data'.total = total[asked.filter]
      BY <2>1, <2>2, ListReply DEF List!IInv, List!TypeOK
    <2>4. List!AnswersQuestion'
      BY <2>1, <2>3 DEF List!AnswersQuestion, List!Reply, List!normalizeLeaguePage
    <2>. QED  BY <2>1, <2>3, <2>4 DEF List!IInv, List!WithinTotal
  <1>6. CASE List!Change
    <2>1. changes' \in 0 .. MaxListChanges /\ total' \in [Filters -> 0 .. MaxTotal]
      BY <1>6 DEF List!Change, List!IInv, List!TypeOK, List!ServerPagesAssumption
    <2>. QED  BY <1>6, <2>1 DEF List!Change, List!IInv, List!TypeOK, List!AnswersQuestion,
                 List!Reply, List!normalizeLeaguePage, List!WithinTotal
  <1>7. CASE UNCHANGED List!vars
    BY <1>7 DEF List!vars, List!IInv, List!TypeOK, List!AnswersQuestion, List!Reply,
       List!normalizeLeaguePage, List!WithinTotal
  <1>. QED  BY <1>1, <1>2, <1>3, <1>4, <1>5, <1>6, <1>7 DEF List!Next

\* A page of the league is not empty while the league has rows.
LEMMA ListHasRows == ASSUME List!ServerPagesAssumption, List!IInv PROVE List!LeaguePageHasRows
  <1>. DEFINE list == v1   data == v4
  <1> SUFFICES ASSUME list.clamps, data.total > 0 PROVE List!Rows(data) > 0
    BY DEF List!LeaguePageHasRows
  <1>. DEFINE before == (data.page - 1) * data.for.size
  <1>1. /\ data.page - 1 \in Nat /\ data.page - 1 < List!Last /\ data.for.size \in Nat \ {0}
        /\ data.total \in Nat
    BY ListShown DEF List!Pages, List!ServerPagesAssumption
  <1>2. before < data.total
    BY <1>1, ListPageNumbers DEF List!Last
  <1>3. before \in Int
    BY <1>1
  <1>. HIDE DEF before
  <1>4. List!Rows(data) = List!Larger(0, List!Smaller(data.for.size, data.total - before))
    BY DEF List!Rows, before
  <1>. QED  BY <1>1, <1>2, <1>3, <1>4 DEF List!Larger, List!Smaller

\* Another size and a click back lead to rows the reader saw or that exist.
LEMMA ListKeeps == ASSUME List!ServerPagesAssumption, List!IInv PROVE List!KeepsPlace
  BY ListSize, ListPrevious DEF List!KeepsPlace

-----------------------------------------------------------------------------
(* The queries and the mutations of a tab. *)

\* What no timer repeats is invalidated by every mutation that changes it.
LEMMA QueriesUnpolled ==
  ASSUME NEW m \in Queries!Mutations
  PROVE  Queries!Writes(m) \cap Queries!Unpolled \subseteq Queries!Invalidates(m)
  <1>1. {"overview", "runs", "recheck"} \cap Queries!Unpolled = {}
    <2>1. /\ "automation" \in Queries!Pages
          /\ Queries!Polled("automation") = {"schedules", "recheck", "syncs", "runs", "overview"}
      BY DEF Queries!Pages, Queries!Polled, Queries!Page, Queries!AutomationOverview,
         Queries!PageWith
    <2>. QED  BY <2>1 DEF Queries!Unpolled
  <1>2. Queries!Writes(m) \subseteq Queries!Invalidates(m) \cup {"overview", "runs", "recheck"}
    <2>1. \A pages, invalidated, further :
             /\ Queries!Mutation(pages, invalidated, further).invalidates = invalidated
             /\ Queries!Mutation(pages, invalidated, further).writes = invalidated \cup further
      BY DEF Queries!Mutation
    <2>2. ASSUME NEW e, NEW pages, NEW invalidated, NEW further,
                 e = Queries!Mutation(pages, invalidated, further),
                 further \subseteq {"overview", "runs", "recheck"}
          PROVE  e.writes \subseteq e.invalidates \cup {"overview", "runs", "recheck"}
      <3>1. e.invalidates = invalidated /\ e.writes = invalidated \cup further
        BY <2>1, <2>2
      <3>. QED  BY <2>2, <3>1
    <2>3. /\ {} \subseteq {"overview", "runs", "recheck"}
          /\ {"overview", "runs"} \subseteq {"overview", "runs", "recheck"}
          /\ {"overview"} \subseteq {"overview", "runs", "recheck"}
          /\ {"recheck", "runs"} \subseteq {"overview", "runs", "recheck"}
      OBVIOUS
    <2>4. \A e \in
            {Queries!changeJob, Queries!changeSchedule, Queries!runSchedule, Queries!updateRecheck,
             Queries!runRecheck, Queries!recheckBlacklist, Queries!updateSync, Queries!runSync,
             Queries!changeSource, Queries!changeUser, Queries!approve, Queries!reject,
             Queries!preauthorize} :
               e.writes \subseteq e.invalidates \cup {"overview", "runs", "recheck"}
      BY <2>2, <2>3 DEF Queries!changeJob, Queries!changeSchedule, Queries!runSchedule,
         Queries!updateRecheck, Queries!runRecheck, Queries!recheckBlacklist, Queries!updateSync,
         Queries!runSync, Queries!changeSource, Queries!changeUser, Queries!approve, Queries!reject,
         Queries!preauthorize
    <2>5. Queries!Effect[m] \in
            {Queries!changeJob, Queries!changeSchedule, Queries!runSchedule, Queries!updateRecheck,
             Queries!runRecheck, Queries!recheckBlacklist, Queries!updateSync, Queries!runSync,
             Queries!changeSource, Queries!changeUser, Queries!approve, Queries!reject,
             Queries!preauthorize}
      BY DEF Queries!Mutations, Queries!Effect
    <2>. QED  BY <2>4, <2>5 DEF Queries!Writes, Queries!Invalidates
  <1>. QED  BY <1>1, <1>2

\* A query as it is begun, asked again or invalidated is a query.
LEMMA QueriesRecords ==
  ASSUME Queries!ConsoleQueriesAssumption
  PROVE  /\ Queries!NotRead \in Queries!Query
         /\ \A r \in Queries!Query :
               /\ Queries!Started(r) \in Queries!Query /\ Queries!Started(r).fetch = "asked"
               /\ [r EXCEPT !.invalid = TRUE] \in Queries!Query
               /\ Queries!Started([r EXCEPT !.answer = 0, !.invalid = TRUE]) \in Queries!Query
  <1>1. 0 \in 0 .. MaxWrites /\ -1 \in -1 .. MaxWrites
    BY DEF Queries!ConsoleQueriesAssumption
  <1>2. Queries!NotRead \in Queries!Query
    BY <1>1 DEF Queries!NotRead, Queries!Query, Queries!None
  <1>3. ASSUME NEW r \in Queries!Query
        PROVE  Queries!Started(r) \in Queries!Query /\ Queries!Started(r).fetch = "asked"
    BY DEF Queries!Query, Queries!Started
  <1>4. ASSUME NEW r \in Queries!Query PROVE [r EXCEPT !.invalid = TRUE] \in Queries!Query
    BY DEF Queries!Query
  <1>5. ASSUME NEW r \in Queries!Query
        PROVE  [r EXCEPT !.answer = 0, !.invalid = TRUE] \in Queries!Query
    BY <1>1 DEF Queries!Query
  <1>. QED  BY <1>2, <1>3, <1>4, <1>5

\* The pages that are visited are pages of the console.
LEMMA QueriesVisited == Queries!Visited \subseteq Queries!Pages
  <1>. DEFINE watched == v1
  <1>. DEFINE near == {p \in Queries!Pages : \/ Queries!Reads(p) \cap watched # {}
                                            \/ \E m \in Queries!Used : p \in Queries!From(m)}
  <1>1. near # Queries!Pages => (CHOOSE p \in Queries!Pages \ near : TRUE) \in Queries!Pages
    OBVIOUS
  <1>2. Queries!Visited =
          near \cup (IF near = Queries!Pages THEN {}
                      ELSE {CHOOSE p \in Queries!Pages \ near : TRUE})
    BY DEF Queries!Visited
  <1>3. near \subseteq Queries!Pages
    OBVIOUS
  <1>. HIDE DEF near
  <1>. QED  BY <1>1, <1>2, <1>3

\* The invariant holds initially.
LEMMA QueriesInit == ASSUME Queries!ConsoleQueriesAssumption, Queries!Init PROVE Queries!IInv
  <1>. DEFINE watched == v1   page == v2   srv == v3   q == v4   own == v7   faults == v9
  <1>1. q \in [watched -> Queries!Query]
    BY QueriesRecords DEF Queries!Init
  <1>2. /\ srv \in [watched -> 0 .. MaxWrites] /\ own \in [watched -> 0 .. MaxWrites]
        /\ faults \in 0 .. MaxFaults
    BY DEF Queries!Init, Queries!ConsoleQueriesAssumption
  <1>3. Queries!TypeOK
    BY <1>1, <1>2, QueriesVisited DEF Queries!Init, Queries!TypeOK
  <1>4. Queries!OwnIsServed
    BY DEF Queries!Init, Queries!OwnIsServed
  <1>5. ASSUME NEW k \in watched PROVE Queries!SettledIsNew(k)
    <2>1. q[k] = IF k \in Queries!Reads(page) THEN Queries!Started(Queries!NotRead)
                                              ELSE Queries!NotRead
      BY DEF Queries!Init
    <2>2. q[k].status = "pending" /\ q[k].fetch # "answered"
      BY <2>1 DEF Queries!Started, Queries!NotRead
    <2>. QED  BY <2>2 DEF Queries!SettledIsNew
  <1>. QED  BY <1>3, <1>4, <1>5 DEF Queries!IInv

\* A step of one query, which changes nothing else that the invariant is about.
LEMMA QueriesOne ==
  ASSUME Queries!IInv, NEW k \in v1, NEW r \in Queries!Query, v4' = [v4 EXCEPT ![k] = r],
         UNCHANGED <<v1, v2, v3, v5, v7>>,
         v6' \in [Queries!Used -> SUBSET v1], v9' \in 0 .. MaxFaults, v8' \in SUBSET v1,
         v8 \ {k} \subseteq v8',
         k \notin v8' => Queries!SettledIsNew(k)'
  PROVE  Queries!IInv'
  <1>. DEFINE watched == v1   q == v4   overtaken == v8
  <1>. USE DEF Queries!IInv, Queries!TypeOK
  <1>1. q' \in [watched -> Queries!Query] /\ Queries!Used' = Queries!Used
    BY DEF Queries!Used
  <1>2. Queries!TypeOK'
    BY <1>1
  <1>3. Queries!OwnIsServed'
    BY DEF Queries!OwnIsServed
  <1>4. \A j \in watched : j # k => q'[j] = q[j] /\ Queries!Mounted(j)' = Queries!Mounted(j)
    BY DEF Queries!Mounted
  <1>5. \A j \in watched' \ overtaken' : Queries!SettledIsNew(j)'
    BY <1>4 DEF Queries!SettledIsNew
  <1>. QED  BY <1>2, <1>3, <1>5

\* A step that neither touches the queries nor what mutations made of them.
LEMMA QueriesStill ==
  ASSUME Queries!IInv, UNCHANGED <<v1, v2, v4, v7, v8>>, Queries!TypeOK',
         \A k \in v1 : v3[k] <= v3'[k]
  PROVE  Queries!IInv'
  <1>. DEFINE watched == v1   srv == v3   own == v7   overtaken == v8
  <1>. USE DEF Queries!IInv
  <1>1. Queries!OwnIsServed'
    <2> SUFFICES ASSUME NEW k \in watched PROVE own[k] <= srv'[k]
      BY DEF Queries!OwnIsServed
    <2>1. own[k] \in Int /\ srv[k] \in Int /\ srv'[k] \in Int
      BY DEF Queries!TypeOK
    <2>. QED  BY <2>1 DEF Queries!OwnIsServed
  <1>2. \A k \in watched' \ overtaken' : Queries!SettledIsNew(k)'
    BY DEF Queries!SettledIsNew, Queries!Mounted
  <1>. QED  BY <1>1, <1>2

\* Every step keeps the invariant.
LEMMA QueriesStep ==
  ASSUME Queries!ConsoleQueriesAssumption, Queries!IInv, [Queries!Next]_(Queries!vars)
  PROVE  Queries!IInv'
  <1>. DEFINE watched == v1   page == v2   srv == v3   q == v4   phase == v5   waits == v6
              own == v7   overtaken == v8   faults == v9
  <1>same. watched' = watched /\ Queries!Used' = Queries!Used
    <2>1. watched' = watched
      BY DEF Queries!Next, Queries!vars, Queries!Change, Queries!ServeFetch, Queries!FailFetch,
         Queries!TakeAnswer, Queries!TakeFailure, Queries!Repeat, Queries!Visit, Queries!Submit,
         Queries!Apply, Queries!Reject, Queries!onError, Queries!onSuccess, Queries!Finish
    <2>. QED  BY <2>1 DEF Queries!Used
  <1>types. Queries!TypeOK
    BY DEF Queries!IInv
  <1>1. ASSUME NEW k \in watched, Queries!Change(k) PROVE Queries!IInv'
    <2>1. srv' \in [watched -> 0 .. MaxWrites] /\ \A j \in watched : srv[j] <= srv'[j]
      BY <1>types, <1>1 DEF Queries!Change, Queries!TypeOK, Queries!ConsoleQueriesAssumption
    <2>2. Queries!TypeOK'
      BY <1>same, <1>types, <1>1, <2>1 DEF Queries!Change, Queries!TypeOK
    <2>. QED  BY <1>1, <2>1, <2>2, QueriesStill DEF Queries!Change
  <1>2. ASSUME NEW k \in watched, Queries!ServeFetch(k) PROVE Queries!IInv'
    <2>. DEFINE r == [q[k] EXCEPT !.fetch = "answered", !.answer = srv[k]]
    <2>1. /\ r \in Queries!Query /\ q' = [q EXCEPT ![k] = r] /\ r.fetch = "answered"
          /\ r.answer = srv[k]
      BY <1>types, <1>2 DEF Queries!ServeFetch, Queries!TypeOK, Queries!Query
    <2>2. q'[k] = r /\ srv[k] >= own[k]
      BY <1>types, <2>1 DEF Queries!IInv, Queries!TypeOK, Queries!OwnIsServed
    <2>. HIDE DEF r
    <2>3. Queries!SettledIsNew(k)'
      BY <1>2, <2>1, <2>2 DEF Queries!ServeFetch, Queries!SettledIsNew
    <2>. QED  BY <1>types, <1>2, <2>1, <2>3, QueriesOne DEF Queries!ServeFetch, Queries!TypeOK
  <1>3. ASSUME NEW k \in watched, Queries!FailFetch(k) PROVE Queries!IInv'
    <2>. DEFINE r == [q[k] EXCEPT !.fetch = "failed", !.answer = 0]
    <2>0. q[k] \in Queries!Query /\ 0 \in 0 .. MaxWrites
      BY <1>types DEF Queries!TypeOK, Queries!ConsoleQueriesAssumption
    <2>typed. r \in Queries!Query /\ r.fetch = "failed"
      BY <2>0 DEF Queries!Query
    <2>set. q' = [q EXCEPT ![k] = r]
      BY <1>types, <1>3 DEF Queries!FailFetch, Queries!TypeOK
    <2>1. r \in Queries!Query /\ q' = [q EXCEPT ![k] = r] /\ r.fetch = "failed"
      BY <2>typed, <2>set
    <2>2. q'[k] = r
      BY <1>types, <2>1 DEF Queries!TypeOK
    <2>3. faults' \in 0 .. MaxFaults
      BY <1>types, <1>3 DEF Queries!FailFetch, Queries!TypeOK, Queries!ConsoleQueriesAssumption
    <2>. HIDE DEF r
    <2>4. Queries!SettledIsNew(k)'
      BY <2>1, <2>2 DEF Queries!SettledIsNew
    <2>. QED  BY <1>types, <1>3, <2>1, <2>3, <2>4, QueriesOne DEF Queries!FailFetch, Queries!TypeOK
  <1>waits. ASSUME NEW k \in watched, Queries!Awaited(k)
            PROVE  waits' \in [Queries!Used -> SUBSET watched]
    BY <1>types, <1>waits DEF Queries!Awaited, Queries!TypeOK
  <1>4. ASSUME NEW k \in watched, Queries!TakeAnswer(k) PROVE Queries!IInv'
    <2>. DEFINE r == [Queries!NotRead EXCEPT !.data = q[k].answer, !.status = "success"]
    <2>0. q[k].answer \in -1 .. MaxWrites /\ 0 \in 0 .. MaxWrites
      BY <1>types DEF Queries!TypeOK, Queries!Query, Queries!ConsoleQueriesAssumption
    <2>typed. r \in Queries!Query /\ r.fetch = "idle" /\ ~r.invalid /\ r.data = q[k].answer
      BY <2>0 DEF Queries!Query, Queries!NotRead, Queries!None
    <2>set. q' = [q EXCEPT ![k] = r]
      BY <1>4 DEF Queries!TakeAnswer
    <2>1. /\ r \in Queries!Query /\ q' = [q EXCEPT ![k] = r] /\ r.fetch = "idle" /\ ~r.invalid
          /\ r.data = q[k].answer
      BY <2>typed, <2>set
    <2>2. q'[k] = r
      BY <1>types, <2>1 DEF Queries!TypeOK
    <2>. HIDE DEF r
    <2>3. k \notin overtaken => Queries!SettledIsNew(k)'
      BY <1>4, <2>1, <2>2 DEF Queries!TakeAnswer, Queries!SettledIsNew, Queries!IInv
    <2>. QED  BY <1>types, <1>waits, <1>4, <2>1, <2>3, QueriesOne DEF Queries!TakeAnswer,
                 Queries!TypeOK
  <1>5. ASSUME NEW k \in watched, Queries!TakeFailure(k) PROVE Queries!IInv'
    <2>1. ASSUME NEW r \in Queries!Query, q' = [q EXCEPT ![k] = r],
                 r.fetch = "asked" \/ r.status = "error", r.fetch # "answered",
                 waits' \in [Queries!Used -> SUBSET watched]
          PROVE  Queries!IInv'
      <3>1. q'[k] = r
        BY <1>types, <2>1 DEF Queries!TypeOK
      <3>2. Queries!SettledIsNew(k)'
        BY <2>1, <3>1 DEF Queries!SettledIsNew
      <3>. QED  BY <1>types, <1>5, <2>1, <3>2, QueriesOne DEF Queries!TakeFailure, Queries!TypeOK
    <2>2. CASE ~q[k].tried /\ Queries!Mounted(k)
      <3>. DEFINE r == [q[k] EXCEPT !.fetch = "asked", !.tried = TRUE]
      <3>1. r \in Queries!Query /\ q' = [q EXCEPT ![k] = r] /\ r.fetch = "asked" /\ waits' = waits
        BY <1>types, <1>5, <2>2 DEF Queries!TakeFailure, Queries!TypeOK, Queries!Query
      <3>. HIDE DEF r
      <3>. QED  BY <1>types, <2>1, <3>1 DEF Queries!TypeOK
    <2>3. CASE ~(~q[k].tried /\ Queries!Mounted(k))
      <3>. DEFINE r == [q[k] EXCEPT !.fetch = "idle", !.status = "error"]
      <3>1. /\ r \in Queries!Query /\ q' = [q EXCEPT ![k] = r] /\ r.status = "error"
            /\ r.fetch = "idle"
            /\ Queries!Awaited(k)
        <4>1. q[k] \in Queries!Query
          BY <1>types DEF Queries!TypeOK
        <4>2. r \in Queries!Query /\ r.status = "error" /\ r.fetch = "idle"
          BY <4>1 DEF Queries!Query
        <4>3. q' = [q EXCEPT ![k] = r] /\ Queries!Awaited(k)
          BY <1>types, <1>5, <2>3 DEF Queries!TakeFailure, Queries!TypeOK
        <4>. QED  BY <4>2, <4>3
      <3>. HIDE DEF r
      <3>. QED  BY <1>waits, <2>1, <3>1
    <2>. QED  BY <2>2, <2>3
  <1>6. ASSUME NEW k \in watched, Queries!Repeat(k) PROVE Queries!IInv'
    <2>1. q[k] \in Queries!Query /\ q' = [q EXCEPT ![k] = Queries!Started(q[k])]
      BY <1>types, <1>6 DEF Queries!Repeat, Queries!TypeOK
    <2>2. /\ Queries!Started(q[k]) \in Queries!Query /\ Queries!Started(q[k]).fetch = "asked"
          /\ q'[k] = Queries!Started(q[k])
      BY <1>types, <2>1, QueriesRecords DEF Queries!TypeOK
    <2>3. Queries!SettledIsNew(k)'
      BY <2>2 DEF Queries!SettledIsNew
    <2>. QED  BY <1>types, <1>6, <2>1, <2>2, <2>3, QueriesOne DEF Queries!Repeat, Queries!TypeOK
  <1>7. ASSUME NEW p \in Queries!Visited, Queries!Visit(p) PROVE Queries!IInv'
    <2>1. PICK old \in SUBSET (Queries!Reads(p) \cap watched) :
            LET again == {k \in Queries!Reads(p) \cap watched :
                            /\ q[k].fetch = "idle"
                            /\ q[k].data = Queries!None \/ q[k].invalid \/ k \in old}
            IN  /\ q' = [k \in watched |-> IF k \in again THEN Queries!Started(q[k]) ELSE q[k]]
                /\ overtaken' = overtaken \ again
      BY <1>7 DEF Queries!Visit
    <2>. DEFINE again == {k \in Queries!Reads(p) \cap watched :
                            /\ q[k].fetch = "idle"
                            /\ q[k].data = Queries!None \/ q[k].invalid \/ k \in old}
    <2>2. /\ q' = [k \in watched |-> IF k \in again THEN Queries!Started(q[k]) ELSE q[k]]
          /\ overtaken' = overtaken \ again
      BY <2>1
    <2>3. page' = p /\ UNCHANGED <<watched, srv, phase, waits, own, faults>>
      BY <1>7 DEF Queries!Visit
    <2>4. \A k \in watched :
            k \in Queries!Reads(p) /\ q[k].fetch = "idle" /\ q[k].invalid => k \in again
      OBVIOUS
    <2>. HIDE DEF again
    <2>5. q' \in [watched -> Queries!Query]
      BY <1>types, <2>2, QueriesRecords DEF Queries!TypeOK
    <2>6. Queries!TypeOK'
      BY <1>same, <1>types, <2>2, <2>3, <2>5, QueriesVisited DEF Queries!TypeOK
    <2>7. Queries!OwnIsServed'
      BY <2>3 DEF Queries!IInv, Queries!OwnIsServed
    <2>8. ASSUME NEW k \in watched \ overtaken' PROVE Queries!SettledIsNew(k)'
      <3>1. CASE k \in again
        BY <1>types, <2>2, <3>1, QueriesRecords DEF Queries!SettledIsNew, Queries!TypeOK
      <3>2. CASE k \notin again
        <4>1. q'[k] = q[k] /\ Queries!SettledIsNew(k)
          BY <2>2, <3>2 DEF Queries!IInv
        <4>2. k \in Queries!Reads(p) => ~(q[k].fetch = "idle" /\ q[k].invalid)
          BY <2>4, <3>2
        <4>. QED  BY <2>3, <4>1, <4>2 DEF Queries!SettledIsNew, Queries!Mounted
      <3>. QED  BY <3>1, <3>2
    <2>. QED  BY <1>same, <2>6, <2>7, <2>8 DEF Queries!IInv
  <1>8. ASSUME NEW m \in Queries!Used,
               Queries!Submit(m) \/ Queries!onError(m) \/ Queries!Finish(m) \/ Queries!Reject(m)
        PROVE  Queries!IInv'
    <2>1. /\ UNCHANGED <<watched, page, srv, q, waits, own, overtaken>>
          /\ \E s \in {"idle", "sent", "failed"} : phase' = [phase EXCEPT ![m] = s]
      BY <1>8 DEF Queries!Submit, Queries!onError, Queries!Finish, Queries!Reject
    <2>2. phase' \in [Queries!Used -> {"idle", "sent", "served", "failed", "refetch"}]
      BY <1>types, <2>1 DEF Queries!TypeOK
    <2>3. faults' \in 0 .. MaxFaults
      BY <1>types, <1>8 DEF Queries!Submit, Queries!onError, Queries!Finish, Queries!Reject,
         Queries!TypeOK, Queries!ConsoleQueriesAssumption
    <2>4. Queries!TypeOK'
      BY <1>same, <1>types, <2>1, <2>2, <2>3 DEF Queries!TypeOK
    <2>5. \A k \in watched : srv[k] <= srv'[k]
      BY <1>types, <2>1 DEF Queries!TypeOK
    <2>. QED  BY <2>1, <2>4, <2>5, QueriesStill
  <1>9. ASSUME NEW m \in Queries!Used, Queries!Apply(m) PROVE Queries!IInv'
    <2>1. srv' \in [watched -> 0 .. MaxWrites] /\ \A k \in watched : srv[k] <= srv'[k]
      BY <1>types, <1>9 DEF Queries!Apply, Queries!TypeOK, Queries!ConsoleQueriesAssumption
    <2>2. Queries!TypeOK'
      BY <1>same, <1>types, <1>9, <2>1 DEF Queries!Apply, Queries!TypeOK
    <2>. QED  BY <1>9, <2>1, <2>2, QueriesStill DEF Queries!Apply
  <1>10. ASSUME NEW m \in Queries!Used, Queries!onSuccess(m) PROVE Queries!IInv'
    <2>. DEFINE keys == Queries!Invalidates(m) \cap watched
                busy == {k \in keys : /\ q[k].fetch # "idle"
                                      /\ q[k].data = Queries!None \/ ~Queries!Mounted(k)}
                mine == Queries!Invalidates(m) \cup (Queries!Writes(m) \cap Queries!Unpolled)
    <2>1. /\ q' = [k \in watched |-> IF k \in keys THEN Queries!invalidateQueries(k) ELSE q[k]]
          /\ overtaken' = (overtaken \ keys) \cup busy
          /\ own' = [k \in watched |-> IF k \in mine THEN srv[k] ELSE own[k]]
          /\ waits' = [waits EXCEPT ![m] = {k \in keys : Queries!Mounted(k)}]
          /\ phase' = [phase EXCEPT ![m] = "refetch"]
          /\ UNCHANGED <<watched, page, srv, faults>>
      BY <1>10 DEF Queries!onSuccess
    <2>2. mine = Queries!Invalidates(m)
      BY QueriesUnpolled DEF Queries!Used
    <2>3. /\ keys \subseteq watched /\ busy \subseteq keys
          /\ \A k \in watched : k \in mine => k \in keys
      BY <2>2
    <2>4. ASSUME NEW k \in keys
          PROVE  /\ Queries!invalidateQueries(k) \in Queries!Query
                 /\ k \notin busy =>
                      \/ Queries!invalidateQueries(k).fetch = "asked"
                      \/ /\ Queries!invalidateQueries(k).fetch = "idle" /\ ~Queries!Mounted(k)
                         /\ Queries!invalidateQueries(k).invalid
      <3>1. q[k] \in Queries!Query
        BY <1>types DEF Queries!TypeOK
      <3>2. CASE Queries!Mounted(k) /\ (q[k].data # Queries!None \/ q[k].fetch = "idle")
        <4>1. Queries!invalidateQueries(k) =
                Queries!Started([q[k] EXCEPT !.answer = 0, !.invalid = TRUE])
          BY <3>2 DEF Queries!invalidateQueries
        <4>2. Queries!Started([q[k] EXCEPT !.answer = 0, !.invalid = TRUE]).fetch = "asked"
          BY <3>1 DEF Queries!Started, Queries!Query
        <4>. QED  BY <3>1, <4>1, <4>2, QueriesRecords
      <3>3. CASE ~(Queries!Mounted(k) /\ (q[k].data # Queries!None \/ q[k].fetch = "idle"))
        <4>1. Queries!invalidateQueries(k) = [q[k] EXCEPT !.invalid = TRUE]
          BY <3>3 DEF Queries!invalidateQueries
        <4>2. /\ [q[k] EXCEPT !.invalid = TRUE].fetch = q[k].fetch
              /\ [q[k] EXCEPT !.invalid = TRUE].invalid
          BY <3>1 DEF Queries!Query
        <4>. QED  BY <3>1, <3>3, <4>1, <4>2, QueriesRecords
      <3>. QED  BY <3>2, <3>3
    <2>. HIDE DEF keys, busy, mine
    <2>5. q' \in [watched -> Queries!Query]
      BY <1>types, <2>1, <2>4 DEF Queries!TypeOK
    <2>6. /\ own' \in [watched -> 0 .. MaxWrites] /\ overtaken' \subseteq watched
          /\ waits' \in [Queries!Used -> SUBSET watched]
          /\ phase' \in [Queries!Used -> {"idle", "sent", "served", "failed", "refetch"}]
      BY <1>types, <2>1, <2>3 DEF Queries!TypeOK
    <2>7. Queries!TypeOK'
      BY <1>same, <1>types, <2>1, <2>5, <2>6 DEF Queries!TypeOK
    <2>8. Queries!OwnIsServed'
      BY <1>types, <2>1 DEF Queries!IInv, Queries!OwnIsServed, Queries!TypeOK
    <2>9. ASSUME NEW k \in watched \ overtaken' PROVE Queries!SettledIsNew(k)'
      <3>1. CASE k \in keys
        <4>1. q'[k] = Queries!invalidateQueries(k) /\ k \notin busy
          BY <2>1, <3>1
        <4>. QED  BY <2>1, <2>4, <3>1, <4>1 DEF Queries!SettledIsNew, Queries!Mounted
      <3>2. CASE k \notin keys
        <4>1. q'[k] = q[k] /\ own'[k] = own[k] /\ k \notin overtaken
          BY <2>1, <2>3, <3>2
        <4>. QED  BY <2>1, <4>1 DEF Queries!IInv, Queries!SettledIsNew, Queries!Mounted
      <3>. QED  BY <3>1, <3>2
    <2>. QED  BY <1>same, <2>7, <2>8, <2>9 DEF Queries!IInv
  <1>11. CASE UNCHANGED Queries!vars
    <2>1. Queries!TypeOK' /\ \A k \in watched : srv[k] <= srv'[k]
      BY <1>same, <1>types, <1>11 DEF Queries!vars, Queries!TypeOK
    <2>. QED  BY <1>11, <2>1, QueriesStill DEF Queries!vars
  <1>. QED  BY <1>1, <1>2, <1>3, <1>4, <1>5, <1>6, <1>7, <1>8, <1>9, <1>10, <1>11 DEF Queries!Next

\* A page that has settled shows what the mutations of this tab changed.
LEMMA QueriesOwnShown == ASSUME Queries!IInv PROVE Queries!OwnWritesShown
  BY DEF Queries!IInv, Queries!SettledIsNew, Queries!OwnWritesShown

-----------------------------------------------------------------------------
(* The pages. *)

\* A step of the pages is one of the part that is shown, or changes nothing of it.
LEMMA PartOfStep ==
  ASSUME [Next]_vars
  PROVE  /\ part' = part
         /\ part = "form" => [Form!Next]_(Form!vars)
         /\ part = "dialog" => [Dialog!Next]_(Dialog!vars)
         /\ part = "table" => [Table!Next]_(Table!vars)
         /\ part = "row" => [Row!Next]_(Row!vars)
         /\ part = "cascade" => [Cascade!Next]_(Cascade!vars)
         /\ part = "list" => [List!Next]_(List!vars)
         /\ part = "queries" => [Queries!Next]_(Queries!vars)
  <1>1. CASE Next
    BY <1>1 DEF Next
  <1>2. CASE UNCHANGED vars
    BY <1>2 DEF vars, Form!vars, Dialog!vars, Table!vars, Row!vars, Row!page, Cascade!vars,
       List!vars, Queries!vars
  <1>. QED  BY <1>1, <1>2

\* The invariant of the part shown holds when it is opened.
LEMMA PageOpens == Init => IInv
  BY ConsolePagesAssumption, FormInit, DialogInit, TableInit, RowInit, CascadeInit, ListInit,
     QueriesInit DEF Init, IInv

\* Every step keeps the invariant of the part shown.
LEMMA PageSteps == ASSUME IInv, [Next]_vars PROVE IInv'
  BY ConsolePagesAssumption, PartOfStep, FormStep, DialogStep, TableStep, RowStep, CascadeStep,
     ListStep, QueriesStep DEF IInv

\* So it holds always.
LEMMA PageInvariant == Spec => []IInv
  <1>1. IInv /\ [Next]_vars => IInv'
    BY PageSteps
  <1>. QED  BY <1>1, PageOpens, PTL DEF Spec

\* Every part keeps the types of its module.
THEOREM PagesAreTyped == Spec => []TypeOK
  <1>1. IInv => TypeOK
    BY DEF IInv, TypeOK, Form!IInv, Dialog!IInv, Table!IInv, Row!IInv, List!IInv, Queries!IInv
  <1>. QED  BY <1>1, PageInvariant, PTL

\* What a form sends passes the validation of the server but for a cron expression only the
\* server can judge, and the job that is created has the mode, the Agents and every number that
\* was entered, but for a packet loss of 0, which the server takes for a missing one.
THEOREM AcceptedAsEntered == Spec => []SubmissionHonoured
  <1>1. IInv => SubmissionHonoured
    BY FormHonours DEF IInv, SubmissionHonoured
  <1>. QED  BY <1>1, PageInvariant, PTL

\* When all is answered, a row that nobody else saved holds what was submitted last for it.
THEOREM LastSaveStays == Spec => []LastSaveWins
  <1>1. IInv => LastSaveWins
    BY DialogLastWins DEF IInv, LastSaveWins
  <1>. QED  BY <1>1, PageInvariant, PTL

\* What was entered in a dialog is taken by a save that succeeded, by the person, or in a panel
\* that follows its row by a change of the row, and by nothing else.
THEOREM EditsStay == Spec => EditsAreKept
  <1>1. IInv /\ [Next]_vars => [part = "dialog" => Dialog!KeepsEdits]_vars
    BY ConsolePagesAssumption, PartOfStep, DialogKeeps DEF IInv, vars, Dialog!vars
  <1>. QED  BY <1>1, PageInvariant, PTL DEF Spec, EditsAreKept

\* No page of a table or of the league is empty while there are rows, and the pages of a table
\* show all that its filters let through.
THEOREM PagesShowAllRows == Spec => []PagesCoverRows
  <1>1. IInv => PagesCoverRows
    BY ConsolePagesAssumption, TableCovers, ListHasRows DEF IInv, PagesCoverRows
  <1>. QED  BY <1>1, PageInvariant, PTL

\* A row that nobody else changed is as it was switched last, when all is answered.
THEOREM LastToggleStays == Spec => []LastToggleWins
  <1>1. IInv => LastToggleWins
    BY RowLastWins DEF IInv, LastToggleWins
  <1>. QED  BY <1>1, PageInvariant, PTL

\* What others saved of a row is there until they save again, however it is switched: the switch
\* of a source takes nothing back, and that of a schedule only what was saved while it was on its
\* way, or was not shown yet where it was clicked.
THEOREM EditsSurviveSwitches == Spec => []SwitchesKeepEdits
  <1>1. IInv => SwitchesKeepEdits
    BY RowKeepsEdits DEF IInv, SwitchesKeepEdits
  <1>. QED  BY <1>1, PageInvariant, PTL

\* What is shown and sent of the cascade of places is a place with results.
THEOREM CascadeShowsResults == Spec => []CascadeHasResults
  <1>1. IInv => CascadeHasResults
    BY CascadeEmptyUp DEF IInv, CascadeHasResults
  <1>. QED  BY <1>1, PageInvariant, PTL

\* Another page size and a click back lead to rows the reader saw or that exist.
THEOREM PlaceIsKept == Spec => ReaderKeepsPlace
  <1>1. IInv /\ [Next]_vars => [part = "list" => List!KeepsPlace]_vars
    BY ConsolePagesAssumption, ListKeeps DEF IInv
  <1>. QED  BY <1>1, PageInvariant, PTL DEF Spec, ReaderKeepsPlace

\* What a mutation of this tab changed is what a page shows that has settled, if no fetch that
\* was out before the mutation was kept instead of a new one.
THEOREM OwnWritesAreShown == Spec => []OwnWritesShown
  <1>1. IInv => OwnWritesShown
    BY QueriesOwnShown DEF IInv, OwnWritesShown
  <1>. QED  BY <1>1, PageInvariant, PTL

\* The same of the specification of the queries by itself, which ConsoleQueries makes live.
THEOREM TabShowsItsWrites == Queries!Spec => []Queries!OwnWritesShown
  <1>1. Queries!ConsoleQueriesAssumption
    BY ConsolePagesAssumption
  <1>2. Queries!Init => Queries!IInv
    BY <1>1, QueriesInit
  <1>3. Queries!IInv /\ [Queries!Next]_(Queries!vars) => Queries!IInv'
    BY <1>1, QueriesStep
  <1>4. Queries!IInv => Queries!OwnWritesShown
    BY QueriesOwnShown
  <1>. QED  BY <1>2, <1>3, <1>4, PTL DEF Queries!Spec
=============================================================================
