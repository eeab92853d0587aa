------------------------------ MODULE ScanForm ------------------------------
(***************************************************************************)
(* The configuration of a scan, from the fields a person edits to the job  *)
(* or the schedule the server creates: the form of CreateScanDialog and    *)
(* ScheduleDialog, its schema, the defaults and the validation of the      *)
(* server, and the Agents that get the tasks.  The values of a numeric     *)
(* field are those around the ends of its range and the default; NaN is an *)
(* emptied field.  A text is missing, malformed, right, or of the right    *)
(* form without a meaning (five words that are no cron expression).        *)
(***************************************************************************)
EXTENDS Integers, FiniteSets

CONSTANTS
    Agents,     \* registered Agents
    MaxEdits,   \* edits of one form (bound)
    MaxOutages  \* changes of the Agents between online and offline (bound)

ScanFormAssumption == MaxEdits \in Nat /\ MaxOutages \in Nat

NaN   == -99
Modes == {"count", "one_per_prefix", "league"}
Texts == {"empty", "bad", "senseless", "good"}

\* The range of a numeric field in createScanJobSchema.
Low ==
    [target_count |-> 1, port |-> 1, attempts |-> 1, timeout_ms |-> 500,
     max_latency_ms |-> 1, max_packet_loss |-> 0, blacklist_minutes |-> 1]
High ==
    [target_count |-> 10000, port |-> 65535, attempts |-> 10, timeout_ms |-> 30000,
     max_latency_ms |-> 60000, max_packet_loss |-> 100, blacklist_minutes |-> 10080]
Default ==
    [target_count |-> 128, port |-> 443, attempts |-> 3, timeout_ms |-> 5000,
     max_latency_ms |-> 1000, max_packet_loss |-> 50, blacklist_minutes |-> 60]

Numbers    == DOMAIN Low
TextFields == {"name", "hostname", "path", "cron_expression"}
Around(f)  == {NaN, Low[f] - 1, Low[f], Default[f], High[f], High[f] + 1}
                \cup (IF f = "port" THEN {80} ELSE {})

\* The fields under the closed "thresholds and advanced options".
Advanced == {"timeout_ms", "max_latency_ms", "max_packet_loss", "blacklist_minutes"}

\* What a field can hold: one more or less than its range.
MaxEntry == 65536
Entries  == {NaN} \cup -1 .. MaxEntry

Form ==
    [number : [Numbers -> Entries], text : [TextFields -> Texts],
     mode : Modes, scheme : {"http", "https"}, agents : SUBSET Agents]

VARIABLES
    kind,      \* what the form creates: "job" or "schedule"
    form,      \* what the fields hold
    advanced,  \* the advanced options are unfolded
    errors,    \* the fields that a submission was refused for
    online,    \* server: the Agents with a recent heartbeat
    known,     \* the Agents the form shows as online
    sent,      \* the values of the request that is not yet dealt with
    job,       \* the job the server created of them, and the Agents with tasks
    answer,    \* what the server said
    edits, outages

vars == <<kind, form, advanced, errors, online, known, sent, job, answer, edits, outages>>

NoRequest == [mode |-> "none"]

\* defaultScanJobValues and defaultScanScheduleValues; only a schedule has a name.
DefaultValues(k) ==
    [number |-> Default,
     text |-> [f \in TextFields |-> IF f = "name" /\ k = "job" THEN "empty" ELSE "good"],
     mode |-> "count", scheme |-> "https", agents |-> {}]

TypeOK ==
    /\ kind \in {"job", "schedule"}
    /\ form \in Form
    /\ advanced \in BOOLEAN
    /\ errors \subseteq Numbers \cup TextFields
    /\ online \subseteq Agents /\ known \subseteq Agents
    /\ sent \in Form \cup {NoRequest}
    /\ job = NoRequest \/ (job.values \in Form /\ job.tasks \subseteq Agents)
    /\ answer \in {"none", "created", "invalid", "no_agents", "failed"}
    /\ edits \in 0 .. MaxEdits /\ outages \in 0 .. MaxOutages

Init ==
    /\ kind \in {"job", "schedule"}
    /\ form = DefaultValues(kind) /\ advanced = FALSE /\ errors = {}
    /\ online = Agents /\ known = Agents
    /\ sent = NoRequest /\ job = NoRequest /\ answer = "none"
    /\ edits = 0 /\ outages = 0

-----------------------------------------------------------------------------
\* (mutant) The schema has the lower ends of the ranges only.
Refused_NoMax(v) ==
    {f \in Numbers : v.number[f] = NaN \/ v.number[f] < Low[f]}
      \cup {f \in TextFields : v.text[f] \in {"empty", "bad"}}

\* createScanJobSchema: the fields it refuses; all of them are checked in every mode.
Refused(v) ==
    {f \in Numbers : v.number[f] = NaN \/ v.number[f] < Low[f] \/ v.number[f] > High[f]}
      \cup {f \in TextFields : v.text[f] \in {"empty", "bad"}}

\* A field that was refused is checked again at every change of it.
Revalidated(v, fields) == errors' = (errors \ fields) \cup (Refused(v) \cap errors \cap fields)

Edited(v, fields) ==
    /\ form' = v /\ Revalidated(v, fields)
    /\ edits < MaxEdits /\ edits' = edits + 1
    /\ UNCHANGED <<kind, advanced, online, known, sent, job, answer, outages>>

\* A per-prefix scan shows no sample count, a folded section none of its fields.
Visible(f) ==
    /\ f = "target_count" => form.mode # "one_per_prefix"
    /\ f \in Advanced => advanced

EditNumber(f, n) == Visible(f) /\ Edited([form EXCEPT !.number[f] = n], {f})

\* Only a schedule has a cron expression, and only that has a form without a meaning.
EditText(f, t) ==
    /\ f = "cron_expression" => kind = "schedule"
    /\ t = "senseless" => f = "cron_expression"
    /\ Edited([form EXCEPT !.text[f] = t], {f})

ChooseMode(m)    == Edited([form EXCEPT !.mode = m], {})

\* The choice of a scheme also sets its usual port; setValue validates nothing.
ChooseScheme(s) ==
    Edited([form EXCEPT !.scheme = s, !.number.port = IF s = "https" THEN 443 ELSE 80], {"port"})

\* The checkbox of an Agent that is not online is disabled, chosen or not.
ToggleAgent(a) ==
    /\ a \in known
    /\ Edited([form EXCEPT !.agents = IF a \in @ THEN @ \ {a} ELSE @ \cup {a}], {})

Unfold ==
    /\ advanced' = ~advanced
    /\ UNCHANGED <<kind, form, errors, online, known, sent, job, answer, edits, outages>>

\* The heartbeats of an Agent stop or come back; the form learns of it with the next poll.
Outage(a) ==
    /\ outages < MaxOutages /\ outages' = outages + 1
    /\ online' = IF a \in online THEN online \ {a} ELSE online \cup {a}
    /\ UNCHANGED <<kind, form, advanced, errors, known, sent, job, answer, edits>>

PollAgents ==
    /\ known' = online
    /\ UNCHANGED <<kind, form, advanced, errors, online, sent, job, answer, edits, outages>>

\* handleSubmit: what the schema refuses is marked, and is not sent.
Submit ==
    /\ sent = NoRequest
    /\ kind = "job" => known # {}
    /\ errors' = Refused(form)
    /\ sent' = IF Refused(form) = {} THEN form ELSE NoRequest
    /\ UNCHANGED <<kind, form, advanced, online, known, job, answer, edits, outages>>

-----------------------------------------------------------------------------
\* The server takes a zero for a field that was left out.
ApplyDefaults(v) ==
    [v EXCEPT !.number = [f \in Numbers |->
        IF @[f] # 0 THEN @[f]
        ELSE IF f = "port" /\ v.scheme = "http" THEN 80 ELSE Default[f]]]

Within(n, low, high) == low <= n /\ n <= high

Validate(v) ==
    /\ v.mode \in {"count", "league"} => Within(v.number.target_count, 1, 10000)
    /\ v.text.hostname = "good" /\ v.text.path = "good" /\ v.text.cron_expression = "good"
    /\ Within(v.number.port, 1, 65535)
    /\ Within(v.number.attempts, 1, 10)
    /\ Within(v.number.timeout_ms, 500, 30000)
    /\ Within(v.number.max_latency_ms, 1, 60000)
    /\ Within(v.number.max_packet_loss, 0, 100)
    /\ Within(v.number.blacklist_minutes, 1, 10080)

\* All online Agents, or those asked for, online or not.
ResolveScanAgentIDs(requested) == IF requested = {} THEN online ELSE requested

\* createScanJob, and createSchedule after normalizeSchedule: a schedule has its
\* tasks when it is run.  Any other error (of prefixes and their syncs, unknown Agents,
\* nothing due, sampling or the store) leaves no job either.
Create ==
    /\ sent # NoRequest /\ answer = "none"
    /\ LET v      == ApplyDefaults(sent)
           agents == ResolveScanAgentIDs(sent.agents)
       IN  IF ~Validate(v) THEN answer' = "invalid" /\ UNCHANGED job
           ELSE \/ answer' = "failed" /\ UNCHANGED job
                \/ /\ kind = "schedule"
                   /\ answer' = "created" /\ job' = [values |-> v, tasks |-> {}]
                \/ /\ kind = "job" /\ agents = {}
                   /\ answer' = "no_agents" /\ UNCHANGED job
                \/ /\ kind = "job" /\ agents # {}
                   /\ answer' = "created" /\ job' = [values |-> v, tasks |-> agents]
    /\ UNCHANGED <<kind, form, advanced, errors, online, known, sent, edits, outages>>

\* The dialog is closed after a success, the section left as it is; otherwise it
\* shows the same form again.
Answered ==
    /\ answer # "none" /\ answer' = "none"
    /\ form' = IF answer = "created" THEN DefaultValues(kind) ELSE form
    /\ errors' = IF answer = "created" THEN {} ELSE errors
    /\ sent' = NoRequest /\ job' = NoRequest
    /\ edits' = IF answer = "created" THEN 0 ELSE edits
    /\ UNCHANGED <<kind, advanced, online, known, outages>>

Next ==
    \/ \E f \in Numbers : \E n \in Around(f) : EditNumber(f, n)
    \/ \E f \in TextFields, t \in Texts : EditText(f, t)
    \/ \E m \in Modes : ChooseMode(m)
    \/ \E s \in {"http", "https"} : ChooseScheme(s)
    \/ \E a \in Agents : ToggleAgent(a) \/ Outage(a)
    \/ Unfold \/ PollAgents \/ Submit \/ Create \/ Answered

Spec == Init /\ [][Next]_vars

-----------------------------------------------------------------------------
(***************************************************************************)
(* The schema of the form and the validation of the server agree in one    *)
(* direction: what the form lets through is never refused as invalid, but  *)
(* for the cron expression, of which the form only counts the words.  And  *)
(* what the person entered is what the job has: of all fields but a packet *)
(* loss of zero, which the server reads as one that was left out.          *)
(***************************************************************************)
SubmissionHonoured ==
    /\ answer = "invalid" => sent.text.cron_expression = "senseless"
    /\ job # NoRequest =>
        /\ \A f \in Numbers : sent.number[f] # 0 => job.values.number[f] = sent.number[f]
        /\ job.values.mode = sent.mode /\ job.values.scheme = sent.scheme
        /\ job.values.agents = sent.agents
-----------------------------------------------------------------------------
(***************************************************************************)
(* The inductive invariant.  A request is of values the schema let         *)
(* through, an answer is to a request, a refusal is one of what the server *)
(* made of the values, and so is the job.                                  *)
(***************************************************************************)
SenselessCronOnly(v) == \A f \in TextFields : v.text[f] = "senseless" => f = "cron_expression"

SentIsAccepted ==
    /\ SenselessCronOnly(form)
    /\ sent # NoRequest => Refused(sent) = {} /\ SenselessCronOnly(sent)

AnswerIsOfRequest ==
    /\ answer # "none" => sent # NoRequest
    /\ answer = "invalid" => ~Validate(ApplyDefaults(sent))
    /\ job # NoRequest => answer = "created" /\ job.values = ApplyDefaults(sent)

IInv == TypeOK /\ SentIsAccepted /\ AnswerIsOfRequest
=============================================================================
