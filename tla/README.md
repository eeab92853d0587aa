# TLA+ models of cfscan

cfscan scans Cloudflare addresses from several vantage points. A **Center** (Go, PostgreSQL)
plans scan jobs, hands tasks to **Agents** that poll it over HTTP, stores what they report and
keeps a blacklist per Agent. A web console (TypeScript, React, TanStack Query) shows and changes
all of it. This directory holds the specifications of that system, the TLC
configurations that check them on small instances, and the proofs that hold for every instance.

    tlc -workers 2 -config ScanJobsRows.cfg MCScanJobs     # check one instance
    tlapm ScanJobsProofs.tla                               # check the proofs

## 1. The system

| component | state | operations | correct means | status |
|---|---|---|---|---|
| scan jobs, leases, results, blacklist (`internal/store/postgres/store.go`) | `scan_jobs`, `scan_tasks`, `scan_results`, `blacklist_entries` | `CreateScanJob`, the recheck's transaction, `StopScanJob`, `ClaimTasks`, `SubmitResults` | counters and status agree with the rows; finished jobs stay finished; a running lease is exclusive; a result is recorded once; every job ends | `ScanJobs`: modelled, proved |
| Agent work loop (`cmd/agent/main.go`) | the batch in memory | `processAvailable`, `runBatch`, `claim`, `submit` | no task is lost by a crash, a timeout or a lost answer | in `ScanJobs`, without the heartbeats |
| schedules (`internal/scheduling`, `ClaimDueScanSchedules`, `RecordScanScheduleRun`) | `scan_schedules` | due claim, run, record, edit, run now | one open job per schedule; an enabled one is dispatched again and again | `Schedules`: modelled, proved |
| automation (`internal/automation`, `cmd/server/main.go`) | `automation_runs`, `source_sync_schedules` | startup run, 30 s ticker, run now | claims are single; a running synchronisation is visible in its record; a source runs again and again; records are closed | `Automation`: modelled, proved; one finding |
| blacklist recheck (`CreateBlacklistRechecks`) | reads blacklist and jobs, creates jobs | scheduled and manual recheck | leases and jobs fit together | its transaction in `ScanJobs` |
| enrollment and identity (`enrollments.go`, `cmd/agent/cli.go`, `identity.go`) | `agent_enrollments`, `agents`, `agent_credentials`, the identity file | request, approve, reject, claim, save | one Agent and one credential per enrollment; a repeated claim is harmless; a saved identity authenticates | `Enrollment`: modelled, proved |
| users and sessions (`auth.go`, `internal/auth`) | `app_users`, `auth_sessions` | bootstrap, login, update, reset, delete | an enabled administrator remains; a session ends with the account and the password it was granted on | `Users`: modelled, proved |
| prefix league (`internal/league`, `league.go` of the store) | `prefix_league_entries` | `Evaluate`, `PlanAgent`, `PlanLeagueTargets` | results count once; no tier starves | `League`: modelled, proved; one finding |
| console: session and routes (`features/auth`, `lib/http.ts`, `routes`) | the cookie, the query `/auth/me`, the cache, the location | login, logout, polls, 401, route guards | data of the person shown only; a dead session is noticed | `ConsoleSession`: modelled, proved |
| console: queries and mutations (`features/*/hooks.ts`) | the query cache | poll, visit, mutate, invalidate | own changes are shown; changes of others appear | `ConsoleQueries`: modelled, proved |
| console: scan form (`scans/schema.ts`, `scan-configuration-fields.tsx`, `scans/service.go`) | the fields, the request, the job | edit, submit, defaults, validation | what the form lets through is what the job has | `ScanForm`: modelled, proved |
| console: edit dialogs (schedule, recheck, source, user, password, approval, ASN) | the form, the row, the request | open, edit, save, close | edits survive; the last save wins | `EditDialogs`: modelled, proved |
| console: tables and row actions (`data-table`, the tables) | filters, sorting, pages; switches and questions | search, page, switch, delete, stop | pages cover the rows; the last click wins; a switch keeps what others saved | `TableView`, `RowActions`: modelled, proved |
| console: filters and pages of results and league | filters, cascade, page | choose, reset, page | places with results only; the reader keeps the place | `ResultFilters`, `ServerPages`: modelled, proved |
| statements and row locks, heartbeats, address sources, rate limiters, target sampling, probe, read-only queries, configuration, scripts | | | | not modelled, see section 6 |

How they interact: administrators call the Center's API; the schedule runner and the automation
loop run inside the Center; all of them create jobs by `CreateScanJob`. Agents only ever call
out: they enroll once, then send heartbeats, claims and results. All shared state is in
PostgreSQL, so components meet in transactions; what is hard is that a call spans several of
them (claim, probe, submit; dispatch, create, record) and that calls get lost, time out and
race with administrators. The console only sees the Center through requests whose answers
come late and in any order, and through polls; what is hard there is that a page, a form or a click
works on what an older answer said.

## 2. Modules

| module | what it is |
|---|---|
| `ScanJobs` | jobs, task rows with leases, results, blacklist, the requests in flight and the Agents |
| `JobLifecycle` | the abstract job: pending, running, completed or stopped, with its open and recorded targets; `ScanJobs` implements it |
| `MCScanJobs` | `ScanJobs` for TLC, with the symmetry of Agents and targets |
| `ScanJobsProofs` | the theorems about `ScanJobs` |
| `Schedules`, `MCSchedules`, `SchedulesProofs` | scan schedules and the two dispatch loops |
| `Automation`, `MCAutomation`, `AutomationProofs` | source synchronisation, its run records, the startup and ticker loops |
| `Users`, `MCUsers`, `UsersProofs` | accounts, sessions, concurrent requests of administrators |
| `AccountRegistry` | the abstract accounts: every change is one step that sees its effect; `Users` implements it |
| `Enrollment`, `MCEnrollment`, `EnrollmentProofs` | enrollments, Agents, credentials, the hosts that ask for them |
| `Pairing` | the abstract way from a request to an Agent with one key on one machine; `Enrollment` implements it |
| `League`, `MCLeague`, `LeagueProofs` | the entries of the prefix league, scheduled and forced plans, results in between |
| `ConsoleSession`, `MCConsoleSession`, `ConsoleSessionProofs` | who is signed in, the cookie, cached data and route guards of one tab |
| `ConsoleQueries`, `MCConsoleQueries` | every query, page and mutation of the console and what invalidates what |
| `ScanForm` | the form of scans and schedules with its schema, and the defaults and validation of the server |
| `EditDialogs` | the dialogs that edit a row, over polled data and late answers |
| `TableView` | search, filters, sorting and pages of a table over a polled list |
| `RowActions` | switches, deletions and stops in tables and cards |
| `ResultFilters` | the filters of the results and the cascade continent, country, city, colo |
| `ServerPages` | pages the server cuts, for results and league |
| `ConsolePages`, `MCConsolePages`, `ConsolePagesProofs` | the last six and `ConsoleQueries`, one at a time: their joint specification, its instance for TLC and the theorems about all of them |

But for `ConsolePages` the components do not use each other. They meet in the database and in few facts: `Schedules` needs
of a job only that it is created and ends (`JobsFinish` of `ScanJobs`), and `ScanJobs` takes Agents
as given whose identity `Enrollment` produces. The modules of the console take the Center as what
its answers may be: `ConsoleQueries` as numbers that grow, `EditDialogs` and `RowActions` as rows
that others change too.

### 2.1 ScanJobs

*State.* `jobStatus`, `jobTotal`, `jobCounts` are the columns of `scan_jobs`; `task[j][s]` is the
status of the row that `UNIQUE (job_id, preferred_agent_id, target_ip)` allows per job and slot
(a slot is an Agent and a target), with `leased` split into `"leased"` and `"expired"` by
`lease_until`; `result[j][s]` is the verdict of the stored result against the job's thresholds;
`blacklist[s]` is no entry, an entry with `retry_after` in the future (`"blocked"`), or one
whose `retry_after` has passed (`"retry"`). `agent`, `batch`, `claims` and `submits` are the Agent
processes and the HTTP requests in flight: a request stays in the set until the Center has
executed it, and is marked when its Agent has given it up.

*Actions.* One per transaction: `CreateScanJob`, `CreateBlacklistRecheck` (one Agent's part of a
blacklist recheck: it leases the entries anew and creates a job for them), `StopScanJob`, `ClaimTasks` and its empty answer
`ClaimNothing`, `SubmitResults` and its two other outcomes (`IgnoreLateResults` for a stopped
job, `RejectResults` when a task of the batch is not leased, which rolls everything back). The
Agent sends a claim, probes, sends results, and goes back to claiming whatever the answer is: it
never repeats a result request. Faults are client timeouts (45 s; the Center may still execute
the request later), Agent crashes, and calls that fail without effect. Leases and blocks run out
at any moment.

*Abstractions.*
- A transaction is atomic. `SKIP LOCKED` is kept as a choice: a claim may pass over a job that
  another call in flight can hold locked (`MayBeHeld`), and answer "nothing" if it meets only such.
  Of the job it has locked it skips no pending row (`IsPicked`): whoever completes or cancels tasks of
  a job holds the row of the job first, and another claim gives back only rows still leased.
- `CreateScanJob` also writes `ip_targets` and `prefix_league_entries`; these belong to the
  sources and the league. A plan without any insertable target rolls back and is no step.
- Which pending rows a claim takes when there are more than its limit is left open.
- An Agent submits the targets it was given, so the "target mismatch" branch cannot be reached;
  its requests are never empty (the API refuses an empty one), see `BatchesWellFormed`.
- A submit that arrives after its lease expired is accepted as long as the row is still leased,
  by whichever claim: the code does not check `lease_until`, and neither does the model.
- Identifiers, thresholds, timings and messages are reduced to a verdict "ok" or "bad".

### 2.2 JobLifecycle

Four steps (create, start, report a batch, stop) on `state`, `open`, `recorded` and `listed`. The
refinement mapping in `ScanJobs` takes the open rows, the stored results and the blacklist rows.
Claims after the first, rejected or late requests, faults and the passage of time are stutters.
`Promise` is what a reader of jobs may rely on, and follows from the lifecycle alone.

### 2.3 Schedules

*State.* The rows of `scan_schedules` with `next_run_at` reduced to a planned time, the end of a
dispatch lease or past, and `last_job_id`; the unfinished jobs and the schedule each was created
for; per loop what it has claimed and not yet recorded. There are two loops, the 30 s ticker and
the goroutine that dispatches once after a start, and requests to run a schedule now.

*Actions.* Create, change, delete, run now; claim (one statement: guard on the last job, lease of
5 minutes, rows locked by another claim passed over); take the next item, create the job or
nothing, record. Failing calls, a job that is created without the loop noticing, and restarts of
the Center are faults. A time that a loop records may have passed already.

*Abstractions.* Creating a job is one step, its life is `ScanJobs`. Ids of finished jobs nobody
refers to are used again. The run records are read by no step of a schedule and left out. `loose`
is a history of schedules whose guard the code gives up: run by hand, due again while a loop still
holds them, or with a job that was not recorded. A record overwrites an edit made meanwhile, as in
the code; no property depends on it.

### 2.4 Automation

*State.* The rows of `source_sync_schedules`, the records of `automation_runs` (closed, or running
for less or more than the 15 minutes the guard looks back), per loop the sources taken and not yet
run, per worker the source it is at and the record it has made. `stage` is the progress of the
startup goroutine: list, run what is to be run at a start, then one round of due sources.

*Actions.* `RunStartup` takes sources without a claim, `ClaimDueSourceSyncSchedules` with one;
`StartAutomationRun` inserts the record, `FinishAutomationRun` closes it whether the
synchronisation succeeded or not, `RecordSourceSyncRun` plans the next time (not for a run by
hand). `ContextEnds` stands for the 6 minutes of a round and for the client of a request: every
call left to make fails, the closing of the record included. `StartCenter` closes old records.

*Abstractions.* What a synchronisation does to the prefixes is a component of its own. The
order of the sources in a round is left open. Times are valid when they are computed (edits are
checked), so the branch for an unusable cron expression is left out. Closed records are used
again, there being no step that reads them. An execution has 5 minutes, hence a record that
executes is not yet old. The ASN synchronisations of the sources page write no record and take
no part.

### 2.5 Users

*State.* `app_users` (role, enabled, password), `auth_sessions` with the account and password they
were granted on, and per request how far it is. Changes and deletions are modelled statement by
statement: the advisory lock on administrators, the row lock, the check for another administrator,
the commit. All other transactions are single steps. Two Centers may start on an empty table.

*Actions.* Bootstrap, login (check, then insert), logout, expiry, create, change, reset, delete,
and aborts of a transaction. `raced` is a history of sessions whose login was under way when their
account was changed, the case in which the code leaves a session behind. A deleted name is not
used again, `MaxResets` bounds the passwords.

*Abstract specification.* `AccountRegistry` has the four variables of the tables and none of
requests, Centers and locks. A change takes effect in one step whose guard speaks of the accounts as
they are then: the account exists, an enabled administrator is left. The refinement mapping is the
identity; a request maps to the registry's step when it commits, and what it does before (accept,
lock, check) is a stutter. `ImplementsRegistry` says that what a request has found out stays true
until it commits, with one exception that is written into the registry: the session of an overtaken
login, which the code grants on an access or a password that is gone.

### 2.6 Enrollment

*State.* `agent_enrollments` by status and credential hash, `agents` by the enrollment they came
from (names are UNIQUE), `agent_credentials`; per host the process (`connect` or `join`), its token
and credential in memory, its identity file; the claims in flight that nobody waits for any more.

*Actions.* Request or preauthorize, approve, reject, expire (at any time), claim, answer, save,
crash, start again. A claim is one transaction, serialised by the row lock of its enrollment; a
claim given up may be executed later, once or again. A crash loses token and credential, the
identity file stays.

*Abstractions.* Tokens and hashes are the values themselves; identical late claims collapse into
one; credentials are used again only when nobody holds them; the limit on pairing requests
belongs to the rate limiters.

*Abstract specification.* `Pairing` has the stage of each enrollment and the Agent it was approved
for, and of each Agent its keys and its machines. The mapping takes a pending or approved row
whose time is over as expired (as the column list of the code does), the credentials of an Agent as its
keys, the hosts with its identity file as its machines. A claim that is admitted is one step, whoever
receives its answer; a repeated, late, refused or lost one, a crash, and the expiry of a row that
was decided before are stutters; saving the identity is a step that finds the Agent without a machine
and the machine without an identity.

### 2.7 League

*State.* The rows of `prefix_league_entries` of one Agent and one probe configuration: tier, bad
streak, whether a result came since the last evaluation, the hours since the prefix was scheduled;
the plans of the scheduled and of a forced scan between their transaction and the job; the prefixes
with open tasks; whether the schedule ran this hour. `arrivals` is a ghost: the batches of results
since a prefix came to its tier.

*Actions.* `PlanLeagueTargets` is one transaction that locks the entries, evaluates those with news and
plans within the budget; `CreateScanJob` marks the prefixes that got tasks (those of a blacklisted
prefix get none); `Fail` leaves an evaluation without a job; `Results`; `Hour`.

*The plan.* `PlanAgent` takes targets in rounds of three champions, two challengers and one
observation prefix until the budget is spent, and within a tier the first sample of every prefix
before the second of any. `Ahead` counts what comes before a target; `Shares` is the number of
prefixes of each tier that are planned, and `Plans` every choice of that many, since the seed that
orders a tier is new in each plan.

*Abstractions.* The statistics of a prefix are any evidence `Evaluate` tells apart. The hours between
scans of a tier (24, 6 and 1) are scaled to 3, 2 and 1. Prefixes have enough addresses.

### 2.8 The console

`ConsoleSession` has a request as a record that the server answers in one step and the tab receives in
another, in any order; the browser takes the cookie when an answer arrives, whatever the tab still
wants it for. A 401 of any request ends the session in the tab. Navigations are committed by the
router later than they are asked for. `renamed` marks the one case in which the person shown changes
without a sign-out: a repeated `/auth/me` answered for another login of the same browser.

`ConsoleQueries` lists, from the hooks, what each page reads, which of it a timer repeats, what each
mutation invalidates and what else it changes on the server. The cache itself (TanStack Query) is
external and modelled by what the hooks rely on: a fetch that is under way is not started again, an
invalidation cancels and repeats one that has data, a retry after the first failure.

`ScanForm` goes from the fields to the job: numbers around the ends of their ranges and NaN of an
emptied field, the schema, the request, `ApplyDefaults` and `Validate` of the server, the Agents that
get tasks. `EditDialogs` has a record for what the eight dialogs differ in: whether they ask before edits
are lost, and when and with what they fill the form. `TableView` and `RowActions` do the same for the
tables, `ServerPages` for the two lists. In all of them others change the rows and polls come at any moment.

`ConsolePages` puts the seven modules side by side, each an `INSTANCE` over the same eleven variables:
`part` says which of them a behaviour is of, and never changes, since the parts share no state. A run
and a proof thus speak of all pages, and the bounds of one do not multiply those of another.

## 3. What the runs check

| run | instance | shows |
|---|---|---|
| `scanjobs_rows` | 2 Agents, 1 target, 2 jobs, claim limit 1, 2 faults | the counters and the status shown for a job are those of its rows, whichever Agent reports last, and whatever the blacklist took out of its plan |
| `scanjobs_history` | 2 Agents, 2 targets, 1 job, claim limit 2, 1 fault, fairness | results exist for completed tasks only; a finished job is final; a running lease is honoured; a result is written once; the blacklist changes only with a counted result; the lifecycle is implemented; every job ends |
| `schedules_guard` | 2 schedules, 2 job ids, both loops, 1 request, 2 edits, 1 fault, fairness | a schedule has one open job at most and one loop at a time holds it, unless its guard was given up; an enabled one is dispatched again and again |
| `automation_sources` | 1 source, both loops, 1 request, 8 records, 2 edits, 2 faults, fairness | an executing synchronisation has its own open record; the claims of the loops do not overlap unless one ran out before its turn; an enabled source is claimed again and again, whatever records were left open |
| `automation_records` | 1 source, both loops, 4 records, 1 fault, fairness | *violation*: a record left open is not closed by time (section 4) |
| `users_accounts` | 2 accounts, 2 Centers, 2 requests | an enabled administrator remains; sessions end with what they were granted on; an empty table gets one administrator; the registry is implemented |
| `enrollment_tables` | 2 hosts, 2 enrollments, 3 credentials, 2 names, fairness | one Agent and credential per enrollment; a saved identity authenticates and is on one host; a repeated claim is accepted; a dead token stays dead; the pairing is implemented; a waiting process learns what was decided and committed for it |
| `league_tiers` | 2 prefixes, budget 4, 1 fault, fairness | no result counts twice against a prefix; the observation tier gets its turn beside a champion that is always due |
| `league_starves` | the same, budget 3, no fault, fairness | *violation*: the observation tier starves (section 4) |
| `session_data` | 2 accounts (1 administrator), 2 tokens, 2 requests under way, 1 fault, 1 change, fairness | the cache is empty after a sign-out and holds the data of the person shown; a dead session is noticed on every page that polls |
| `queries_data` | 3 queries, each under all mutations that concern it; 2 writes, 2 pending mutations, 2 faults, fairness | what others changed appears on pages that poll, whatever failed or overlapped |
| `console_pages` | the seven modules of `ConsolePages`: 2 rows, 2 texts of which 1 is entered, 2 edits, 3 clicks, 1 change by others; 4 rows in tables; 2 queries with 2 writes, 2 pending mutations and 1 fault | what a form lets through is kept; entered text goes only by a save, the person or its changed row; the last save and the last click win; a switch keeps what others saved unless it could not know of it; pages cover the rows; places of the cascade have results; the reader keeps the place; a settled page shows what this tab changed |

*Types.* `TypeOK` of every component is proved (`TypeCorrect`, and `PagesAreTyped` for the seven parts of
`ConsolePages`) and takes no part in the runs.

*Bounds.* In `ScanJobs`, `MaxJobs` bounds the jobs ever created, `MaxFaults` the timeouts, crashes and failed
calls; request numbers are bounded by the latter. Two targets and a claim limit of two make
batches that overlap in one target only, so that a batch is rejected although one of its tasks
is still leased. One fault is enough for a stale
request that is executed after its tasks were leased again; two allow two stale requests at once.
Two jobs (`scanjobs_rows`) are needed for a job planned around the blacklist of an earlier one, and
for a claim that reclaims leases in one job and takes tasks from another.

For schedules and sources, `MaxEdits` and `MaxFaults` bound what administrators and failures do,
not what the loops do: two of either bring every pair of edit, fault and claim about, and the
loops run for ever. Two schedules are needed for one that waits while a loop is
busy with the other; a third loop does not exist. With one source the loops meet at the same row;
that claims of several sources do not overlap either is proved. The records of an automation are as
many as can be open at once plus those the faults can leave open, so that none is missing. Two hosts
and two enrollments suffice for two machines with one token and for one machine with two enrollments;
the third credential lets a host start afresh while another is under way. Two
administrators, each of whom can be the last one, are the case the lock is for.

In `League` two prefixes are one champion that is always due beside one prefix of the observation tier;
`MaxArrivals` of two is the number of bad windows that moves a prefix. No more prefixes than
hours between observation scans: with one place for the tier in an hour, more could not all be
served by any plan. Four is the least budget that reaches past three champions; with challengers due as
well it takes six, which `ObservationHasShare` shows to be enough for any number of prefixes.

In the console two requests under way let one answer overtake another; two rows let a dialog be opened
for another one while an answer is out; with one text entered, two requests for a row carry different
ones when the page is left and the dialog opened again meanwhile, as the cached row is still the old one;
three clicks are two for one row and one between. Four rows
make four pages of the smallest size, which is below the initial one, as 10 is below 20. The three
queries are one that no timer repeats (`users`), one that some of its pages repeat (`agents`) and one
that two mutations share (`official`); queries do not influence each other but through mutations.
`console_pages` has the first two with one fault, where an older answer, an invalidation and a newer answer
already meet; a failure with its retry and a second one are left to `queries_data`.

*Fairness* (`FairSpec`, `LiveSpec`). In `ScanJobs`, Agents keep polling (the ticker of `runAgentLoop`), finish their probes
(bounded attempts and timeouts), and are restarted when they die (container or service
restart); the Center ends every call it received; leases run out. Strong fairness of a claim
says that an Agent does not find its jobs locked at every poll, a lock being held for one
transaction. Nothing is assumed of administrators, and faults are finite in number.
`JobsFinish` needs the restart: a job whose Agent never returns stays running for ever, because
only a claim by that Agent makes its expired leases pending again.

In `Schedules` and `Automation` the ticker does not find a due row locked at every round (strong
fairness of its claim, per schedule or source, because runs by hand and open jobs disable it from
time to time), every call ends within its timeouts, time passes, jobs end, and a stopped Center
is started again; nothing is assumed of the startup goroutine's claim, of administrators or of
faults. In `Enrollment` a waiting process repeats its claim and some claim is answered; nothing is
assumed of administrators, expiry or crashes. In `League` the hours pass and the schedule runs in
each of them (a scan schedule, section 2.3); results and forced scans may never come. In the console,
requests are answered (fetch ends with an answer or an error), renders and transitions end, and the
timers of a page on the screen fire; strong fairness of a poll in `ConsoleSession` says that nobody
avoids the reading by walking from page to page, as each page reads when it is mounted. People
owe nothing.

The deadlock check is off in the runs of schedules, automation and pages only: with everything deleted
or disabled, or a viewer at a table that changes no more, nothing remains to be done.

## 4. Findings

`automation_records` (`RunsConverge`): `docs/architecture.md:222` says that run records abnormally
left running converge to failed after a timeout. In the code they are closed by one statement of
the schema, applied when a Center starts, for records that are 15 minutes old by then. The
shortest history has no restart: the context of a round (or the client of a request) ends during
a synchronisation, `FinishAutomationRun` is called with that same context and fails, and the
record stays running as long as the Center does. `SourceRunsAgain` shows that no source is held
back by it, since the guard of the claim looks back 15 minutes only.

`league_starves` (`ObservationServed`): `docs/architecture.md:178` says that targets are taken from the
tiers interleaved, about 3:2:1, so that the observation tier is not starved for ever. `PlanAgent` takes
them one by one, the three champions of a round first, and stops at `target_count`, which may be as
small as 1. With a budget of three and a champion, which is due every hour and wants six samples, no
plan reaches the observation tier; with challengers due as well the same happens up to a budget of
five.

Disagreements of code and documents that were met while modelling the console and that no run repeats
(paths of the console are below `src/web/src`):

| code | what it does | what is said |
|---|---|---|
| `features/auth/auth-routes.tsx:20` | a signed-in visitor of `/login` is sent to `/`; when that redirection is rendered after the login's own navigation it wins | `docs/agent-enrollment.md:47`: after the login the visitor returns to the approval page |
| `internal/scans/service.go:79` | a `max_packet_loss` of 0 is taken for a missing field and becomes 50 | `service.go:116` and `features/scans/schema.ts:15` allow 0 to 100 |
| `features/scans/schema.ts:7` | `target_count` is checked in every mode, also where its field is hidden | `schema.test.ts:22`: the per-prefix mode does not depend on it |
| `internal/store/postgres/league.go:48` | an Agent that was chosen gets tasks although it is offline by then | `scan-configuration-fields.tsx:128`: offline nodes get no tasks |
| `settings/components/blacklist-recheck-panel.tsx:57` and five other dialogs | close at once with unsaved changes | `docs/ui-component-guidelines.md:103`: they must ask |
| `settings/components/schedules-table.tsx:120` | shows its switch to a viewer, enabled | the same, line 94: writes a viewer may not do are not shown |
| `settings/components/schedules-table.tsx:123` | the switch sends the whole cached row and undoes what others saved since the last poll | the same, line 101: a switch is for turning on and off |
| `scans/components/scan-jobs-table.tsx:120` | "stop" of the job menu handles `onSelect`, which its menu item does not raise on a click | the same, line 111: stopping opens a question |
| `features/results/geo-facets.ts:50` | below a hidden choice without results a new choice has no effect | `README.zh-CN.md:231`: a choice narrows the levels below at once |
| `features/results/results-page.tsx:96` | the reset sets the state filter to "available" in the history too | the same guidelines, line 73: a reset clears all filters |
| `features/results/results-page.tsx:152` | a job that left the list stays in the query while the box shows "all" | the same, line 41: values that became invalid are cleared |

The properties of the runs are stated so that they hold of the code as it is: `SubmissionHonoured` leaves
out a loss of zero, `LastToggleWins` the cards (their switch stays enabled while a request is out),
`CascadeHasResults` choices below a hidden one. `SwitchesKeepEdits` lets the switch of a schedule take
back what others saved only while it was on its way, or where it was clicked on a page that did not
show their edit yet. `EditsAreKept` holds for all eight dialogs and at any time; it lets entered text
go when a save succeeds (also an earlier one, whose answer closes the dialog that has been opened
for another row since: `schedule-dialog.tsx:91`), when the person closes the dialog (without a question
where there is none, and while a save is on its way), and in the recheck panel and the approval page
when the row changes (`blacklist-recheck-panel.tsx:26`). `SessionsAreRevoked` leaves out the session
of a login that a reset or a disabling overtook (`auth/service.go:86`); there is no other exception.

## 5. What is proved

`ScanJobsProofs` proves, for every finite set of Agents and targets, every number of jobs and
faults and every claim limit, from `ScanJobsAssumption` alone:

| theorem | property |
|---|---|
| `TypeCorrect` | `TypeOK` and `BatchesWellFormed` |
| `RowsAgree` | `CountersMatchRows`, `StatusMatchesRows`, `ResultPerCompletedTask`; the last two also as `StatusAgrees` and `ResultsOfCompleted` |
| `FinishedForGood`, `ResultsStay`, `LeasesHold`, `BlacklistHolds` | `FinishedJobsAreFinal`, `ResultsAreWrittenOnce`, `LeaseIsHonoured`, `BlacklistFollowsResults` |
| `LifecycleImplemented` | `ImplementsLifecycle` |
| `LifecyclePromise` | `Promise` of `JobLifecycle`, from its specification |

The inductive invariant is `Typed /\ RowInv`. `Typed` is `TypeOK` with `BatchesWellFormed`: without
it an empty claim or an empty batch could set a job running or completed with nothing behind
it. `RowInv` is the conjunction of the three row invariants, none of which is inductive alone:
that the counters stay right needs the total to be the number of rows, that the status stays
right needs the results to exist exactly for the completed rows, and that a stop keeps results
needs the completed rows not to be cancelled. It is taken apart by job (`JobOK`), because a
transaction writes one job; one lemma per action shows that it is preserved. The action properties and
the refinement are then consequences of the invariant, step by step.

The other proofs hold, from the assumption each module states on its constants, for any number of
schedules, jobs, sources, requests, accounts, Centers, hosts, enrollments, credentials, prefixes, tokens, pages, edits and
faults:

| module | theorems | inductive invariant |
|---|---|---|
| `SchedulesProofs` | `TypeCorrect`; `GuardHolds` (`OneOpenJob`) | `TypeOK`, `Tidy` (a job is remembered only to be recorded, an item is worked on once), and `Guarded` for every schedule that is not loose: while a loop holds it, it is not due and has no open job but the one the loop has made; otherwise its open job is its last one |
| `AutomationProofs` | `TypeCorrect`; `RecordsStand` (`RunningSyncIsVisible`); `ClaimsAreSingle` (`ClaimedOnce`) | the three with `LeaseHolds`: a claimed source that waits is not due unless lapsed. A second claim meets the lease before the record is inserted and the record afterwards |
| `UsersProofs` | `TypeCorrect`; `AdministratorStays` (`AdminRemains`); `Revoked` (`SessionsAreRevoked`); `BootstrapOnce` (`OneBootstrap`); `RegistryImplemented` (`ImplementsRegistry`); `RegistryPromise` | types, `LockInv` (the lock has one holder), `LoginInv`, `Settled` (a request is served only once there is an administrator), and the two properties; for the refinement also `HeldInv` |
| `EnrollmentProofs` | `TypeCorrect`; `OneAgent`, `Identities`, `Retry`, `DeadTokens`; `PairingImplemented` (`ImplementsPairing`); `PairingPromise` | `TypeOK`, `TableInv` (the three tables agree), `UseInv` (who holds which token and credential); for the refinement also `NameInv` |
| `LeagueProofs` | `TypeCorrect`; `PenaltiesAreCounted` (`NoDoublePenalty`); `ObservationHasShare` | types, with `Counted`: the streak is at most the arrivals, and less than them (unless they are at their bound) while a result waits to be evaluated; a streak of two never stays. `ObservationHasShare` is a lemma about the plan: five targets at most come before the first of the observation tier |
| `ConsoleSessionProofs` | `TypeCorrect`; `NothingRemains` (`SignedOutHoldsNothing`); `OwnData` (`DataOfThePersonShown`) | cached data are those of the person shown because the live requests were sent with a session of that person, because the cookie is one, because a login is under way only while nobody is signed in |

*Refinements.* `LifecycleImplemented`, `RegistryImplemented` and `PairingImplemented` show that initial
states map to initial states and, in states of the inductive invariant, every step to an abstract step or a
stutter, with a lemma for every action that is not a stutter. What the invariants of the safety theorems do
not say is added where a step needs it. A registry's change requires that its account exists, which
the code looked at in an earlier statement: `HeldInv` says that the account a request has
checked is still there, because only the holder of the advisory lock deletes, and that a login carries a
password the account had, because passwords are only replaced by later ones. That a deletion leaves an
administrator is `LockInv`, that an update does is `Settled` after the step. Asking for an
enrollment gives it no name in the abstract; the code writes an empty one into the new row, so `NameInv`
says that there was none before. That an Agent has no other machine when an identity is saved follows from
`TableInv` (its credential is one) and `UseInv` (the saved credential is in no file yet).

What the abstract specifications promise is proved of them alone (`LifecyclePromise`, `RegistryPromise`,
`PairingPromise`), so that whoever uses a component need only read its abstract specification. By the
refinement it holds of the code's models too. `Promise` is inductive there with the types, and, in
`Pairing`, with the fact that the Agent of a claimed enrollment has a key; the last one also has `Lasting`,
that a decided enrollment, a key and a machine never change.

`ConsolePagesProofs` proves every property of the run `console_pages`, for any number of rows, texts,
places, filters, Agents, watched queries and page sizes and for any bounds, from
`ConsolePagesAssumption`, the conjunction of what the seven modules assume of their constants (a
placeholder is no row, bounds are numbers, a page has a positive size). The inductive invariant
`IInv` is, for the part shown, the `IInv` at the end of its module: a lemma per part says that it holds
initially, another that every step keeps it, and the theorems put the parts together.

| part | theorem | what the inductive invariant adds to the types, and why |
|---|---|---|
| all | `PagesAreTyped` (`TypeOK`) | page numbers and what the server counts stay within the list only because of the invariants below |
| `ScanForm` | `AcceptedAsEntered` (`SubmissionHonoured`) | `SentIsAccepted`: a request in flight has passed the schema, whatever was edited since; `AnswerIsOfRequest`: answer and job are of that request. Then the ranges of schema and server are compared field by field, with the server's defaults filled in (`FormAcceptedIsValid`) |
| `EditDialogs` | `LastSaveStays` (`LastSaveWins`), `EditsStay` (`EditsAreKept`) | `StartsBlank`: a dialog that is filled at its closing holds the defaults while closed, so that it may open without filling; `FollowsRow`: a panel that follows its row compares with the row as shown; `OwnForm`: the form is of the row the dialog is open for, a request of the row it goes to; `LastKept`: what was submitted last for an uncontested row is in its one unserved request, or saved; `TicksCounted` bounds the ticks of a row |
| `TableView` | `PagesShowAllRows` (`PagesCoverRows`, first half) | `PageInList`: a page that is not the first begins within the filtered list, also after a poll, a filter or another size. That the pages show all rows is a counting argument about the places of a sorted finite set (`TablePlaces`, `TablePageRows`) |
| `ServerPages` | the same (second half), `PlaceIsKept` (`ReaderKeepsPlace`) | `AnswersQuestion`: what is shown is the server's reply to a question that was asked; `WithinTotal`: the results are asked for from a row there may be. Arithmetic on page numbers is in lemmas of its own (`ListFirstRow`, `ListNormalized`, `ListSize`) |
| `RowActions` | `LastToggleStays` (`LastToggleWins`), `EditsSurviveSwitches` (`SwitchesKeepEdits`) | `OneToggle`: a table has one switch on its way; `LastKept`: a row nobody else changed is as it was switched last unless that request is unserved; `EditKept`: an unserved switch that sends all fields sends the text the row has, unless it is one that could not know of it |
| `ResultFilters` | `CascadeShowsResults` (`CascadeHasResults`) | the types suffice: what is shown is computed from the choice and the facets in every state. That a chain of choices that each have results has one together goes down the four levels (`CascadeLowest`, `CascadePlaces`) |
| `ConsoleQueries` | `OwnWritesAreShown`, `TabShowsItsWrites` (`OwnWritesShown`) | `OwnIsServed`: a tab never knows more than the server; `SettledIsNew`: of a query that was not overtaken an answer on its way is new enough, data that are not are marked, and no settled page shows marked data. `TabShowsItsWrites` is about `Spec` of `ConsoleQueries`, which the run `queries_data` strengthens by fairness |

Only model-checked: the liveness properties `JobsFinish`, `RunsAgain`, `SourceRunsAgain`,
`DecisionsAreLearnt`, `CommittedClaimIsLearnt`, `ObservationServed`, `DeadSessionIsNoticed` and
`EveryChangeAppears` (fairness is out of the prover's reach). Every invariant and every action property that a
passing run checks has a theorem.

## 6. Not modelled

- **Statements and row locks** of `ClaimTasks`, `SubmitResults`, `StopScanJob`: a transaction is one
  step of `ScanJobs`. That claims lock tasks before their job and the other two the other way round
  can make the database abort one of them, which is a failed call that did nothing. `Users` has the
  statements where locks decide the outcome.
- **Heartbeats** and the online view: claims and results do not depend on `last_seen_at`; it only
  chooses the Agents of a scan that names none, which the models leave open. While a backlog is worked
  off none is sent (`cmd/agent/main.go:89`).
- **Blacklist recheck** beyond its transaction: the check for a running recheck, the limit and the
  settings. No document promises that two requests at once create one recheck only.
- **Address sources**: downloads and the replacement of the active prefixes; two overlapping
  synchronisations, which `Automation` shows to exist, may leave the union active. The other models
  take any set of prefixes.
- **Rate limiters**: sliding windows in memory that no other component reads, with unit tests.
- **Target sampling**: hashes and arithmetic on addresses; what it returns is an input of the models.
- **Network probe**, **read-only queries** beyond the cutting of pages, charts and layout of the
  console, its generic controls (`components/ui`), **configuration**, wire types, deployment and
  release scripts: I/O, presentation, or nothing with a state.
