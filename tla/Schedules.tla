------------------------------ MODULE Schedules ------------------------------
(***************************************************************************)
(* Scan schedules: the rows of scan_schedules, the two dispatch loops of   *)
(* the Center that claim the due ones, create a job for each and record    *)
(* it, administrators who edit, delete or run them by hand, and restarts   *)
(* of the Center in between.                                               *)
(*                                                                         *)
(* Creating a job is one step here (ScanJobs has its life); all a schedule *)
(* reads of it is whether it is unfinished.  The run records that the      *)
(* loops write beside it are read by no step of a schedule.                *)
(***************************************************************************)
EXTENDS Integers, FiniteSets

CONSTANTS
    Schedules,   \* ids of scan_schedules
    Jobs,        \* ids for scan jobs: a finished one nobody refers to is reused
    Ticker,      \* the loop that dispatches every 30 s
    Startup,     \* the goroutine that dispatches once after a start
    Clerks,      \* requests of administrators to run a schedule now
    NoJob,       \* last_job_id IS NULL
    MaxEdits,    \* how often administrators change or run something (bound)
    MaxFaults    \* how many calls fail and how often the Center restarts (bound)

Loops   == {Ticker, Startup}
Workers == Loops \cup Clerks

ASSUME SchedulesAssumption ==
    /\ IsFiniteSet(Jobs) /\ NoJob \notin Jobs
    /\ Ticker # Startup
    /\ Loops \cap Clerks = {}
    /\ MaxEdits \in Nat
    /\ MaxFaults \in Nat

VARIABLES
    row,      \* "absent", then "enabled" or "disabled", then "deleted"
    next,     \* next_run_at: a planned time, the end of a dispatch lease, or past
    lastJob,  \* last_job_id
    jobOf,    \* the schedule a job was created for
    open,     \* jobs that are pending or running
    queue,    \* per loop, the schedules claimed and not yet worked on
    pc,       \* where a worker is: "idle", "create" or "record"
    item,     \* the schedule it works on
    made,     \* the job it has created
    started,  \* the startup goroutine has had its round
    loose,    \* schedules whose guard was lost (history, read by no step)
    edits, faults

jobVars    == <<jobOf, open>>
workerVars == <<queue, pc, item, made, started>>
vars == <<row, next, lastJob, jobOf, open, queue, pc, item, made, started, loose, edits, faults>>

TypeOK ==
    /\ row     \in [Schedules -> {"absent", "enabled", "disabled", "deleted"}]
    /\ next    \in [Schedules -> {"planned", "leased", "due"}]
    /\ lastJob \in [Schedules -> Jobs \cup {NoJob}]
    /\ jobOf   \in [Jobs -> Schedules]
    /\ open    \subseteq Jobs
    /\ queue   \in [Loops -> SUBSET Schedules]
    /\ pc      \in [Workers -> {"idle", "create", "record"}]
    /\ item    \in [Workers -> Schedules]
    /\ made    \in [Workers -> Jobs \cup {NoJob}]
    /\ started \in BOOLEAN
    /\ loose   \subseteq Schedules
    /\ edits \in Nat /\ faults \in Nat

Init ==
    /\ row     = [s \in Schedules |-> "absent"]
    /\ next    = [s \in Schedules |-> "planned"]
    /\ lastJob = [s \in Schedules |-> NoJob]
    /\ jobOf   \in {[j \in Jobs |-> s] : s \in Schedules}
    /\ open    = {}
    /\ queue   = [l \in Loops |-> {}]
    /\ pc      = [w \in Workers |-> "idle"]
    /\ item    \in {[w \in Workers |-> s] : s \in Schedules}
    /\ made    = [w \in Workers |-> NoJob]
    /\ started = FALSE
    /\ loose   = {}
    /\ edits = 0 /\ faults = 0

-----------------------------------------------------------------------------
(***************************************************************************)
(* Administrators.                                                         *)
(***************************************************************************)
Exists(s) == row[s] \in {"enabled", "disabled"}

\* Edits are counted; they are rare beside the rounds of the loops.
Edit == edits < MaxEdits /\ edits' = edits + 1

CreateScanSchedule(s, status) ==
    /\ Edit
    /\ row[s] = "absent"
    /\ row'  = [row EXCEPT ![s] = status]
    /\ UNCHANGED <<next, lastJob, jobVars, workerVars, loose, faults>>

\* The new next_run_at replaces whatever stands there, a lease included.
UpdateScanSchedule(s, status) ==
    /\ Edit
    /\ Exists(s)
    /\ row'  = [row EXCEPT ![s] = status]
    /\ next' = [next EXCEPT ![s] = "planned"]
    /\ UNCHANGED <<lastJob, jobVars, workerVars, loose, faults>>

DeleteScanSchedule(s) ==
    /\ Edit
    /\ Exists(s)
    /\ row' = [row EXCEPT ![s] = "deleted"]
    /\ UNCHANGED <<next, lastJob, jobVars, workerVars, loose, faults>>

\* A run by hand asks neither for the time nor for a job that is still open.
RunScheduleNow(q, s) ==
    /\ Edit
    /\ Exists(s)
    /\ pc[q] = "idle"
    /\ pc'    = [pc EXCEPT ![q] = "create"]
    /\ item'  = [item EXCEPT ![q] = s]
    /\ loose' = loose \cup {s}
    /\ UNCHANGED <<row, next, lastJob, jobVars, queue, made, started, faults>>

-----------------------------------------------------------------------------
(***************************************************************************)
(* The dispatch loops.                                                     *)
(***************************************************************************)

\* (mutant) The overlap guard is missing.
Claimable_NoGuard(s) == row[s] = "enabled" /\ next[s] = "due"

\* (mutant) The guard forgets the status of the last job.
Claimable_AnyJob(s) == row[s] = "enabled" /\ next[s] = "due" /\ lastJob[s] = NoJob

Claimable(s) == row[s] = "enabled" /\ next[s] = "due" /\ lastJob[s] \notin open

Busy(l) == queue[l] # {} \/ pc[l] # "idle"

\* What a loop has claimed and not yet recorded.
Held(l) == queue[l] \cup (IF pc[l] = "idle" THEN {} ELSE {item[l]})

\* One statement claims due schedules and moves them 5 minutes ahead.  Rows
\* that another statement has locked are passed over, so any of them may be.
ClaimDueScanSchedules(l, picked) ==
    /\ ~Busy(l)
    /\ l = Startup => ~started
    /\ picked # {} /\ \A s \in picked : Claimable(s)
    /\ next'    = [s \in Schedules |-> IF s \in picked THEN "leased" ELSE next[s]]
    /\ queue'   = [queue EXCEPT ![l] = picked]
    /\ started' = (started \/ l = Startup)
    /\ UNCHANGED <<row, lastJob, jobVars, pc, item, made, loose, edits, faults>>

\* The next claimed schedule; it is worked on as it was when claimed, even
\* if it has been changed, disabled or deleted since.  The branch for an expression without
\* a next time (runner.go:51) is never taken: every save has computed one from it.
StartRun(l, s) ==
    /\ pc[l] = "idle"
    /\ s \in queue[l]
    /\ queue' = [queue EXCEPT ![l] = queue[l] \ {s}]
    /\ pc'    = [pc EXCEPT ![l] = "create"]
    /\ item'  = [item EXCEPT ![l] = s]
    /\ UNCHANGED <<row, next, lastJob, jobVars, made, started, loose, edits, faults>>

\* Without its run record the schedule is left to its lease.
StartRunFails(l, s) ==
    /\ faults < MaxFaults
    /\ pc[l] = "idle"
    /\ s \in queue[l]
    /\ queue'  = [queue EXCEPT ![l] = queue[l] \ {s}]
    /\ faults' = faults + 1
    /\ UNCHANGED <<row, next, lastJob, jobVars, pc, item, made, started, loose, edits>>

-----------------------------------------------------------------------------
(***************************************************************************)
(* Creating and recording the job, by a loop or for a request.             *)
(***************************************************************************)
Free == {j \in Jobs : /\ j \notin open
                      /\ \A s \in Schedules : lastJob[s] # j
                      /\ \A w \in Workers : made[w] # j}

NewJob(w, j) ==
    /\ pc[w] = "create"
    /\ j \in Free
    /\ open'  = open \cup {j}
    /\ jobOf' = [jobOf EXCEPT ![j] = item[w]]
    /\ pc'    = [pc EXCEPT ![w] = "record"]

CreateJob(w, j) ==
    /\ NewJob(w, j)
    /\ made' = [made EXCEPT ![w] = j]
    /\ UNCHANGED <<row, next, lastJob, queue, item, started, loose, edits, faults>>

\* No Agent, no target, no league prefix due: no job, to be recorded as such.
CreateNothing(w) ==
    /\ pc[w] = "create"
    /\ pc' = [pc EXCEPT ![w] = "record"]
    /\ UNCHANGED <<row, next, lastJob, jobVars, queue, item, made, started, loose, edits, faults>>

\* The job is committed, but the loop is told otherwise (its 5 minutes end, or
\* the connection does).
CreateUnnoticed(w, j) ==
    /\ faults < MaxFaults
    /\ NewJob(w, j)
    /\ loose'  = loose \cup {item[w]}
    /\ faults' = faults + 1
    /\ UNCHANGED <<row, next, lastJob, queue, item, made, started, edits>>

Done(w) ==
    /\ pc'   = [pc EXCEPT ![w] = "idle"]
    /\ made' = [made EXCEPT ![w] = NoJob]

\* The result of the run replaces last_job_id, with NULL if there is no job.  A
\* loop also writes the next time, of the cron expression it read when it
\* claimed; that time may have passed.  A deleted row takes nothing.
RecordScanScheduleRun(w, time) ==
    LET s == item[w]
    IN  /\ pc[w] = "record"
        /\ lastJob' = IF Exists(s) THEN [lastJob EXCEPT ![s] = made[w]] ELSE lastJob
        /\ next' = IF Exists(s) /\ w \in Loops THEN [next EXCEPT ![s] = time] ELSE next
        /\ Done(w)
        /\ UNCHANGED <<row, jobVars, queue, item, started, loose, edits, faults>>

Unrecorded(ws) == {item[w] : w \in {v \in ws : made[v] # NoJob}}

\* The round's 6 minutes are over, the client has gone, or the call fails.
RecordFails(w) ==
    /\ faults < MaxFaults
    /\ pc[w] = "record"
    /\ Done(w)
    /\ loose'  = loose \cup Unrecorded({w})
    /\ faults' = faults + 1
    /\ UNCHANGED <<row, next, lastJob, jobVars, queue, item, started, edits>>

\* The Center stops and starts again; what its loops held is gone.
RestartCenter ==
    /\ faults < MaxFaults
    /\ queue'   = [l \in Loops |-> {}]
    /\ pc'      = [w \in Workers |-> "idle"]
    /\ made'    = [w \in Workers |-> NoJob]
    /\ started' = FALSE
    /\ loose'   = loose \cup Unrecorded(Workers)
    /\ faults'  = faults + 1
    /\ UNCHANGED <<row, next, lastJob, jobVars, item, edits>>

-----------------------------------------------------------------------------
FinishJob(j) ==
    /\ j \in open
    /\ open' = open \ {j}
    /\ UNCHANGED <<row, next, lastJob, jobOf, workerVars, loose, edits, faults>>

\* next_run_at is reached.  If a loop still holds the schedule its lease was
\* too short, or an edit had replaced it.
TimePasses(s) ==
    /\ Exists(s)
    /\ next[s] # "due"
    /\ next'  = [next EXCEPT ![s] = "due"]
    /\ loose' = IF \E l \in Loops : s \in Held(l) THEN loose \cup {s} ELSE loose
    /\ UNCHANGED <<row, lastJob, jobVars, workerVars, edits, faults>>

-----------------------------------------------------------------------------
Administer ==
    \/ \E s \in Schedules, status \in {"enabled", "disabled"} : CreateScanSchedule(s, status)
    \/ \E s \in Schedules, status \in {"enabled", "disabled"} : UpdateScanSchedule(s, status)
    \/ \E s \in Schedules : DeleteScanSchedule(s)
    \/ \E q \in Clerks, s \in Schedules : RunScheduleNow(q, s)

Dispatch(l) ==
    \/ \E picked \in SUBSET Schedules : ClaimDueScanSchedules(l, picked)
    \/ \E s \in Schedules : StartRun(l, s)

Run(w) ==
    \/ \E j \in Jobs : CreateJob(w, j)
    \/ CreateNothing(w)
    \/ \E time \in {"planned", "due"} : RecordScanScheduleRun(w, time)

Fail ==
    \/ \E l \in Loops, s \in Schedules : StartRunFails(l, s)
    \/ \E w \in Workers, j \in Jobs : CreateUnnoticed(w, j)
    \/ \E w \in Workers : RecordFails(w)
    \/ RestartCenter

Next ==
    \/ Administer
    \/ \E l \in Loops : Dispatch(l)
    \/ \E w \in Workers : Run(w)
    \/ Fail
    \/ \E j \in Jobs : FinishJob(j)
    \/ \E s \in Schedules : TimePasses(s)

Spec == Init /\ [][Next]_vars

-----------------------------------------------------------------------------
OpenJobs(s) == {j \in open : jobOf[j] = s}

\* The overlap guard works: a schedule has at most one open job, and both
\* loops never hold it at once, as long as it was not run by hand, no
\* dispatch outlasted its lease, and every job created for it was recorded.
OneOpenJob ==
    \A s \in Schedules \ loose :
        /\ \A i, j \in OpenJobs(s) : i = j
        /\ ~(s \in Held(Ticker) /\ s \in Held(Startup))

(***************************************************************************)
(* Liveness.  The ticker does not miss a due schedule at every round (a    *)
(* row is locked for a moment only: the strong fairness), a run ends       *)
(* within its timeouts, time passes, and jobs finish (ScanJobs).  Nothing  *)
(* is assumed of administrators, of the startup goroutine's claim, or of   *)
(* faults.                                                                 *)
(***************************************************************************)
Fairness ==
    /\ \A s \in Schedules :
           /\ SF_vars(\E picked \in SUBSET Schedules :
                          s \in picked /\ ClaimDueScanSchedules(Ticker, picked))
           /\ WF_vars(TimePasses(s))
    /\ \A l \in Loops : WF_vars(\E s \in Schedules : StartRun(l, s))
    /\ \A w \in Workers : WF_vars(Run(w))
    /\ \A j \in Jobs : WF_vars(FinishJob(j))

FairSpec == Spec /\ Fairness

\* An enabled schedule is dispatched again and again: failed runs, lost
\* records, restarts, edits and slow jobs delay it only.
RunsAgain ==
    \A s \in Schedules : <>[](row[s] = "enabled") => []<>(\E l \in Loops : s \in Held(l))
=============================================================================
