------------------------------ MODULE ScanJobs ------------------------------
(***************************************************************************)
(* Scan jobs, their task rows and leases, the results the Agents report    *)
(* and the per-Agent blacklist: the tables scan_jobs, scan_tasks,          *)
(* scan_results and blacklist_entries, each store transaction that writes  *)
(* them as one action, and the Agents that poll, probe and submit over     *)
(* HTTP.                                                                   *)
(*                                                                         *)
(* A transaction is atomic here; its statements and row locks are not      *)
(* visible.  Time is not a clock: a lease or a block that has run out is a *)
(* value of its own ("expired", "retry"), and the step into it may happen  *)
(* at any moment.                                                          *)
(***************************************************************************)
EXTENDS Integers, FiniteSets

CONSTANTS
    Agents,      \* registered Agents
    IPs,         \* target addresses
    MaxJobs,     \* how many jobs are ever created (bound)
    ClaimLimit,  \* Agent concurrency, the `limit` of a claim request
    MaxFaults    \* how many timeouts, lost calls and Agent crashes happen (bound)

ASSUME ScanJobsAssumption ==
    /\ IsFiniteSet(Agents)
    /\ IsFiniteSet(IPs)
    /\ MaxJobs \in Nat
    /\ ClaimLimit \in Nat \ {0}
    /\ MaxFaults \in Nat

(***************************************************************************)
(* A slot is what UNIQUE (job_id, preferred_agent_id, target_ip) leaves    *)
(* free inside a job.  Jobs are numbered in created_at order.              *)
(***************************************************************************)
Jobs  == 1 .. MaxJobs
Slots == Agents \X IPs

Unfinished == {"pending", "running"}
Finished   == {"completed", "stopped"}
JobStatus  == {"none"} \cup Unfinished \cup Finished

\* status = 'leased' is split on lease_until: "leased" while the lease runs,
\* "expired" once lease_until < NOW().
Leased     == {"leased", "expired"}
TaskStatus == {"none", "pending", "completed", "cancelled"} \cup Leased

\* What a result row says against the job's thresholds.
Verdict  == {"ok", "bad"}

\* No row, a row with retry_after > NOW(), a row whose retry_after has passed.
Block    == {"none", "blocked", "retry"}

\* A batch in an Agent's memory: one job, some of the Agent's targets.
NoBatch  == [job |-> 0, ips |-> {}]

VARIABLES
    jobStatus,   \* scan_jobs.status, "none" before the row exists
    jobTotal,    \* scan_jobs.total_targets
    jobCounts,   \* scan_jobs.completed_targets, success_targets, failed_targets
    task,        \* scan_tasks.status and lease_until, per job and slot
    result,      \* scan_results, per job and slot
    blacklist,   \* blacklist_entries, per slot
    agent,       \* what each Agent process is doing
    batch,       \* the batch an Agent is probing
    claims,      \* claim requests on their way to, or inside, the Center
    submits,     \* result requests on their way to, or inside, the Center
    faults       \* faults so far

dbVars  == <<jobStatus, jobTotal, jobCounts, task, result, blacklist>>
netVars == <<agent, batch, claims, submits>>
vars    == <<jobStatus, jobTotal, jobCounts, task, result, blacklist,
             agent, batch, claims, submits, faults>>

-----------------------------------------------------------------------------
(***************************************************************************)
(* Rows of a job.  tk and rs are values of `task` and `result`, so that    *)
(* the same counts are taken before and after a step.                      *)
(***************************************************************************)
Rows(tk, j)          == {s \in Slots : tk[j][s] # "none"}
Completed(tk, j)     == {s \in Slots : tk[j][s] = "completed"}
Judged(tk, rs, j, v) == {s \in Completed(tk, j) : rs[j][s] = v}

Counts(tk, rs, j) ==
    [completed |-> Cardinality(Completed(tk, j)),
     success   |-> Cardinality(Judged(tk, rs, j, "ok")),
     failed    |-> Cardinality(Judged(tk, rs, j, "bad"))]

NoCounts == [completed |-> 0, success |-> 0, failed |-> 0]

TypeOK ==
    /\ jobStatus \in [Jobs -> JobStatus]
    /\ jobTotal  \in [Jobs -> Nat]
    /\ jobCounts \in [Jobs -> [completed : Nat, success : Nat, failed : Nat]]
    /\ task      \in [Jobs -> [Slots -> TaskStatus]]
    /\ result    \in [Jobs -> [Slots -> {"none"} \cup Verdict]]
    /\ blacklist \in [Slots -> Block]
    /\ agent     \in [Agents -> {"down", "idle", "waiting", "probing"}]
    /\ batch     \in [Agents -> [job : 0 .. MaxJobs, ips : SUBSET IPs]]
    /\ claims    \subseteq [agent : Agents, lost : Nat]
    /\ submits   \subseteq [agent : Agents, lost : Nat, job : Jobs,
                            ips : SUBSET IPs, good : SUBSET IPs]
    /\ faults    \in Nat

Init ==
    /\ jobStatus = [j \in Jobs |-> "none"]
    /\ jobTotal  = [j \in Jobs |-> 0]
    /\ jobCounts = [j \in Jobs |-> NoCounts]
    /\ task      = [j \in Jobs |-> [s \in Slots |-> "none"]]
    /\ result    = [j \in Jobs |-> [s \in Slots |-> "none"]]
    /\ blacklist = [s \in Slots |-> "none"]
    /\ agent     = [a \in Agents |-> "idle"]
    /\ batch     = [a \in Agents |-> NoBatch]
    /\ claims    = {}
    /\ submits   = {}
    /\ faults    = 0

-----------------------------------------------------------------------------
(***************************************************************************)
(* Administrators and schedulers.                                          *)
(***************************************************************************)

\* A new job with a pending row per slot; its total is the number of rows.
AddJob(j, slots) ==
    /\ jobStatus[j] = "none"
    /\ \A i \in Jobs : i < j => jobStatus[i] # "none"
    /\ slots # {}
    /\ jobStatus' = [jobStatus EXCEPT ![j] = "pending"]
    /\ jobTotal'  = [jobTotal EXCEPT ![j] = Cardinality(slots)]
    /\ task' = [task EXCEPT ![j] = [s \in Slots |-> IF s \in slots THEN "pending" ELSE "none"]]
    /\ UNCHANGED <<jobCounts, result, netVars, faults>>

\* The targets of a plan for which CreateScanJob inserts a row.
Insertable(plan, includeBlocked) ==
    {s \in plan : includeBlocked \/ blacklist[s] # "blocked"}

\* (mutant) total_targets is the size of the plan, blocked targets included.
CreateScanJob_TotalOfPlan(j, plan, includeBlocked) ==
    /\ jobStatus[j] = "none"
    /\ \A i \in Jobs : i < j => jobStatus[i] # "none"
    /\ Insertable(plan, includeBlocked) # {}
    /\ jobStatus' = [jobStatus EXCEPT ![j] = "pending"]
    /\ jobTotal'  = [jobTotal EXCEPT ![j] = Cardinality(plan)]
    /\ task' = [task EXCEPT ![j] = [s \in Slots |->
                    IF s \in Insertable(plan, includeBlocked) THEN "pending" ELSE "none"]]
    /\ UNCHANGED <<jobCounts, result, blacklist, netVars, faults>>

\* One transaction inserts the job and a row for every target that is not
\* blocked; with no row left it rolls back, so such a plan is no step at all.
CreateScanJob(j, plan, includeBlocked) ==
    /\ AddJob(j, Insertable(plan, includeBlocked))
    /\ UNCHANGED blacklist

\* An earlier query found the target on the Agent's blacklist; a result may
\* have removed it since.
WasListed(a, ip) == \E i \in Jobs : result[i][<<a, ip>>] = "bad"

\* The recheck job of one Agent: its own transaction inserts the job with all
\* its targets, blocked or not, and puts the next retry of each entry off.
CreateBlacklistRecheck(j, a, ips) ==
    /\ \A ip \in ips : WasListed(a, ip)
    /\ AddJob(j, {a} \X ips)
    /\ blacklist' = [s \in Slots |-> IF s \in {a} \X ips /\ blacklist[s] # "none"
                                     THEN "blocked" ELSE blacklist[s]]

\* The statuses of the rows a stop cancels: never those already completed.
Cancellable == {"pending"} \cup Leased

\* (mutant) The stop forgets its status filter.
Cancelled_EveryRow(rows) == [s \in Slots |-> IF rows[s] # "none" THEN "cancelled" ELSE rows[s]]

\* (mutant) The stop leaves the leases of the Agents alone.
Cancelled_PendingOnly(rows) == [s \in Slots |-> IF rows[s] = "pending" THEN "cancelled" ELSE rows[s]]

Cancelled(rows) == [s \in Slots |-> IF rows[s] \in Cancellable THEN "cancelled" ELSE rows[s]]

StopScanJob(j) ==
    /\ jobStatus[j] \in Unfinished
    /\ task'      = [task EXCEPT ![j] = Cancelled(task[j])]
    /\ jobStatus' = [jobStatus EXCEPT ![j] = "stopped"]
    /\ UNCHANGED <<jobTotal, jobCounts, result, blacklist, netVars, faults>>

-----------------------------------------------------------------------------
(***************************************************************************)
(* The Center answers a claim.                                             *)
(***************************************************************************)

\* (mutant) A claim reclaims leases that are still running.
Reclaimed_Running(a) ==
    [j \in Jobs |-> [s \in Slots |->
        IF s[1] = a /\ task[j][s] \in Leased THEN "pending" ELSE task[j][s]]]

\* (mutant) Nothing makes an expired lease pending again.
Reclaimed_Never(a) == task

\* The first statement of ClaimTasks: the caller's own expired leases, in
\* every job, become pending again.
Reclaimed(a) ==
    [j \in Jobs |-> [s \in Slots |->
        IF s[1] = a /\ task[j][s] = "expired" THEN "pending" ELSE task[j][s]]]

PendingIPs(tk, j, a) == {ip \in IPs : tk[j][<<a, ip>>] = "pending"}

Claimable(tk, a) ==
    {j \in Jobs : jobStatus[j] \in Unfinished /\ PendingIPs(tk, j, a) # {}}

\* Job rows that another call being executed may have locked: SKIP LOCKED
\* passes over them.  (A stop that holds a job ends it, and need not be here.)
MayBeHeld(r) == {q.job : q \in submits} \cup (IF claims = {r} THEN {} ELSE Jobs)

\* ORDER BY created_at LIMIT 1 FOR UPDATE SKIP LOCKED.
IsOldest(j, js, held) == j \in js /\ \A i \in js : i < j => i \in held

\* LIMIT: as many rows as there are, at most ClaimLimit.  Which of them is
\* left open, because task ids follow the order of the plan.  SKIP LOCKED skips
\* none of them: the job row is locked by now, whoever ends tasks locks it
\* first, and another claim gives back only rows that were still leased.
IsPicked(ips, pending) ==
    /\ ips \subseteq pending
    /\ Cardinality(ips) =
           IF Cardinality(pending) < ClaimLimit THEN Cardinality(pending) ELSE ClaimLimit

\* A request counts the fault that made its Agent give it up, 0 while the
\* Agent waits: two abandoned requests stay apart.
Awaited(r) == r.lost = 0

\* An Agent that is still waiting for this answer goes on; an answer nobody
\* waits for changes nothing.
Answer(r, next) ==
    agent' = IF Awaited(r) THEN [agent EXCEPT ![r.agent] = next] ELSE agent

\* Nothing claimable that is not locked: the transaction is rolled back, the
\* reclaim with it.
ClaimNothing(r) ==
    /\ r \in claims
    /\ Claimable(Reclaimed(r.agent), r.agent) \subseteq MayBeHeld(r)
    /\ claims' = claims \ {r}
    /\ Answer(r, "idle")
    /\ UNCHANGED <<dbVars, batch, submits, faults>>

\* (mutant) The claim forgets to mark the job as running.
ClaimTasks_StatusKept(r, j, ips) ==
    LET a  == r.agent
        tk == Reclaimed(a)
    IN  /\ r \in claims
        /\ IsOldest(j, Claimable(tk, a), MayBeHeld(r))
        /\ IsPicked(ips, PendingIPs(tk, j, a))
        /\ task' = [tk EXCEPT ![j] =
                       [s \in Slots |-> IF s[1] = a /\ s[2] \in ips THEN "leased" ELSE tk[j][s]]]
        /\ claims' = claims \ {r}
        /\ Answer(r, "probing")
        /\ batch' = IF Awaited(r) THEN [batch EXCEPT ![a] = [job |-> j, ips |-> ips]] ELSE batch
        /\ UNCHANGED <<jobStatus, jobTotal, jobCounts, result, blacklist, submits, faults>>

ClaimTasks(r, j, ips) ==
    LET a  == r.agent
        tk == Reclaimed(a)
    IN  /\ r \in claims
        /\ IsOldest(j, Claimable(tk, a), MayBeHeld(r))
        /\ IsPicked(ips, PendingIPs(tk, j, a))
        /\ task' = [tk EXCEPT ![j] =
                       [s \in Slots |-> IF s[1] = a /\ s[2] \in ips THEN "leased" ELSE tk[j][s]]]
        /\ jobStatus' = [jobStatus EXCEPT ![j] = "running"]
        /\ claims' = claims \ {r}
        /\ Answer(r, "probing")
        /\ batch' = IF Awaited(r) THEN [batch EXCEPT ![a] = [job |-> j, ips |-> ips]] ELSE batch
        /\ UNCHANGED <<jobTotal, jobCounts, result, blacklist, submits, faults>>

-----------------------------------------------------------------------------
(***************************************************************************)
(* The Center answers a result request.                                    *)
(***************************************************************************)
Reported(r)     == {s \in Slots : s[1] = r.agent /\ s[2] \in r.ips}
VerdictOf(r, s) == IF s[2] \in r.good THEN "ok" ELSE "bad"

\* A stopped job swallows its late results: the request succeeds and nothing
\* is written.
Swallowed(r) == jobStatus[r.job] = "stopped"

\* (mutant) Any row of the Agent in the job will do, leased or not.
AllLeased_RowExists(r) == \A s \in Reported(r) : task[r.job][s] # "none"

\* Every reported task must still be leased (whether or not the lease has
\* run out); one that is not makes the whole transaction roll back.
AllLeased(r) == \A s \in Reported(r) : task[r.job][s] \in Leased

\* (mutant) Late results of a stopped job still reach the blacklist.
IgnoreLateResults_Blacklists(r) ==
    /\ r \in submits
    /\ Swallowed(r)
    /\ blacklist' = [s \in Slots |->
                       IF s \notin Reported(r) THEN blacklist[s]
                       ELSE IF VerdictOf(r, s) = "ok" THEN "none" ELSE "blocked"]
    /\ submits' = submits \ {r}
    /\ Answer(r, "idle")
    /\ UNCHANGED <<jobStatus, jobTotal, jobCounts, task, result, batch, claims, faults>>

IgnoreLateResults(r) ==
    /\ r \in submits
    /\ Swallowed(r)
    /\ submits' = submits \ {r}
    /\ Answer(r, "idle")
    /\ UNCHANGED <<dbVars, batch, claims, faults>>

RejectResults(r) ==
    /\ r \in submits
    /\ ~Swallowed(r)
    /\ ~AllLeased(r)
    /\ submits' = submits \ {r}
    /\ Answer(r, "idle")
    /\ UNCHANGED <<dbVars, batch, claims, faults>>

\* (mutant) Completion is tested with > instead of >=.
StatusAfter_Strict(tk, j) ==
    IF Cardinality(Completed(tk, j)) > jobTotal[j] THEN "completed" ELSE "running"

\* Progress of the job once tk and rs are its rows and results.
StatusAfter(tk, j) ==
    IF Cardinality(Completed(tk, j)) >= jobTotal[j] THEN "completed" ELSE "running"

SubmitResults(r) ==
    LET j == r.job
    IN  /\ r \in submits
        /\ ~Swallowed(r)
        /\ AllLeased(r)
        /\ task' = [task EXCEPT ![j] =
                       [s \in Slots |-> IF s \in Reported(r) THEN "completed" ELSE task[j][s]]]
        /\ result' = [result EXCEPT ![j] =
                       [s \in Slots |-> IF s \in Reported(r) THEN VerdictOf(r, s) ELSE result[j][s]]]
        /\ blacklist' = [s \in Slots |->
                       IF s \notin Reported(r) THEN blacklist[s]
                       ELSE IF VerdictOf(r, s) = "ok" THEN "none" ELSE "blocked"]
        /\ jobCounts' = [jobCounts EXCEPT ![j] = Counts(task', result', j)]
        /\ jobStatus' = [jobStatus EXCEPT ![j] = StatusAfter(task', j)]
        /\ submits' = submits \ {r}
        /\ Answer(r, "idle")
        /\ UNCHANGED <<jobTotal, batch, claims, faults>>

-----------------------------------------------------------------------------
(***************************************************************************)
(* Agents.  An Agent has one call outstanding at a time and never repeats  *)
(* a result request: whatever the answer, it goes back to claiming.        *)
(***************************************************************************)
SendClaim(a) ==
    /\ agent[a] = "idle"
    /\ agent'  = [agent EXCEPT ![a] = "waiting"]
    /\ claims' = claims \cup {[agent |-> a, lost |-> 0]}
    /\ UNCHANGED <<dbVars, batch, submits, faults>>

SendResults(a, good) ==
    /\ agent[a] = "probing"
    /\ good \subseteq batch[a].ips
    /\ agent'   = [agent EXCEPT ![a] = "waiting"]
    /\ batch'   = [batch EXCEPT ![a] = NoBatch]
    /\ submits' = submits \cup {[agent |-> a, lost |-> 0, job |-> batch[a].job,
                                 ips |-> batch[a].ips, good |-> good]}
    /\ UNCHANGED <<dbVars, claims, faults>>

\* Requests nobody waits for any more; the Center may still be executing them.
Abandon(requests, a) ==
    {IF r.agent = a /\ Awaited(r) THEN [r EXCEPT !.lost = faults + 1] ELSE r : r \in requests}

\* The HTTP client gives up after 45 s.
ClientTimeout(a) ==
    /\ faults < MaxFaults
    /\ agent[a] = "waiting"
    /\ agent'   = [agent EXCEPT ![a] = "idle"]
    /\ claims'  = Abandon(claims, a)
    /\ submits' = Abandon(submits, a)
    /\ faults'  = faults + 1
    /\ UNCHANGED <<dbVars, batch>>

\* The process dies; what it held in memory is lost.
AgentCrash(a) ==
    /\ faults < MaxFaults
    /\ agent[a] # "down"
    /\ agent'   = [agent EXCEPT ![a] = "down"]
    /\ batch'   = [batch EXCEPT ![a] = NoBatch]
    /\ claims'  = Abandon(claims, a)
    /\ submits' = Abandon(submits, a)
    /\ faults'  = faults + 1
    /\ UNCHANGED dbVars

AgentRestart(a) ==
    /\ agent[a] = "down"
    /\ agent' = [agent EXCEPT ![a] = "idle"]
    /\ UNCHANGED <<dbVars, batch, claims, submits, faults>>

\* The call fails before anything is committed (network, restart of the
\* Center, a transaction the database aborts): an error if anyone waits.
CallFails(r) ==
    /\ faults < MaxFaults
    /\ r \in claims \cup submits
    /\ claims'  = claims \ {r}
    /\ submits' = submits \ {r}
    /\ Answer(r, "idle")
    /\ faults'  = faults + 1
    /\ UNCHANGED <<dbVars, batch>>

-----------------------------------------------------------------------------
(***************************************************************************)
(* Time.                                                                   *)
(***************************************************************************)
LeaseExpires(j, s) ==
    /\ task[j][s] = "leased"
    /\ task' = [task EXCEPT ![j][s] = "expired"]
    /\ UNCHANGED <<jobStatus, jobTotal, jobCounts, result, blacklist, netVars, faults>>

BlockExpires(s) ==
    /\ blacklist[s] = "blocked"
    /\ blacklist' = [blacklist EXCEPT ![s] = "retry"]
    /\ UNCHANGED <<jobStatus, jobTotal, jobCounts, task, result, netVars, faults>>

-----------------------------------------------------------------------------
Manage ==
    \/ \E j \in Jobs, plan \in SUBSET Slots, include \in BOOLEAN :
           CreateScanJob(j, plan, include)
    \/ \E j \in Jobs, a \in Agents, ips \in SUBSET IPs : CreateBlacklistRecheck(j, a, ips)
    \/ \E j \in Jobs : StopScanJob(j)

Serve ==
    \/ \E r \in claims : ClaimNothing(r)
    \/ \E r \in claims, j \in Jobs, ips \in SUBSET IPs : ClaimTasks(r, j, ips)
    \/ \E r \in submits : IgnoreLateResults(r)
    \/ \E r \in submits : RejectResults(r)
    \/ \E r \in submits : SubmitResults(r)

Work ==
    \/ \E a \in Agents : SendClaim(a)
    \/ \E a \in Agents, good \in SUBSET IPs : SendResults(a, good)
    \/ \E a \in Agents : AgentRestart(a)

Fail ==
    \/ \E a \in Agents : ClientTimeout(a)
    \/ \E a \in Agents : AgentCrash(a)
    \/ \E r \in claims \cup submits : CallFails(r)

Time ==
    \/ \E j \in Jobs, s \in Slots : LeaseExpires(j, s)
    \/ \E s \in Slots : BlockExpires(s)

Next == Manage \/ Serve \/ Work \/ Fail \/ Time

Spec == Init /\ [][Next]_vars

-----------------------------------------------------------------------------
(***************************************************************************)
(* Safety: what the rows of a job say about each other, in every state an  *)
(* operator can look at.                                                   *)
(***************************************************************************)

\* The three counters and the total shown for a job are the numbers of its
\* task rows in the state they name, although only SubmitResults recounts
\* them and three other transactions change the rows.
CountersMatchRows ==
    \A j \in Jobs : /\ jobTotal[j]  = Cardinality(Rows(task, j))
                    /\ jobCounts[j] = Counts(task, result, j)

\* A job is completed exactly when it has rows and every one of them is
\* completed; it is unfinished exactly when some row can still be claimed or
\* reported; a pending job has handed nothing out.
StatusMatchesRows ==
    \A j \in Jobs :
        LET rows == Rows(task, j)
            open == {s \in rows : task[j][s] \in Cancellable}
        IN  /\ jobStatus[j] = "none" <=> rows = {}
            /\ jobStatus[j] = "completed" <=> rows # {} /\ Completed(task, j) = rows
            /\ jobStatus[j] \in Unfinished <=> open # {}
            /\ jobStatus[j] = "pending" => \A s \in rows : task[j][s] = "pending"
            /\ jobStatus[j] # "stopped" => \A s \in rows : task[j][s] # "cancelled"

\* A result is stored for the completed tasks and for no other: a cancelled
\* or rolled back task leaves none behind, a completed one is never without.
ResultPerCompletedTask ==
    \A j \in Jobs, s \in Slots : result[j][s] # "none" <=> task[j][s] = "completed"

\* An Agent that probes holds a batch of some job, and no result request is
\* empty (the API would refuse it).
BatchesWellFormed ==
    /\ \A a \in Agents : agent[a] = "probing" => batch[a].job \in Jobs /\ batch[a].ips # {}
    /\ \A r \in submits : r.ips # {}

\* A finished job is final: no late result, lost answer or expired lease
\* changes its status, counters, rows or results, and it is never claimed.
FinishedJobsAreFinal ==
    [][\A j \in Jobs : jobStatus[j] \in Finished =>
           UNCHANGED <<jobStatus[j], jobTotal[j], jobCounts[j], task[j], result[j]>>]_vars

\* A lease that is still running is honoured: its task is not made pending
\* nor handed out a second time; only time, a result or a stop ends it.
LeaseIsHonoured ==
    [][/\ \A j \in Jobs, s \in Slots :
              task[j][s] = "leased" => task'[j][s] \in {"leased", "expired", "completed", "cancelled"}
       /\ \A a \in Agents : batch'[a] \notin {batch[a], NoBatch} =>
              \A ip \in batch'[a].ips : /\ task[batch'[a].job][<<a, ip>>] \in {"pending", "expired"}
                                       /\ task'[batch'[a].job][<<a, ip>>] = "leased"]_vars

\* A stored result is never replaced, whatever stale request arrives later
\* (the upsert of SubmitResults could do it).
ResultsAreWrittenOnce ==
    [][\A j \in Jobs, s \in Slots : result[j][s] # "none" => result'[j][s] = result[j][s]]_vars

\* A block runs out, or is renewed by a recheck job that contains its target.
BlockTimed(s) ==
    \/ blacklist[s] = "blocked" /\ blacklist'[s] = "retry"
    \/ /\ blacklist[s] = "retry" /\ blacklist'[s] = "blocked"
       /\ \E j \in Jobs : task[j][s] = "none" /\ task'[j][s] = "pending"

\* The blacklist follows the results that count: apart from its times, an
\* entry comes, is blocked or goes only together with a task of that Agent and
\* target that becomes completed, and as its verdict says.  Rejected results
\* and those of a stopped job leave no trace.
BlacklistFollowsResults ==
    [][\A s \in Slots :
           \/ blacklist'[s] = blacklist[s]
           \/ BlockTimed(s)
           \/ \E j \in Jobs : /\ task[j][s] # "completed" /\ task'[j][s] = "completed"
                              /\ blacklist'[s] = IF result'[j][s] = "ok" THEN "none" ELSE "blocked"]_vars

-----------------------------------------------------------------------------
(***************************************************************************)
(* The lifecycle the Center promises, seen in the rows.                    *)
(***************************************************************************)
OpenSlots == [j \in Jobs |-> {s \in Slots : task[j][s] \in Cancellable}]
Recorded  == [j \in Jobs |-> {s \in Slots : result[j][s] # "none"}]
Listed    == {s \in Slots : blacklist[s] # "none"}

Lifecycle == INSTANCE JobLifecycle WITH state <- jobStatus, open <- OpenSlots,
                                        recorded <- Recorded, listed <- Listed

\* Every transaction is a step of the job lifecycle or invisible to it: a
\* batch is recorded as a whole or not at all, only open targets are, and a
\* job that is finished stays as it is, the blacklist included.
ImplementsLifecycle == Lifecycle!Spec

-----------------------------------------------------------------------------
(***************************************************************************)
(* Liveness.  Nothing is assumed of administrators and of faults, except   *)
(* that the faults end (MaxFaults).  The Agent's poll ticker makes it      *)
(* claim again and again, a dead Agent is restarted (the container and     *)
(* service installs restart it), a probe has bounded attempts and          *)
(* timeouts, the Center ends every call it receives, and clocks advance.   *)
(* Row locks are held for one transaction: an Agent does not find its jobs *)
(* locked by the others at every single poll (the strong fairness).        *)
(***************************************************************************)
\* The request of a that fault n parted from it, or that it waits for (n = 0).
Numbered(requests, a, n) == {r \in requests : r.agent = a /\ r.lost = n}

Claimed(a, n) ==
    \E r \in Numbered(claims, a, n), j \in Jobs, ips \in SUBSET IPs : ClaimTasks(r, j, ips)

Answered(a, n) ==
    \/ Claimed(a, n)
    \/ \E r \in Numbered(claims, a, n) : ClaimNothing(r)
    \/ \E r \in Numbered(submits, a, n) :
           IgnoreLateResults(r) \/ RejectResults(r) \/ SubmitResults(r)

Fairness ==
    /\ \A a \in Agents : /\ WF_vars(SendClaim(a))
                         /\ WF_vars(\E good \in SUBSET IPs : SendResults(a, good))
                         /\ WF_vars(AgentRestart(a))
                         /\ \A n \in 0 .. MaxFaults : WF_vars(Answered(a, n))
                         /\ SF_vars(Claimed(a, 0))
    /\ \A j \in Jobs, s \in Slots : WF_vars(LeaseExpires(j, s))

FairSpec == Spec /\ Fairness

\* Every created job ends: a task lost with an Agent's memory, with an
\* answer or with a rejected batch is leased again and reported in the end.
JobsFinish == \A j \in Jobs : jobStatus[j] \in Unfinished ~> jobStatus[j] \in Finished
=============================================================================
