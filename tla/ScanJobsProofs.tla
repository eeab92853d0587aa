--------------------------- MODULE ScanJobsProofs ---------------------------
(***************************************************************************)
(* Proofs about ScanJobs, for any set of Agents and targets, any number of *)
(* jobs, any claim limit and any number of faults.                         *)
(***************************************************************************)
EXTENDS ScanJobs, TLAPS, FiniteSetTheorems

LEMMA SlotsFinite == IsFiniteSet(Slots)
  BY ScanJobsAssumption, FS_Product DEF Slots

\* A set of slots is finite and its cardinality a number.
LEMMA SlotSets ==
  ASSUME NEW S \in SUBSET Slots
  PROVE  IsFiniteSet(S) /\ Cardinality(S) \in Nat
  BY SlotsFinite, FS_Subset, FS_CardinalityType

LEMMA CountsType ==
  ASSUME NEW tk, NEW rs, NEW j
  PROVE  Counts(tk, rs, j) \in [completed : Nat, success : Nat, failed : Nat]
  <1>1. /\ Completed(tk, j) \in SUBSET Slots
        /\ \A v : Judged(tk, rs, j, v) \in SUBSET Slots
    BY DEF Completed, Judged
  <1>2. QED  BY <1>1, SlotSets DEF Counts

\* A picked batch is not empty.
LEMMA PickedNotEmpty ==
  ASSUME NEW pending \in SUBSET IPs, pending # {}, NEW ips, IsPicked(ips, pending)
  PROVE  ips # {}
  <1>1. IsFiniteSet(pending) /\ Cardinality(pending) \in Nat /\ Cardinality(pending) # 0
    BY ScanJobsAssumption, FS_Subset, FS_CardinalityType, FS_EmptySet
  <1>2. Cardinality(ips) # 0
    BY <1>1, ScanJobsAssumption DEF IsPicked
  <1>3. QED  BY <1>2, FS_EmptySet

-----------------------------------------------------------------------------
(***************************************************************************)
(* Type correctness.                                                       *)
(***************************************************************************)
Typed == TypeOK /\ BatchesWellFormed

LEMMA AbandonTyped ==
  ASSUME TypeOK, NEW a
  PROVE  /\ Abandon(claims, a) \subseteq [agent : Agents, lost : Nat]
         /\ Abandon(submits, a) \subseteq [agent : Agents, lost : Nat, job : Jobs,
                                           ips : SUBSET IPs, good : SUBSET IPs]
         /\ (\A r \in submits : r.ips # {}) => \A r \in Abandon(submits, a) : r.ips # {}
  <1>0. faults + 1 \in Nat
    BY DEF TypeOK
  <1>1. ASSUME NEW q \in Abandon(claims, a)
        PROVE  q \in [agent : Agents, lost : Nat]
    <2>1. PICK r \in claims : q = IF r.agent = a /\ Awaited(r) THEN [r EXCEPT !.lost = faults + 1] ELSE r
      BY DEF Abandon
    <2>2. QED  BY <2>1, <1>0 DEF TypeOK
  <1>2. ASSUME NEW q \in Abandon(submits, a)
        PROVE  /\ q \in [agent : Agents, lost : Nat, job : Jobs, ips : SUBSET IPs, good : SUBSET IPs]
               /\ \E r \in submits : q.ips = r.ips
    <2>1. PICK r \in submits : q = IF r.agent = a /\ Awaited(r) THEN [r EXCEPT !.lost = faults + 1] ELSE r
      BY DEF Abandon
    <2>2. r \in [agent : Agents, lost : Nat, job : Jobs, ips : SUBSET IPs, good : SUBSET IPs]
      BY DEF TypeOK
    <2>3. QED  BY <2>1, <2>2, <1>0
  <1>3. QED  BY <1>1, <1>2

LEMMA NoBatchTyped == NoBatch \in [job : 0 .. MaxJobs, ips : SUBSET IPs]
  BY ScanJobsAssumption DEF NoBatch

LEMMA InitTyped == Init => Typed
  BY ScanJobsAssumption DEF Init, Typed, TypeOK, BatchesWellFormed, NoBatch, NoCounts, Jobs,
     JobStatus, TaskStatus, Block, Unfinished

LEMMA AnswerTyped ==
  ASSUME TypeOK, NEW r, r.agent \in Agents, NEW next \in {"idle", "probing"}, Answer(r, next)
  PROVE  /\ agent' \in [Agents -> {"down", "idle", "waiting", "probing"}]
         /\ \A a \in Agents : agent'[a] = "probing" => \/ agent[a] = "probing"
                                                       \/ next = "probing" /\ r.lost = 0 /\ a = r.agent
  BY DEF TypeOK, Answer, Awaited

\* What a new job does to the blacklist: blocks of its targets are renewed.
Renewed(new) ==
    /\ blacklist' \in [Slots -> Block]
    /\ \A s \in Slots : \/ blacklist'[s] = blacklist[s]
                        \/ s \in new /\ blacklist[s] = "retry" /\ blacklist'[s] = "blocked"

\* The two transactions that create a job add one in the same way.
LEMMA NewJob ==
  ASSUME TypeOK, NEW j \in Jobs,
         \/ \E plan \in SUBSET Slots, include \in BOOLEAN : CreateScanJob(j, plan, include)
         \/ \E a \in Agents, ips \in SUBSET IPs : CreateBlacklistRecheck(j, a, ips)
  PROVE  \E new \in SUBSET Slots : AddJob(j, new) /\ Renewed(new)
  <1>1. ASSUME NEW plan \in SUBSET Slots, NEW include \in BOOLEAN, CreateScanJob(j, plan, include)
        PROVE  \E new \in SUBSET Slots : AddJob(j, new) /\ Renewed(new)
    <2>1. Insertable(plan, include) \in SUBSET Slots
      BY DEF Insertable
    <2>2. Renewed(Insertable(plan, include))
      BY <1>1 DEF CreateScanJob, Renewed, TypeOK
    <2>3. QED  BY <1>1, <2>1, <2>2 DEF CreateScanJob
  <1>2. ASSUME NEW a \in Agents, NEW ips \in SUBSET IPs, CreateBlacklistRecheck(j, a, ips)
        PROVE  \E new \in SUBSET Slots : AddJob(j, new) /\ Renewed(new)
    <2>1. {a} \X ips \in SUBSET Slots
      BY DEF Slots
    <2>2. Renewed({a} \X ips)
      BY <1>2 DEF CreateBlacklistRecheck, Renewed, TypeOK, Block
    <2>3. QED  BY <1>2, <2>1, <2>2 DEF CreateBlacklistRecheck
  <1>3. QED  BY <1>1, <1>2

LEMMA NextTyped == Typed /\ [Next]_vars => Typed'
  <1> SUFFICES ASSUME Typed, [Next]_vars
               PROVE  Typed'
    OBVIOUS
  <1> USE DEF Typed, TypeOK, BatchesWellFormed
  <1>1. ASSUME NEW j \in Jobs, NEW new \in SUBSET Slots, AddJob(j, new), Renewed(new)
        PROVE  Typed'
    <2>1. Cardinality(new) \in Nat
      BY SlotSets
    <2>2. QED
      BY <1>1, <2>1 DEF AddJob, Renewed, netVars, JobStatus, TaskStatus, Unfinished
  <1>2. ASSUME NEW j \in Jobs, StopScanJob(j)
        PROVE  Typed'
    BY <1>2 DEF StopScanJob, netVars, Cancelled, JobStatus, TaskStatus, Finished
  <1>3. ASSUME NEW r \in claims, ClaimNothing(r)
        PROVE  Typed'
    BY <1>3, AnswerTyped DEF ClaimNothing, dbVars
  <1>4. ASSUME NEW r \in claims, NEW j \in Jobs, NEW ips \in SUBSET IPs, ClaimTasks(r, j, ips)
        PROVE  Typed'
    <2> DEFINE a  == r.agent
               tk == Reclaimed(r.agent)
    <2>1. tk \in [Jobs -> [Slots -> TaskStatus]]
      BY DEF Reclaimed, TaskStatus
    <2>2. ips # {}
      <3>1. j \in Claimable(tk, a) /\ IsPicked(ips, PendingIPs(tk, j, a))
        BY <1>4 DEF ClaimTasks, IsOldest
      <3>2. PendingIPs(tk, j, a) # {} /\ PendingIPs(tk, j, a) \in SUBSET IPs
        BY <3>1 DEF Claimable, PendingIPs
      <3>3. QED  BY <3>1, <3>2, PickedNotEmpty
    <2>3. task' \in [Jobs -> [Slots -> TaskStatus]]
      BY <1>4, <2>1 DEF ClaimTasks, TaskStatus, Leased
    <2>4. jobStatus' \in [Jobs -> JobStatus]
      BY <1>4 DEF ClaimTasks, JobStatus, Unfinished
    <2>5. /\ batch' \in [Agents -> [job : 0 .. MaxJobs, ips : SUBSET IPs]]
          /\ \A b \in Agents : agent'[b] = "probing" => batch'[b].job \in Jobs /\ batch'[b].ips # {}
      BY <1>4, <2>2, AnswerTyped DEF ClaimTasks, Jobs, Awaited
    <2>6. QED
      BY <1>4, <2>3, <2>4, <2>5, AnswerTyped DEF ClaimTasks
  <1>5. ASSUME NEW r \in submits, IgnoreLateResults(r) \/ RejectResults(r)
        PROVE  Typed'
    BY <1>5, AnswerTyped DEF IgnoreLateResults, RejectResults, dbVars
  <1>6. ASSUME NEW r \in submits, SubmitResults(r)
        PROVE  Typed'
    <2>1. task' \in [Jobs -> [Slots -> TaskStatus]]
      BY <1>6 DEF SubmitResults, TaskStatus
    <2>2. result' \in [Jobs -> [Slots -> {"none"} \cup Verdict]]
      BY <1>6 DEF SubmitResults, VerdictOf, Verdict
    <2>3. blacklist' \in [Slots -> Block]
      BY <1>6 DEF SubmitResults, Block
    <2>4. jobCounts' \in [Jobs -> [completed : Nat, success : Nat, failed : Nat]]
      BY <1>6, CountsType DEF SubmitResults
    <2>5. jobStatus' \in [Jobs -> JobStatus]
      BY <1>6 DEF SubmitResults, StatusAfter, JobStatus, Unfinished, Finished
    <2>6. QED
      BY <1>6, <2>1, <2>2, <2>3, <2>4, <2>5, AnswerTyped DEF SubmitResults
  <1>7. ASSUME NEW a \in Agents, SendClaim(a)
        PROVE  Typed'
    <2>1. [agent |-> a, lost |-> 0] \in [agent : Agents, lost : Nat]
      OBVIOUS
    <2>2. claims' \subseteq [agent : Agents, lost : Nat]
      BY <1>7, <2>1 DEF SendClaim
    <2>3. QED  BY <1>7, <2>2 DEF SendClaim, dbVars
  <1>8. ASSUME NEW a \in Agents, NEW good \in SUBSET IPs, SendResults(a, good)
        PROVE  Typed'
    <2> DEFINE r == [agent |-> a, lost |-> 0, job |-> batch[a].job,
                     ips |-> batch[a].ips, good |-> good]
    <2>1. r \in [agent : Agents, lost : Nat, job : Jobs, ips : SUBSET IPs, good : SUBSET IPs]
          /\ r.ips # {}
      BY <1>8 DEF SendResults
    <2>2. submits' = submits \cup {r}
      BY <1>8 DEF SendResults
    <2>3. batch' \in [Agents -> [job : 0 .. MaxJobs, ips : SUBSET IPs]]
      BY <1>8, NoBatchTyped DEF SendResults
    <2>4. \A b \in Agents : agent'[b] = "probing" => b # a /\ agent[b] = "probing" /\ batch'[b] = batch[b]
      BY <1>8 DEF SendResults
    <2>5. QED
      BY <1>8, <2>1, <2>2, <2>3, <2>4 DEF SendResults, dbVars
  <1>9. ASSUME NEW a \in Agents, AgentRestart(a)
        PROVE  Typed'
    BY <1>9 DEF AgentRestart, dbVars
  <1>10. ASSUME NEW a \in Agents, ClientTimeout(a)
         PROVE  Typed'
    <2>1. \A b \in Agents : agent'[b] = "probing" => agent[b] = "probing"
      BY <1>10 DEF ClientTimeout
    <2>2. /\ claims' \subseteq [agent : Agents, lost : Nat]
          /\ submits' \subseteq [agent : Agents, lost : Nat, job : Jobs,
                                 ips : SUBSET IPs, good : SUBSET IPs]
          /\ \A r \in submits' : r.ips # {}
      <3>1. claims' = Abandon(claims, a) /\ submits' = Abandon(submits, a)
        BY <1>10 DEF ClientTimeout
      <3>2. QED  BY <3>1, AbandonTyped
    <2>3. QED  BY <1>10, <2>1, <2>2 DEF ClientTimeout, dbVars
  <1>11. ASSUME NEW a \in Agents, AgentCrash(a)
         PROVE  Typed'
    <2>1. batch' \in [Agents -> [job : 0 .. MaxJobs, ips : SUBSET IPs]]
      BY <1>11, NoBatchTyped DEF AgentCrash
    <2>2. \A b \in Agents : agent'[b] = "probing" => agent[b] = "probing" /\ batch'[b] = batch[b]
      BY <1>11 DEF AgentCrash
    <2>3. /\ claims' \subseteq [agent : Agents, lost : Nat]
          /\ submits' \subseteq [agent : Agents, lost : Nat, job : Jobs,
                                 ips : SUBSET IPs, good : SUBSET IPs]
          /\ \A r \in submits' : r.ips # {}
      <3>1. claims' = Abandon(claims, a) /\ submits' = Abandon(submits, a)
        BY <1>11 DEF AgentCrash
      <3>2. QED  BY <3>1, AbandonTyped
    <2>4. QED  BY <1>11, <2>1, <2>2, <2>3 DEF AgentCrash, dbVars
  <1>12. ASSUME NEW r \in claims \cup submits, CallFails(r)
         PROVE  Typed'
    BY <1>12, AnswerTyped DEF CallFails, dbVars
  <1>13. ASSUME NEW j \in Jobs, NEW s \in Slots, LeaseExpires(j, s)
         PROVE  Typed'
    BY <1>13 DEF LeaseExpires, netVars, TaskStatus, Leased
  <1>14. ASSUME NEW s \in Slots, BlockExpires(s)
         PROVE  Typed'
    BY <1>14 DEF BlockExpires, netVars, Block
  <1>15. CASE UNCHANGED vars
    BY <1>15 DEF vars
  <1> HIDE DEF Typed, TypeOK, BatchesWellFormed
  <1>16. ASSUME NEW j \in Jobs,
                \/ \E plan \in SUBSET Slots, include \in BOOLEAN : CreateScanJob(j, plan, include)
                \/ \E a \in Agents, ips \in SUBSET IPs : CreateBlacklistRecheck(j, a, ips)
         PROVE  Typed'
    <2>1. \E new \in SUBSET Slots : AddJob(j, new) /\ Renewed(new)
      BY <1>16, NewJob DEF Typed
    <2>2. QED  BY <1>1, <2>1
  <1>17. QED
    BY <1>16, <1>2, <1>3, <1>4, <1>5, <1>6, <1>7, <1>8, <1>9, <1>10, <1>11, <1>12, <1>13, <1>14,
       <1>15 DEF Next, Manage, Serve, Work, Fail, Time

\* Every variable keeps its type, and what an Agent probes or reports is
\* never empty.
THEOREM TypeCorrect == Spec => [](TypeOK /\ BatchesWellFormed)
  <1>1. QED  BY InitTyped, NextTyped, PTL DEF Spec, Typed

-----------------------------------------------------------------------------
(***************************************************************************)
(* The rows of a job agree with its status, counters and results.  The     *)
(* invariant is taken apart by job, because a transaction writes one job   *)
(* and leaves the others alone.                                            *)
(***************************************************************************)
JobOK(j) ==
    /\ jobTotal[j]  = Cardinality(Rows(task, j))
    /\ jobCounts[j] = Counts(task, result, j)
    /\ jobStatus[j] = "none" <=> Rows(task, j) = {}
    /\ jobStatus[j] = "completed" <=> Rows(task, j) # {} /\ Completed(task, j) = Rows(task, j)
    /\ jobStatus[j] \in Unfinished <=> \E s \in Slots : task[j][s] \in Cancellable
    /\ jobStatus[j] = "pending" => \A s \in Rows(task, j) : task[j][s] = "pending"
    /\ jobStatus[j] # "stopped" => \A s \in Rows(task, j) : task[j][s] # "cancelled"
    /\ \A s \in Slots : result[j][s] # "none" <=> task[j][s] = "completed"

RowInv == CountersMatchRows /\ StatusMatchesRows /\ ResultPerCompletedTask

LEMMA RowInvByJob == RowInv <=> \A j \in Jobs : JobOK(j)
  <1>1. \A j : {s \in Rows(task, j) : task[j][s] \in Cancellable} # {}
               <=> \E s \in Slots : task[j][s] \in Cancellable
    BY DEF Rows, Cancellable, Leased
  <1>2. QED
    BY <1>1 DEF RowInv, CountersMatchRows, StatusMatchesRows, ResultPerCompletedTask, JobOK

LEMMA RowInvByJobNext == RowInv' <=> (\A j \in Jobs : JobOK(j))'
  BY RowInvByJob, PTL

\* Counts depends only on which rows are completed and on their results.
LEMMA CountsOf ==
  ASSUME NEW tk1, NEW rs1, NEW tk2, NEW rs2, NEW j,
         \A s \in Slots : /\ tk1[j][s] = "completed" <=> tk2[j][s] = "completed"
                          /\ rs1[j][s] = rs2[j][s]
  PROVE  Counts(tk1, rs1, j) = Counts(tk2, rs2, j)
  <1>1. /\ Completed(tk1, j) = Completed(tk2, j)
        /\ \A v : Judged(tk1, rs1, j, v) = Judged(tk2, rs2, j, v)
    BY DEF Completed, Judged
  <1>2. QED  BY <1>1 DEF Counts

\* A job whose row and tasks a step leaves alone stays in order.
LEMMA JobUntouched ==
  ASSUME NEW j \in Jobs, JobOK(j),
         jobStatus'[j] = jobStatus[j], jobTotal'[j] = jobTotal[j], jobCounts'[j] = jobCounts[j],
         task'[j] = task[j], result'[j] = result[j]
  PROVE  JobOK(j)'
  <1>1. /\ Rows(task', j) = Rows(task, j)
        /\ Completed(task', j) = Completed(task, j)
        /\ Counts(task', result', j) = Counts(task, result, j)
    BY CountsOf DEF Rows, Completed
  <1>2. QED  BY <1>1 DEF JobOK

LEMMA InitRows == Init => RowInv
  <1> SUFFICES ASSUME Init, NEW j \in Jobs
               PROVE  JobOK(j)
    BY RowInvByJob
  <1>1. /\ Rows(task, j) = {} /\ Completed(task, j) = {}
        /\ \A v : Judged(task, result, j, v) = {}
    BY DEF Init, Rows, Completed, Judged
  <1>2. Counts(task, result, j) = NoCounts
    BY <1>1, FS_EmptySet DEF Counts, NoCounts
  <1>3. QED
    BY <1>1, <1>2, FS_EmptySet DEF Init, JobOK, Unfinished, Cancellable, Leased

LEMMA CreateRows ==
  ASSUME Typed, RowInv, NEW j \in Jobs, NEW inserted \in SUBSET Slots, AddJob(j, inserted)
  PROVE  RowInv'
  <1>1. inserted # {} /\ inserted \subseteq Slots
    BY DEF AddJob
  <1>2. /\ \A s \in Slots : task[j][s] = "none"
        /\ \A s \in Slots : task'[j][s] = IF s \in inserted THEN "pending" ELSE "none"
    <2>1. Rows(task, j) = {}
      BY RowInvByJob DEF AddJob, JobOK
    <2>2. task'[j] = [s \in Slots |-> IF s \in inserted THEN "pending" ELSE "none"]
      BY DEF AddJob, Typed, TypeOK
    <2>3. QED  BY <2>1, <2>2 DEF Rows
  <1>3. Rows(task', j) = inserted /\ Completed(task', j) = {}
    BY <1>1, <1>2 DEF Rows, Completed
  <1>4. Counts(task', result', j) = Counts(task, result, j)
    <2>1. result' = result
      BY DEF AddJob
    <2>2. \A s \in Slots : (task'[j][s] = "completed" <=> task[j][s] = "completed")
                          /\ result'[j][s] = result[j][s]
      BY <1>2, <2>1
    <2>3. QED  BY <2>2, CountsOf
  <1>5. JobOK(j)'
    <2>1. /\ jobTotal'[j] = Cardinality(inserted) /\ jobCounts'[j] = jobCounts[j]
          /\ jobStatus'[j] = "pending" /\ result' = result
      BY DEF AddJob, Typed, TypeOK
    <2>2. JobOK(j)
      BY RowInvByJob
    <2>3. \A s \in Slots : result'[j][s] = "none" /\ task'[j][s] # "completed"
      BY <1>2, <2>1, <2>2 DEF JobOK
    <2>4. QED
      BY <1>1, <1>2, <1>3, <1>4, <2>1, <2>2, <2>3 DEF JobOK, Unfinished, Cancellable
  <1>6. \A i \in Jobs \ {j} : JobOK(i)'
    BY RowInvByJob, JobUntouched DEF AddJob, Typed, TypeOK
  <1>7. QED  BY <1>5, <1>6, RowInvByJobNext

LEMMA StopRows ==
  ASSUME Typed, RowInv, NEW j \in Jobs, StopScanJob(j)
  PROVE  RowInv'
  <1>1. \A s \in Slots : task'[j][s] = IF task[j][s] \in Cancellable THEN "cancelled" ELSE task[j][s]
    BY DEF StopScanJob, Cancelled, Typed, TypeOK
  <1>2. Rows(task', j) = Rows(task, j)
    BY <1>1 DEF Rows, Cancellable, Leased
  <1>3. \A s \in Slots : task'[j][s] = "completed" <=> task[j][s] = "completed"
    BY <1>1 DEF Cancellable, Leased
  <1>4. Counts(task', result', j) = Counts(task, result, j) /\ Completed(task', j) = Completed(task, j)
    <2>1. \A s \in Slots : result'[j][s] = result[j][s]
      BY DEF StopScanJob
    <2>2. Counts(task', result', j) = Counts(task, result, j)
      BY <1>3, <2>1, CountsOf
    <2>3. QED  BY <1>3, <2>2 DEF Completed
  <1>5. JobOK(j)'
    <2>1. /\ jobTotal'[j] = jobTotal[j] /\ jobCounts'[j] = jobCounts[j]
          /\ jobStatus'[j] = "stopped" /\ result' = result
      BY DEF StopScanJob, Typed, TypeOK
    <2>2. JobOK(j) /\ jobStatus[j] \in Unfinished
      BY RowInvByJob DEF StopScanJob
    <2>3. \A s \in Slots : task'[j][s] \notin Cancellable
      BY <1>1 DEF Cancellable, Leased
    <2>4. Rows(task, j) # {} /\ Completed(task, j) # Rows(task, j)
      BY <2>2 DEF JobOK, Unfinished
    <2>5. QED
      BY <1>2, <1>3, <1>4, <2>1, <2>2, <2>3, <2>4 DEF JobOK, Unfinished
  <1>6. \A i \in Jobs \ {j} : JobOK(i)'
    BY RowInvByJob, JobUntouched DEF StopScanJob, Typed, TypeOK
  <1>7. QED  BY <1>5, <1>6, RowInvByJobNext

\* A claim moves rows of the caller between pending, leased and expired.
LEMMA ClaimTask ==
  ASSUME Typed, NEW r \in claims, NEW j \in Jobs, NEW ips \in SUBSET IPs, ClaimTasks(r, j, ips)
  PROVE  /\ \A i \in Jobs, s \in Slots :
                 \/ task'[i][s] = task[i][s]
                 \/ task[i][s] = "expired" /\ task'[i][s] = "pending"
                 \/ /\ task[i][s] \in {"pending", "expired"} /\ task'[i][s] = "leased"
                    /\ i = j /\ s[1] = r.agent /\ s[2] \in ips
         /\ jobStatus[j] \in Unfinished
         /\ \E s \in Slots : task'[j][s] = "leased"
         /\ \A ip \in ips : /\ task[j][<<r.agent, ip>>] \in {"pending", "expired"}
                            /\ task'[j][<<r.agent, ip>>] = "leased"
  <1> DEFINE tk == Reclaimed(r.agent)
  <1>1. /\ j \in Claimable(tk, r.agent) /\ IsPicked(ips, PendingIPs(tk, j, r.agent))
        /\ task' = [tk EXCEPT ![j] =
             [s \in Slots |-> IF s[1] = r.agent /\ s[2] \in ips THEN "leased" ELSE tk[j][s]]]
    BY DEF ClaimTasks, IsOldest
  <1>2. \A i \in Jobs, s \in Slots : tk[i][s] = IF s[1] = r.agent /\ task[i][s] = "expired"
                                             THEN "pending" ELSE task[i][s]
    BY DEF Reclaimed
  <1>3. /\ \A i \in Jobs \ {j} : task'[i] = tk[i]
        /\ task'[j] = [s \in Slots |-> IF s[1] = r.agent /\ s[2] \in ips THEN "leased" ELSE tk[j][s]]
    BY <1>1 DEF Reclaimed
  <1>4. r.agent \in Agents
    BY DEF Typed, TypeOK
  <1>5. \A ip \in ips : ip \in IPs /\ <<r.agent, ip>> \in Slots /\ tk[j][<<r.agent, ip>>] = "pending"
    BY <1>1, <1>4 DEF IsPicked, PendingIPs, Slots
  <1>6. \A s \in Slots : s[1] = r.agent /\ s[2] \in ips => tk[j][s] = "pending"
    BY <1>5 DEF Slots
  <1>7. ips # {}
    <2>1. PendingIPs(tk, j, r.agent) # {} /\ PendingIPs(tk, j, r.agent) \in SUBSET IPs
      BY <1>1 DEF Claimable, PendingIPs
    <2>2. QED  BY <1>1, <2>1, PickedNotEmpty
  <1>8. \A ip \in ips : task'[j][<<r.agent, ip>>] = "leased"
    BY <1>3, <1>5
  <1>9. \A ip \in ips : task[j][<<r.agent, ip>>] \in {"pending", "expired"}
    BY <1>2, <1>5
  <1>10. \A i \in Jobs, s \in Slots :
                 \/ task'[i][s] = task[i][s]
                 \/ task[i][s] = "expired" /\ task'[i][s] = "pending"
                 \/ /\ task[i][s] \in {"pending", "expired"} /\ task'[i][s] = "leased"
                    /\ i = j /\ s[1] = r.agent /\ s[2] \in ips
    BY <1>2, <1>3, <1>6
  <1>11. jobStatus[j] \in Unfinished
    BY <1>1 DEF Claimable
  <1>12. \E s \in Slots : task'[j][s] = "leased"
    BY <1>5, <1>7, <1>8
  <1>13. QED  BY <1>8, <1>9, <1>10, <1>11, <1>12

LEMMA ClaimRows ==
  ASSUME Typed, RowInv, NEW r \in claims, NEW j \in Jobs, NEW ips \in SUBSET IPs,
         ClaimTasks(r, j, ips)
  PROVE  RowInv'
  <1>1. /\ jobTotal' = jobTotal /\ jobCounts' = jobCounts /\ result' = result
        /\ \A i \in Jobs : jobStatus'[i] = IF i = j THEN "running" ELSE jobStatus[i]
    BY DEF ClaimTasks, Typed, TypeOK
  <1>2. ASSUME NEW i \in Jobs
        PROVE  JobOK(i)'
    <2>1. JobOK(i)
      BY RowInvByJob
    <2>2. \A s \in Slots : /\ task'[i][s] = "none" <=> task[i][s] = "none"
                           /\ task'[i][s] = "completed" <=> task[i][s] = "completed"
                           /\ task'[i][s] = "cancelled" <=> task[i][s] = "cancelled"
                           /\ task'[i][s] \in Cancellable <=> task[i][s] \in Cancellable
                           /\ task[i][s] = "pending" /\ i # j => task'[i][s] = "pending"
      BY ClaimTask DEF Cancellable, Leased
    <2>3. Rows(task', i) = Rows(task, i) /\ Completed(task', i) = Completed(task, i)
      BY <2>2 DEF Rows, Completed
    <2>4. Counts(task', result', i) = Counts(task, result, i)
      BY <1>1, <2>2, CountsOf
    <2>5. CASE i = j
      <3>1. jobStatus[j] \in Unfinished /\ jobStatus'[j] = "running"
        BY <1>1, ClaimTask
      <3>2. QED
        BY <1>1, <2>1, <2>2, <2>3, <2>4, <2>5, <3>1 DEF JobOK, Unfinished, Rows
    <2>6. CASE i # j
      <3>1. jobStatus'[i] = jobStatus[i]
        BY <1>1, <2>6
      <3>2. QED
        BY <1>1, <2>1, <2>2, <2>3, <2>4, <2>6, <3>1 DEF JobOK, Rows
    <2>7. QED  BY <2>5, <2>6
  <1>3. QED  BY <1>2, RowInvByJobNext

\* What an accepted batch does to the rows of its job.
LEMMA SubmitTask ==
  ASSUME Typed, NEW r \in submits, SubmitResults(r)
  PROVE  /\ Reported(r) # {} /\ Reported(r) \subseteq Slots /\ r.job \in Jobs
         /\ \A s \in Slots : s \in Reported(r) =>
                /\ task[r.job][s] \in Leased /\ task'[r.job][s] = "completed"
                /\ result'[r.job][s] = VerdictOf(r, s) /\ result'[r.job][s] \in Verdict
         /\ \A s \in Slots : s \notin Reported(r) =>
                /\ task'[r.job][s] = task[r.job][s]
                /\ result'[r.job][s] = result[r.job][s]
         /\ \A i \in Jobs \ {r.job} : /\ task'[i] = task[i] /\ result'[i] = result[i]
                                      /\ jobStatus'[i] = jobStatus[i] /\ jobCounts'[i] = jobCounts[i]
         /\ jobTotal' = jobTotal
         /\ jobCounts'[r.job] = Counts(task', result', r.job)
         /\ jobStatus'[r.job] = StatusAfter(task', r.job)
  <1>1. r.job \in Jobs /\ r.agent \in Agents /\ r.ips # {} /\ r.ips \subseteq IPs
    BY DEF Typed, TypeOK, BatchesWellFormed
  <1>2. Reported(r) # {}
    <2>1. PICK ip \in r.ips : TRUE
      BY <1>1
    <2>2. <<r.agent, ip>> \in Slots
      BY <1>1, <2>1 DEF Slots
    <2>3. QED  BY <2>1, <2>2 DEF Reported
  <1>3. /\ task'[r.job] = [s \in Slots |-> IF s \in Reported(r) THEN "completed" ELSE task[r.job][s]]
        /\ result'[r.job] = [s \in Slots |-> IF s \in Reported(r) THEN VerdictOf(r, s) ELSE result[r.job][s]]
        /\ \A i \in Jobs \ {r.job} : task'[i] = task[i] /\ result'[i] = result[i]
    BY <1>1 DEF SubmitResults, Typed, TypeOK
  <1>4. /\ jobTotal' = jobTotal
        /\ jobCounts'[r.job] = Counts(task', result', r.job)
        /\ jobStatus'[r.job] = StatusAfter(task', r.job)
        /\ \A i \in Jobs \ {r.job} : jobStatus'[i] = jobStatus[i] /\ jobCounts'[i] = jobCounts[i]
    BY <1>1 DEF SubmitResults, Typed, TypeOK
  <1>5. \A s \in Slots : s \in Reported(r) => task[r.job][s] \in Leased
    BY DEF SubmitResults, AllLeased
  <1>6. \A s : VerdictOf(r, s) \in Verdict
    BY DEF VerdictOf, Verdict
  <1>7. Reported(r) \subseteq Slots
    BY DEF Reported
  <1>8. QED  BY <1>1, <1>2, <1>3, <1>4, <1>5, <1>6, <1>7

LEMMA SubmitRows ==
  ASSUME Typed, RowInv, NEW r \in submits, SubmitResults(r)
  PROVE  RowInv'
  <1> DEFINE j == r.job
  <1>1. j \in Jobs /\ JobOK(j) /\ jobStatus[j] # "stopped"
    BY SubmitTask, RowInvByJob DEF SubmitResults, Swallowed
  <1>2. Rows(task', j) = Rows(task, j)
    BY SubmitTask DEF Rows, Leased
  <1>3. Rows(task, j) # {} /\ Reported(r) \subseteq Rows(task, j)
    BY SubmitTask DEF Rows, Leased
  <1>4. Completed(task', j) \subseteq Rows(task, j)
    BY <1>2 DEF Rows, Completed
  <1>5. Cardinality(Completed(task', j)) >= jobTotal[j] <=> Completed(task', j) = Rows(task, j)
    <2>1. jobTotal[j] = Cardinality(Rows(task, j))
      BY <1>1 DEF JobOK
    <2>2. Rows(task, j) \in SUBSET Slots
      BY DEF Rows
    <2>3. /\ IsFiniteSet(Rows(task, j)) /\ Cardinality(Rows(task, j)) \in Nat
          /\ Cardinality(Completed(task', j)) \in Nat
      BY <1>4, <2>2, SlotSets
    <2>4. /\ Cardinality(Completed(task', j)) <= Cardinality(Rows(task, j))
          /\ Cardinality(Rows(task, j)) = Cardinality(Completed(task', j))
                => Rows(task, j) = Completed(task', j)
      BY <1>4, <2>3, FS_Subset
    <2>5. QED  BY <2>1, <2>3, <2>4
  <1>6. /\ jobStatus'[j] = "completed" <=> Completed(task', j) = Rows(task, j)
        /\ jobStatus'[j] \in {"completed", "running"}
    BY <1>5, SubmitTask DEF StatusAfter
  <1>7. \A s \in Slots : task'[j][s] # "none" => task'[j][s] = "completed" \/ task'[j][s] \in Cancellable
    <2>1. \A s \in Slots : task[j][s] \in TaskStatus /\ task[j][s] # "cancelled"
      BY <1>1 DEF JobOK, Rows, Typed, TypeOK
    <2>2. QED  BY <2>1, SubmitTask DEF TaskStatus, Cancellable
  <1>8. jobStatus'[j] \in Unfinished <=> \E s \in Slots : task'[j][s] \in Cancellable
    <2>1. Completed(task', j) # Rows(task', j) <=> \E s \in Slots : task'[j][s] \in Cancellable
      BY <1>7 DEF Completed, Rows, Cancellable, Leased
    <2>2. QED  BY <1>2, <1>6, <2>1 DEF Unfinished
  <1>9. \A s \in Slots : result'[j][s] # "none" <=> task'[j][s] = "completed"
    BY <1>1, SubmitTask DEF JobOK, Verdict
  <1>10. \A s \in Rows(task', j) : task'[j][s] # "cancelled"
    BY <1>7 DEF Rows, Cancellable, Leased
  <1>11. JobOK(j)'
    BY <1>1, <1>2, <1>3, <1>6, <1>8, <1>9, <1>10, SubmitTask DEF JobOK
  <1>12. \A i \in Jobs \ {j} : JobOK(i)'
    BY RowInvByJob, JobUntouched, SubmitTask
  <1>13. QED  BY <1>11, <1>12, RowInvByJobNext

LEMMA ExpireRows ==
  ASSUME Typed, RowInv, NEW j \in Jobs, NEW t \in Slots, LeaseExpires(j, t)
  PROVE  RowInv'
  <1>1. /\ \A i \in Jobs, s \in Slots : task'[i][s] = IF i = j /\ s = t THEN "expired" ELSE task[i][s]
        /\ task[j][t] = "leased"
        /\ jobStatus' = jobStatus /\ jobTotal' = jobTotal /\ jobCounts' = jobCounts /\ result' = result
    BY DEF LeaseExpires, Typed, TypeOK
  <1>2. ASSUME NEW i \in Jobs
        PROVE  JobOK(i)'
    <2>1. JobOK(i)
      BY RowInvByJob
    <2>2. \A s \in Slots : /\ task'[i][s] = "none" <=> task[i][s] = "none"
                           /\ task'[i][s] = "completed" <=> task[i][s] = "completed"
                           /\ task'[i][s] = "cancelled" <=> task[i][s] = "cancelled"
                           /\ task'[i][s] = "pending" <=> task[i][s] = "pending"
                           /\ task'[i][s] \in Cancellable <=> task[i][s] \in Cancellable
      BY <1>1 DEF Cancellable, Leased
    <2>3. Rows(task', i) = Rows(task, i) /\ Completed(task', i) = Completed(task, i)
      BY <2>2 DEF Rows, Completed
    <2>4. Counts(task', result', i) = Counts(task, result, i)
      BY <1>1, <2>2, CountsOf
    <2>5. QED
      BY <1>1, <2>1, <2>2, <2>3, <2>4 DEF JobOK, Rows
  <1>3. QED  BY <1>2, RowInvByJobNext

\* The steps that write none of the tables of a job.
LEMMA TablesUntouched ==
  ASSUME RowInv, UNCHANGED <<jobStatus, jobTotal, jobCounts, task, result>>
  PROVE  RowInv'
  <1>1. \A j \in Jobs : JobOK(j)'
    BY RowInvByJob, JobUntouched
  <1>2. QED  BY <1>1, RowInvByJobNext

\* The steps of the specification, sorted by what they do to those tables.
LEMMA StepCases ==
  ASSUME TypeOK, [Next]_vars
  PROVE  \/ \E j \in Jobs, new \in SUBSET Slots : AddJob(j, new) /\ Renewed(new)
         \/ \E j \in Jobs : StopScanJob(j)
         \/ \E r \in claims, j \in Jobs, ips \in SUBSET IPs : ClaimTasks(r, j, ips)
         \/ \E r \in submits : SubmitResults(r)
         \/ \E j \in Jobs, s \in Slots : LeaseExpires(j, s)
         \/ \E s \in Slots : BlockExpires(s)
         \/ /\ UNCHANGED dbVars
            /\ batch' = batch \/ \E a \in Agents : batch' = [batch EXCEPT ![a] = NoBatch]
  <1>1. ASSUME NEW r \in claims, ClaimNothing(r)
        PROVE  UNCHANGED dbVars /\ batch' = batch
    BY <1>1 DEF ClaimNothing
  <1>2. ASSUME NEW r \in submits, IgnoreLateResults(r) \/ RejectResults(r)
        PROVE  UNCHANGED dbVars /\ batch' = batch
    BY <1>2 DEF IgnoreLateResults, RejectResults
  <1>3. ASSUME NEW b \in Agents, SendClaim(b) \/ AgentRestart(b) \/ ClientTimeout(b)
        PROVE  UNCHANGED dbVars /\ batch' = batch
    BY <1>3 DEF SendClaim, AgentRestart, ClientTimeout
  <1>4. ASSUME NEW r \in claims \cup submits, CallFails(r)
        PROVE  UNCHANGED dbVars /\ batch' = batch
    BY <1>4 DEF CallFails
  <1>5. ASSUME NEW b \in Agents, (\E good \in SUBSET IPs : SendResults(b, good)) \/ AgentCrash(b)
        PROVE  UNCHANGED dbVars /\ batch' = [batch EXCEPT ![b] = NoBatch]
    BY <1>5 DEF SendResults, AgentCrash
  <1>6. CASE UNCHANGED vars
    BY <1>6 DEF vars, dbVars
  <1>7. QED
    BY NewJob, <1>1, <1>2, <1>3, <1>4, <1>5, <1>6 DEF Next, Manage, Serve, Work, Fail, Time

LEMMA NextRows == Typed /\ RowInv /\ [Next]_vars => RowInv'
  <1> SUFFICES ASSUME Typed, RowInv, [Next]_vars
               PROVE  RowInv'
    OBVIOUS
  <1>1. CASE \E s \in Slots : BlockExpires(s)
    BY <1>1, TablesUntouched DEF BlockExpires
  <1>2. CASE UNCHANGED dbVars
    BY <1>2, TablesUntouched DEF dbVars
  <1>3. QED
    BY <1>1, <1>2, StepCases, CreateRows, StopRows, ClaimRows, SubmitRows, ExpireRows DEF Typed

\* In every reachable state the status, total and counters of a job are the
\* ones its task rows and results call for, and results exist for the
\* completed tasks only.
THEOREM RowsAgree == Spec => [](CountersMatchRows /\ StatusMatchesRows /\ ResultPerCompletedTask)
  <1>1. Spec => [](Typed /\ RowInv)
    BY InitTyped, NextTyped, InitRows, NextRows, PTL DEF Spec
  <1>2. Typed /\ RowInv => CountersMatchRows /\ StatusMatchesRows /\ ResultPerCompletedTask
    BY DEF RowInv
  <1>3. QED  BY <1>1, <1>2, PTL

\* The status of a job, pending to completed or stopped, is always the one its task rows
\* call for, whatever claims, results, stops and expiries come together.
THEOREM StatusAgrees == Spec => []StatusMatchesRows
  BY RowsAgree, PTL

\* A result is there for each completed task and for no other.
THEOREM ResultsOfCompleted == Spec => []ResultPerCompletedTask
  BY RowsAgree, PTL

-----------------------------------------------------------------------------
(***************************************************************************)
(* Action properties.                                                      *)
(***************************************************************************)
Inv == Typed /\ RowInv

LEMMA InvHolds == Spec => []Inv
  BY InitTyped, NextTyped, InitRows, NextRows, PTL DEF Spec, Inv

\* A finished job is never touched again.
THEOREM FinishedForGood == Spec => FinishedJobsAreFinal
  <1>1. Inv /\ [Next]_vars =>
          \A j \in Jobs : jobStatus[j] \in Finished =>
                  UNCHANGED <<jobStatus[j], jobTotal[j], jobCounts[j], task[j], result[j]>>
    <2> SUFFICES ASSUME Inv, [Next]_vars, NEW i \in Jobs, jobStatus[i] \in Finished
                 PROVE  UNCHANGED <<jobStatus[i], jobTotal[i], jobCounts[i], task[i], result[i]>>
      OBVIOUS
    <2> USE DEF Inv
    <2>1. JobOK(i) /\ jobStatus[i] \notin Unfinished /\ jobStatus[i] # "none"
      BY RowInvByJob DEF Finished, Unfinished
    <2>2. \A s \in Slots : task[i][s] \notin Cancellable
      BY <2>1 DEF JobOK
    <2>3. CASE \E j \in Jobs, new \in SUBSET Slots : AddJob(j, new) /\ Renewed(new)
      BY <2>1, <2>3 DEF AddJob, Typed, TypeOK
    <2>4. CASE \E j \in Jobs : StopScanJob(j)
      BY <2>1, <2>4 DEF StopScanJob, Typed, TypeOK
    <2>5. CASE \E r \in claims, j \in Jobs, ips \in SUBSET IPs : ClaimTasks(r, j, ips)
      <3>1. PICK r \in claims, j \in Jobs, ips \in SUBSET IPs : ClaimTasks(r, j, ips)
        BY <2>5
      <3>2. i # j /\ \A s \in Slots : task'[i][s] = task[i][s]
        BY <2>1, <2>2, <3>1, ClaimTask DEF Cancellable, Leased
      <3>3. task'[i] = task[i]
        <4>1. task[i] \in [Slots -> TaskStatus] /\ task'[i] \in [Slots -> TaskStatus]
          BY NextTyped DEF Typed, TypeOK
        <4>2. QED  BY <3>2, <4>1
      <3>4. QED
        BY <3>1, <3>2, <3>3 DEF ClaimTasks, Typed, TypeOK
    <2>6. CASE \E r \in submits : SubmitResults(r)
      <3>1. PICK r \in submits : SubmitResults(r)
        BY <2>6
      <3>2. i # r.job
        BY <2>2, <3>1, SubmitTask DEF Cancellable
      <3>3. QED
        BY <3>1, <3>2, SubmitTask
    <2>7. CASE \E j \in Jobs, s \in Slots : LeaseExpires(j, s)
      BY <2>2, <2>7 DEF LeaseExpires, Cancellable, Leased, Typed, TypeOK
    <2>8. CASE \E s \in Slots : BlockExpires(s)
      BY <2>8 DEF BlockExpires
    <2>9. CASE UNCHANGED dbVars
      BY <2>9 DEF dbVars
    <2>10. QED
      BY <2>3, <2>4, <2>5, <2>6, <2>7, <2>8, <2>9, StepCases DEF Typed
  <1>2. QED
    BY <1>1, InvHolds, PTL DEF Spec, FinishedJobsAreFinal

\* A stored result stays as it is, and with it its task completed.
THEOREM ResultsStay == Spec => ResultsAreWrittenOnce
  <1>1. Inv /\ [Next]_vars =>
          \A j \in Jobs, s \in Slots : result[j][s] # "none" => result'[j][s] = result[j][s]
    <2> SUFFICES ASSUME Inv, [Next]_vars, NEW i \in Jobs, NEW t \in Slots, result[i][t] # "none"
                 PROVE  result'[i][t] = result[i][t]
      OBVIOUS
    <2>1. task[i][t] = "completed"
      BY RowInvByJob DEF Inv, JobOK
    <2>2. CASE \E r \in submits : SubmitResults(r)
      <3>1. PICK r \in submits : SubmitResults(r)
        BY <2>2
      <3>2. ~(i = r.job /\ t \in Reported(r))
        BY <2>1, <3>1, SubmitTask DEF Inv, Leased
      <3>3. QED
        BY <3>1, <3>2, SubmitTask DEF Inv
    <2>3. CASE ~\E r \in submits : SubmitResults(r)
      BY <2>3, StepCases DEF Inv, Typed, AddJob, StopScanJob, ClaimTasks, LeaseExpires, BlockExpires, dbVars
    <2>4. QED  BY <2>2, <2>3
  <1>2. QED
    BY <1>1, InvHolds, PTL DEF Spec, ResultsAreWrittenOnce

\* A running lease is not taken away and its task is not handed out again.
THEOREM LeasesHold == Spec => LeaseIsHonoured
  <1> DEFINE Kept == \A j \in Jobs, s \in Slots :
               task[j][s] = "leased" => task'[j][s] \in {"leased", "expired", "completed", "cancelled"}
             Fresh == \A a \in Agents : batch'[a] \notin {batch[a], NoBatch} =>
               \A ip \in batch'[a].ips : /\ task[batch'[a].job][<<a, ip>>] \in {"pending", "expired"}
                                        /\ task'[batch'[a].job][<<a, ip>>] = "leased"
  <1>1. Inv /\ [Next]_vars => Kept /\ Fresh
    <2> SUFFICES ASSUME Inv, [Next]_vars
                 PROVE  Kept /\ Fresh
      OBVIOUS
    <2> USE DEF Inv
    <2>1. CASE \E j \in Jobs, new \in SUBSET Slots : AddJob(j, new) /\ Renewed(new)
      <3>1. PICK j \in Jobs, new \in SUBSET Slots : AddJob(j, new)
        BY <2>1
      <3>2. \A s \in Slots : task[j][s] = "none"
        BY <3>1, RowInvByJob DEF AddJob, JobOK, Rows
      <3>3. \A i \in Jobs \ {j} : task'[i] = task[i]
        BY <3>1 DEF AddJob, Typed, TypeOK
      <3>4. batch' = batch
        BY <3>1 DEF AddJob, netVars
      <3>5. QED  BY <3>2, <3>3, <3>4
    <2>2. CASE \E j \in Jobs : StopScanJob(j)
      <3>1. PICK j \in Jobs : StopScanJob(j)
        BY <2>2
      <3>2. /\ task'[j] = Cancelled(task[j]) /\ \A i \in Jobs \ {j} : task'[i] = task[i]
            /\ batch' = batch
        BY <3>1 DEF StopScanJob, netVars, Typed, TypeOK
      <3>3. QED  BY <3>2 DEF Cancelled, Cancellable
    <2>3. CASE \E r \in claims, j \in Jobs, ips \in SUBSET IPs : ClaimTasks(r, j, ips)
      <3>1. PICK r \in claims, j \in Jobs, ips \in SUBSET IPs : ClaimTasks(r, j, ips)
        BY <2>3
      <3>2. \A a \in Agents : \/ batch'[a] = batch[a]
                              \/ a = r.agent /\ batch'[a] = [job |-> j, ips |-> ips]
        <4>1. batch' = IF r.lost = 0 THEN [batch EXCEPT ![r.agent] = [job |-> j, ips |-> ips]] ELSE batch
          BY <3>1 DEF ClaimTasks, Awaited
        <4>2. r.agent \in Agents /\ batch \in [Agents -> [job : 0 .. MaxJobs, ips : SUBSET IPs]]
          BY DEF Typed, TypeOK
        <4>3. QED  BY <4>1, <4>2
      <3>3. QED  BY <3>1, <3>2, ClaimTask
    <2>4. CASE \E r \in submits : SubmitResults(r)
      <3>1. PICK r \in submits : SubmitResults(r)
        BY <2>4
      <3>2. batch' = batch
        BY <3>1 DEF SubmitResults
      <3>3. QED  BY <3>1, <3>2, SubmitTask
    <2>5. CASE \E j \in Jobs, s \in Slots : LeaseExpires(j, s)
      BY <2>5 DEF LeaseExpires, netVars, Typed, TypeOK
    <2>6. CASE \E s \in Slots : BlockExpires(s)
      BY <2>6 DEF BlockExpires, netVars
    <2>7. CASE UNCHANGED dbVars /\ (batch' = batch \/ \E a \in Agents : batch' = [batch EXCEPT ![a] = NoBatch])
      BY <2>7 DEF dbVars, Typed, TypeOK
    <2>8. QED
      BY <2>1, <2>2, <2>3, <2>4, <2>5, <2>6, <2>7, StepCases DEF Typed
  <1>2. QED
    BY <1>1, InvHolds, PTL DEF Spec, LeaseIsHonoured

\* The blacklist changes only by time or together with a counted result.
THEOREM BlacklistHolds == Spec => BlacklistFollowsResults
  <1>1. Inv /\ [Next]_vars =>
          \A s \in Slots :
                  \/ blacklist'[s] = blacklist[s]
                  \/ BlockTimed(s)
                  \/ \E j \in Jobs : /\ task[j][s] # "completed" /\ task'[j][s] = "completed"
                                     /\ blacklist'[s] = IF result'[j][s] = "ok" THEN "none" ELSE "blocked"
    <2> SUFFICES ASSUME Inv, [Next]_vars, NEW s \in Slots
                 PROVE  \/ blacklist'[s] = blacklist[s]
                        \/ BlockTimed(s)
                        \/ \E j \in Jobs : /\ task[j][s] # "completed" /\ task'[j][s] = "completed"
                                           /\ blacklist'[s] = IF result'[j][s] = "ok" THEN "none" ELSE "blocked"
      OBVIOUS
    <2>1. CASE \E r \in submits : SubmitResults(r)
      <3>1. PICK r \in submits : SubmitResults(r)
        BY <2>1
      <3>2. blacklist'[s] = IF s \notin Reported(r) THEN blacklist[s]
                            ELSE IF VerdictOf(r, s) = "ok" THEN "none" ELSE "blocked"
        BY <3>1 DEF SubmitResults
      <3>3. QED
        BY <3>1, <3>2, SubmitTask DEF Inv, Leased
    <2>2. CASE \E t \in Slots : BlockExpires(t)
      BY <2>2 DEF BlockExpires, BlockTimed, Inv, Typed, TypeOK
    <2>3. CASE \E j \in Jobs, new \in SUBSET Slots : AddJob(j, new) /\ Renewed(new)
      <3>1. PICK j \in Jobs, new \in SUBSET Slots : AddJob(j, new) /\ Renewed(new)
        BY <2>3
      <3>2. task[j][s] = "none"
        BY <3>1, RowInvByJob DEF Inv, AddJob, JobOK, Rows
      <3>3. s \in new => task'[j][s] = "pending"
        BY <3>1 DEF AddJob, Inv, Typed, TypeOK
      <3>4. QED
        BY <3>1, <3>2, <3>3 DEF Renewed, BlockTimed
    <2>4. CASE blacklist' = blacklist
      BY <2>4
    <2>5. QED
      BY <2>1, <2>2, <2>3, <2>4, StepCases DEF StopScanJob, ClaimTasks, LeaseExpires, dbVars, Inv, Typed
  <1>2. QED
    BY <1>1, InvHolds, PTL DEF Spec, BlacklistFollowsResults

-----------------------------------------------------------------------------
(***************************************************************************)
(* Refinement of the job lifecycle.                                        *)
(***************************************************************************)
LEMMA InitLifecycle == Init => Lifecycle!Init
  BY DEF Init, Lifecycle!Init, OpenSlots, Recorded, Listed, Cancellable, Leased

LEMMA CreateLifecycle ==
  ASSUME Inv, NEW j \in Jobs, NEW inserted \in SUBSET Slots, AddJob(j, inserted), Renewed(inserted)
  PROVE  Lifecycle!Next
  <1>1. inserted \in SUBSET Slots /\ inserted # {} /\ jobStatus[j] = "none"
    BY DEF AddJob
  <1>2. /\ task' = [task EXCEPT ![j] = [s \in Slots |-> IF s \in inserted THEN "pending" ELSE "none"]]
        /\ task \in [Jobs -> [Slots -> TaskStatus]]
    BY DEF AddJob, Inv, Typed, TypeOK
  <1>3. OpenSlots' = [OpenSlots EXCEPT ![j] = inserted]
    <2>1. {s \in Slots : task'[j][s] \in Cancellable} = inserted
      BY <1>1, <1>2 DEF Cancellable, Leased
    <2>2. \A i \in Jobs \ {j} : task'[i] = task[i]
      BY <1>2
    <2>3. QED  BY <2>1, <2>2 DEF OpenSlots
  <1>4. jobStatus' = [jobStatus EXCEPT ![j] = "pending"] /\ Recorded' = Recorded /\ Listed' = Listed
    BY DEF AddJob, Renewed, Recorded, Listed
  <1>5. Lifecycle!Create(j, inserted)
    BY <1>1, <1>3, <1>4 DEF Lifecycle!Create
  <1>6. QED  BY <1>1, <1>5 DEF Lifecycle!Next

LEMMA StopLifecycle ==
  ASSUME Inv, NEW j \in Jobs, StopScanJob(j)
  PROVE  Lifecycle!Next
  <1>1. /\ task' = [task EXCEPT ![j] = Cancelled(task[j])]
        /\ task \in [Jobs -> [Slots -> TaskStatus]]
    BY DEF StopScanJob, Inv, Typed, TypeOK
  <1>2. OpenSlots' = [OpenSlots EXCEPT ![j] = {}]
    <2>1. {s \in Slots : task'[j][s] \in Cancellable} = {}
      BY <1>1 DEF Cancelled, Cancellable, Leased
    <2>2. \A i \in Jobs \ {j} : task'[i] = task[i]
      BY <1>1
    <2>3. QED  BY <2>1, <2>2 DEF OpenSlots
  <1>3. /\ jobStatus[j] \in Lifecycle!Unfinished
        /\ jobStatus' = [jobStatus EXCEPT ![j] = "stopped"] /\ Recorded' = Recorded /\ Listed' = Listed
    BY DEF StopScanJob, Recorded, Listed, Unfinished, Lifecycle!Unfinished
  <1>4. Lifecycle!Stop(j)
    BY <1>2, <1>3 DEF Lifecycle!Stop
  <1>5. QED  BY <1>4 DEF Lifecycle!Next

LEMMA ClaimLifecycle ==
  ASSUME Inv, NEW r \in claims, NEW j \in Jobs, NEW ips \in SUBSET IPs, ClaimTasks(r, j, ips)
  PROVE  Lifecycle!Next \/ UNCHANGED Lifecycle!vars
  <1>1. OpenSlots' = OpenSlots
    <2>1. \A i \in Jobs, s \in Slots : task'[i][s] \in Cancellable <=> task[i][s] \in Cancellable
      BY ClaimTask DEF Inv, Cancellable, Leased
    <2>2. QED  BY <2>1 DEF OpenSlots
  <1>2. /\ jobStatus' = [jobStatus EXCEPT ![j] = "running"] /\ Recorded' = Recorded /\ Listed' = Listed
        /\ jobStatus \in [Jobs -> JobStatus]
    BY DEF ClaimTasks, Recorded, Listed, Inv, Typed, TypeOK
  <1>3. CASE jobStatus[j] = "pending"
    <2>1. Lifecycle!Start(j)
      BY <1>1, <1>2, <1>3 DEF Lifecycle!Start
    <2>2. QED  BY <2>1 DEF Lifecycle!Next
  <1>4. CASE jobStatus[j] = "running"
    <2>1. jobStatus' = jobStatus
      BY <1>2, <1>4
    <2>2. QED  BY <1>1, <1>2, <2>1 DEF Lifecycle!vars
  <1>5. QED
    BY <1>3, <1>4, ClaimTask DEF Inv, Unfinished

LEMMA SubmitLifecycle ==
  ASSUME Inv, NEW r \in submits, SubmitResults(r)
  PROVE  Lifecycle!Next
  <1> DEFINE j    == r.job
             done == Reported(r)
             bad  == {s \in done : VerdictOf(r, s) = "bad"}
  <1>1. /\ j \in Jobs /\ done # {} /\ done \in SUBSET Slots /\ bad \in SUBSET done
        /\ \A s \in done : task[j][s] \in Leased /\ task'[j][s] = "completed" /\ result'[j][s] # "none"
        /\ \A s \in Slots \ done : task'[j][s] = task[j][s] /\ result'[j][s] = result[j][s]
        /\ \A i \in Jobs \ {j} : task'[i] = task[i] /\ result'[i] = result[i]
    BY SubmitTask DEF Inv, Verdict
  <1>2. done \subseteq OpenSlots[j]
    BY <1>1 DEF OpenSlots, Cancellable
  <1>3. OpenSlots' = [OpenSlots EXCEPT ![j] = OpenSlots[j] \ done]
    <2>1. {s \in Slots : task'[j][s] \in Cancellable} = {s \in Slots : task[j][s] \in Cancellable} \ done
      BY <1>1 DEF Cancellable, Leased
    <2>2. QED  BY <1>1, <2>1 DEF OpenSlots
  <1>4. Recorded' = [Recorded EXCEPT ![j] = Recorded[j] \cup done]
    <2>1. {s \in Slots : result'[j][s] # "none"} = {s \in Slots : result[j][s] # "none"} \cup done
      BY <1>1
    <2>2. QED  BY <1>1, <2>1 DEF Recorded
  <1>5. Listed' = (Listed \ done) \cup bad
    <2>1. \A s \in Slots : blacklist'[s] = IF s \notin done THEN blacklist[s]
                            ELSE IF VerdictOf(r, s) = "ok" THEN "none" ELSE "blocked"
      BY DEF SubmitResults
    <2>2. \A s : VerdictOf(r, s) = "ok" <=> VerdictOf(r, s) # "bad"
      BY DEF VerdictOf
    <2>3. QED  BY <1>1, <2>1, <2>2 DEF Listed
  <1>6. jobStatus[j] = "running"
    <2>1. PICK s \in done : TRUE
      BY <1>1
    <2>2. s \in Rows(task, j) /\ task[j][s] \in Cancellable /\ task[j][s] # "pending"
      BY <1>1, <2>1 DEF Rows, Cancellable, Leased
    <2>3. JobOK(j)
      BY <1>1, RowInvByJob DEF Inv
    <2>4. jobStatus[j] \in Unfinished /\ jobStatus[j] # "pending"
      BY <1>1, <2>2, <2>3 DEF JobOK
    <2>5. QED  BY <2>4 DEF Unfinished
  <1>7. jobStatus' = [jobStatus EXCEPT ![j] = IF OpenSlots[j] \subseteq done THEN "completed" ELSE "running"]
    <2>1. jobStatus'[j] = "completed" <=> OpenSlots[j] \subseteq done
      <3>1. JobOK(j)'
        BY <1>1, SubmitRows, RowInvByJobNext DEF Inv
      <3>2. jobStatus'[j] \in Unfinished <=> OpenSlots'[j] # {}
        BY <1>1, <3>1 DEF JobOK, OpenSlots
      <3>3. jobStatus'[j] \in {"completed", "running"}
        BY SubmitTask DEF Inv, StatusAfter
      <3>4. OpenSlots'[j] = OpenSlots[j] \ done
        BY <1>1, <1>3 DEF OpenSlots
      <3>5. QED  BY <3>2, <3>3, <3>4 DEF Unfinished
    <2>2. /\ jobStatus'[j] \in {"completed", "running"}
          /\ jobStatus' = [jobStatus EXCEPT ![j] = jobStatus'[j]]
      <3>1. jobStatus' = [jobStatus EXCEPT ![j] = StatusAfter(task', j)] /\ jobStatus \in [Jobs -> JobStatus]
        BY DEF SubmitResults, Inv, Typed, TypeOK
      <3>2. QED  BY <1>1, <3>1, SubmitTask DEF Inv, StatusAfter
    <2>3. QED  BY <2>1, <2>2
  <1>8. Lifecycle!Report(j, done, bad)
    BY <1>1, <1>2, <1>3, <1>4, <1>5, <1>6, <1>7 DEF Lifecycle!Report
  <1>9. QED  BY <1>1, <1>8 DEF Lifecycle!Next

LEMMA TimeLifecycle ==
  ASSUME Inv, (\E j \in Jobs, s \in Slots : LeaseExpires(j, s)) \/ (\E s \in Slots : BlockExpires(s))
              \/ UNCHANGED dbVars
  PROVE  UNCHANGED Lifecycle!vars
  <1>1. CASE \E j \in Jobs, s \in Slots : LeaseExpires(j, s)
    <2>1. \A i \in Jobs, s \in Slots : task'[i][s] \in Cancellable <=> task[i][s] \in Cancellable
      BY <1>1 DEF LeaseExpires, Inv, Typed, TypeOK, Cancellable, Leased
    <2>2. OpenSlots' = OpenSlots
      BY <2>1 DEF OpenSlots
    <2>3. QED  BY <1>1, <2>2 DEF LeaseExpires, Lifecycle!vars, Recorded, Listed
  <1>2. CASE \E s \in Slots : BlockExpires(s)
    <2>1. \A s \in Slots : blacklist'[s] # "none" <=> blacklist[s] # "none"
      BY <1>2 DEF BlockExpires, Inv, Typed, TypeOK
    <2>2. Listed' = Listed
      BY <2>1 DEF Listed
    <2>3. QED  BY <1>2, <2>2 DEF BlockExpires, Lifecycle!vars, Recorded, OpenSlots
  <1>3. CASE UNCHANGED dbVars
    BY <1>3 DEF dbVars, Lifecycle!vars, Recorded, OpenSlots, Listed
  <1>4. QED  BY <1>1, <1>2, <1>3

\* Jobs, tasks, leases and messages implement the job lifecycle: each of
\* their steps is a step of it or changes nothing it can see.
THEOREM LifecycleImplemented == Spec => ImplementsLifecycle
  <1>1. Inv /\ [Next]_vars => [Lifecycle!Next]_(Lifecycle!vars)
    BY StepCases, CreateLifecycle, StopLifecycle, ClaimLifecycle, SubmitLifecycle, TimeLifecycle DEF Inv, Typed
  <1>2. QED
    BY <1>1, InitLifecycle, InvHolds, PTL DEF Spec, ImplementsLifecycle, Lifecycle!Spec

\* What follows from the lifecycle alone, for whatever implements it: a job is finished when,
\* and only when, nothing in it is open, and what is on the blacklist has been scanned.
THEOREM LifecyclePromise == Lifecycle!Spec => []Lifecycle!Promise
  <1> DEFINE T == Lifecycle!TypeOK
             P == Lifecycle!Promise
  <1>1. Lifecycle!Init => T /\ P
    BY DEF Lifecycle!Init, Lifecycle!TypeOK, Lifecycle!Promise, Lifecycle!Unfinished
  <1>2. T /\ P /\ [Lifecycle!Next]_(Lifecycle!vars) => T' /\ P'
    <2> SUFFICES ASSUME T, P, [Lifecycle!Next]_(Lifecycle!vars) PROVE T' /\ P'
      OBVIOUS
    <2> USE DEF Lifecycle!TypeOK, Lifecycle!Promise, Lifecycle!Unfinished, Lifecycle!Finished
    <2>1. ASSUME NEW j \in Jobs, NEW targets \in SUBSET Slots, Lifecycle!Create(j, targets)
          PROVE  T' /\ P'
      BY <2>1 DEF Lifecycle!Create
    <2>2. ASSUME NEW j \in Jobs, Lifecycle!Start(j) PROVE T' /\ P'
      BY <2>2 DEF Lifecycle!Start
    <2>3. ASSUME NEW j \in Jobs, NEW slots \in SUBSET Slots, NEW bad \in SUBSET slots,
                 Lifecycle!Report(j, slots, bad)
          PROVE  T' /\ P'
      BY <2>3 DEF Lifecycle!Report
    <2>4. ASSUME NEW j \in Jobs, Lifecycle!Stop(j) PROVE T' /\ P'
      BY <2>4 DEF Lifecycle!Stop
    <2>5. CASE UNCHANGED Lifecycle!vars
      BY <2>5 DEF Lifecycle!vars
    <2>. QED  BY <2>1, <2>2, <2>3, <2>4, <2>5 DEF Lifecycle!Next
  <1>3. T /\ P => Lifecycle!Promise
    OBVIOUS
  <1>. QED  BY <1>1, <1>2, <1>3, PTL DEF Lifecycle!Spec
=============================================================================
