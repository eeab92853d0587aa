--------------------------- MODULE SchedulesProofs ---------------------------
(***************************************************************************)
(* Theorems about Schedules, for any number of schedules, jobs, requests,  *)
(* edits and faults.                                                       *)
(***************************************************************************)
EXTENDS Schedules, TLAPS

HeldBySome(s) == \E l \in Loops : s \in Held(l)

\* A job is remembered only to be recorded, a claimed schedule is worked on
\* once, and a run by hand marks its schedule.
Tidy ==
    /\ \A w \in Workers : made[w] # NoJob => pc[w] = "record"
    /\ \A l \in Loops : pc[l] # "idle" => item[l] \notin queue[l]
    /\ \A w \in Clerks : pc[w] # "idle" => item[w] \in loose

\* The open job that the loop l may have created for s.
MadeFor(l, s) == IF pc[l] = "record" /\ item[l] = s THEN {made[l]} ELSE {}

\* A lease has one holder, who starts from a schedule without open job, and
\* an open job of a schedule that no loop holds is its last one.
Guarded(s) ==
    /\ ~(s \in Held(Ticker) /\ s \in Held(Startup))
    /\ row[s] = "absent" => OpenJobs(s) = {} /\ ~HeldBySome(s)
    /\ \A l \in Loops : s \in Held(l) => next[s] # "due" /\ OpenJobs(s) \subseteq MadeFor(l, s)
    /\ ~HeldBySome(s) => /\ \A i, j \in OpenJobs(s) : i = j
                         /\ Exists(s) => OpenJobs(s) \subseteq {lastJob[s]}

IInv == TypeOK /\ Tidy /\ \A s \in Schedules \ loose : Guarded(s)

-----------------------------------------------------------------------------
(***************************************************************************)
(* Types.                                                                  *)
(***************************************************************************)
LEMMA InitTyped == Init => TypeOK
  <1> SUFFICES ASSUME Init PROVE TypeOK
    OBVIOUS
  <1>1. jobOf \in [Jobs -> Schedules]
    BY DEF Init
  <1>2. item \in [Workers -> Schedules]
    BY DEF Init
  <1>. QED  BY <1>1, <1>2 DEF Init, TypeOK

\* Every step keeps the types; the new values are those the code can write.
LEMMA Typing == TypeOK /\ [Next]_vars => TypeOK'
  <1> SUFFICES ASSUME TypeOK, [Next]_vars PROVE TypeOK'
    OBVIOUS
  <1> USE SchedulesAssumption DEF TypeOK, jobVars, workerVars
  <1>1. CASE Administer
    <2> USE DEF Edit, Workers
    <2>1. CASE \E s \in Schedules, status \in {"enabled", "disabled"} : CreateScanSchedule(s, status)
      BY <2>1 DEF CreateScanSchedule
    <2>2. CASE \E s \in Schedules, status \in {"enabled", "disabled"} : UpdateScanSchedule(s, status)
      BY <2>2 DEF UpdateScanSchedule
    <2>3. CASE \E s \in Schedules : DeleteScanSchedule(s)
      BY <2>3 DEF DeleteScanSchedule
    <2>4. CASE \E q \in Clerks, s \in Schedules : RunScheduleNow(q, s)
      BY <2>4 DEF RunScheduleNow
    <2>. QED  BY <1>1, <2>1, <2>2, <2>3, <2>4 DEF Administer
  <1>2. ASSUME NEW l \in Loops, Dispatch(l) PROVE TypeOK'
    <2> USE DEF Workers
    <2>1. CASE \E picked \in SUBSET Schedules : ClaimDueScanSchedules(l, picked)
      BY <2>1 DEF ClaimDueScanSchedules
    <2>2. CASE \E s \in Schedules : StartRun(l, s)
      BY <2>2 DEF StartRun
    <2>. QED  BY <1>2, <2>1, <2>2 DEF Dispatch
  <1>3. ASSUME NEW w \in Workers, Run(w) PROVE TypeOK'
    <2>1. CASE \E j \in Jobs : CreateJob(w, j)
      BY <1>3, <2>1 DEF CreateJob, NewJob
    <2>2. CASE CreateNothing(w)
      BY <1>3, <2>2 DEF CreateNothing
    <2>3. CASE \E time \in {"planned", "due"} : RecordScanScheduleRun(w, time)
      BY <1>3, <2>3 DEF RecordScanScheduleRun, Done
    <2>. QED  BY <1>3, <2>1, <2>2, <2>3 DEF Run
  <1>4. CASE Fail
    <2>0. \A ws \in SUBSET Workers : Unrecorded(ws) \subseteq Schedules
      BY DEF Unrecorded
    <2>1. CASE \E l \in Loops, s \in Schedules : StartRunFails(l, s)
      BY <2>1 DEF StartRunFails
    <2>2. CASE \E w \in Workers, j \in Jobs : CreateUnnoticed(w, j)
      BY <2>2 DEF CreateUnnoticed, NewJob
    <2>3. CASE \E w \in Workers : RecordFails(w)
      BY <2>0, <2>3 DEF RecordFails, Done
    <2>4. CASE RestartCenter
      <3>1. Unrecorded(Workers) \subseteq Schedules
        BY <2>0
      <3>2. loose' \subseteq Schedules
        BY <2>4, <3>1 DEF RestartCenter
      <3>3. /\ queue' \in [Loops -> SUBSET Schedules]
            /\ pc' \in [Workers -> {"idle", "create", "record"}]
            /\ made' \in [Workers -> Jobs \cup {NoJob}]
        BY <2>4 DEF RestartCenter
      <3>4. started' \in BOOLEAN
        BY <2>4, Zenon DEF RestartCenter
      <3>5. faults' \in Nat
        BY <2>4 DEF RestartCenter
      <3>. QED  BY <2>4, <3>2, <3>3, <3>4, <3>5 DEF RestartCenter
    <2>. QED  BY <1>4, <2>1, <2>2, <2>3, <2>4 DEF Fail
  <1>5. CASE \E j \in Jobs : FinishJob(j)
    BY <1>5 DEF FinishJob
  <1>6. CASE \E s \in Schedules : TimePasses(s)
    BY <1>6 DEF TimePasses
  <1>7. CASE UNCHANGED vars
    BY <1>7 DEF vars
  <1>. QED  BY <1>1, <1>2, <1>3, <1>4, <1>5, <1>6, <1>7 DEF Next

\* Every variable keeps its type.
THEOREM TypeCorrect == Spec => []TypeOK
  <1>. QED  BY InitTyped, Typing, PTL DEF Spec

-----------------------------------------------------------------------------
(***************************************************************************)
(* The overlap guard.                                                      *)
(***************************************************************************)
LEMMA InitInv == Init => IInv
  <1> SUFFICES ASSUME Init PROVE IInv
    OBVIOUS
  <1>1. TypeOK
    BY InitTyped
  <1>2. Tidy
    BY SchedulesAssumption DEF Init, Tidy, Workers
  <1>3. ASSUME NEW s \in Schedules PROVE Guarded(s)
    BY SchedulesAssumption DEF Init, Guarded, HeldBySome, Held, OpenJobs, Exists, Loops, Workers
  <1>. QED  BY <1>1, <1>2, <1>3 DEF IInv

\* A step that changes nothing a schedule's guard speaks of, or only ends jobs
\* and writes the times while nobody holds it, keeps the guard.
LEMMA Untouched ==
  ASSUME NEW s \in Schedules, Guarded(s),
         row'[s] = row[s], lastJob'[s] = lastJob[s],
         OpenJobs(s)' \subseteq OpenJobs(s),
         \A l \in Loops : /\ Held(l)' = Held(l) \/ (s \in Held(l) <=> s \in Held(l)')
                          /\ s \in Held(l) => next'[s] # "due" /\ MadeFor(l, s)' = MadeFor(l, s)
  PROVE  Guarded(s)'
  BY DEF Guarded, HeldBySome, Exists, Loops

LEMMA TidyStep == IInv /\ [Next]_vars => Tidy'
  <1> SUFFICES ASSUME IInv, [Next]_vars PROVE Tidy'
    OBVIOUS
  <1> USE SchedulesAssumption DEF IInv, Tidy, TypeOK, jobVars, workerVars
  <1>1. CASE Administer
    BY <1>1 DEF Administer, CreateScanSchedule, UpdateScanSchedule, DeleteScanSchedule,
                RunScheduleNow, Workers
  <1>2. ASSUME NEW l \in Loops, Dispatch(l) PROVE Tidy'
    BY <1>2 DEF Dispatch, ClaimDueScanSchedules, StartRun, Workers, Busy
  <1>3. ASSUME NEW w \in Workers, Run(w) PROVE Tidy'
    <2>1. CASE \E j \in Jobs : CreateJob(w, j)
      BY <1>3, <2>1 DEF CreateJob, NewJob, Workers
    <2>2. CASE CreateNothing(w)
      BY <1>3, <2>2 DEF CreateNothing, Workers
    <2>3. CASE \E time \in {"planned", "due"} : RecordScanScheduleRun(w, time)
      BY <1>3, <2>3 DEF RecordScanScheduleRun, Done, Workers
    <2>. QED  BY <1>3, <2>1, <2>2, <2>3 DEF Run
  <1>4. CASE Fail
    <2>1. CASE \E l \in Loops, s \in Schedules : StartRunFails(l, s)
      BY <2>1 DEF StartRunFails
    <2>2. CASE \E w \in Workers, j \in Jobs : CreateUnnoticed(w, j)
      BY <2>2 DEF CreateUnnoticed, NewJob, Workers
    <2>3. CASE \E w \in Workers : RecordFails(w)
      BY <2>3 DEF RecordFails, Done, Workers
    <2>4. CASE RestartCenter
      BY <2>4 DEF RestartCenter, Workers
    <2>. QED  BY <1>4, <2>1, <2>2, <2>3, <2>4 DEF Fail
  <1>5. CASE \E j \in Jobs : FinishJob(j)
    BY <1>5 DEF FinishJob
  <1>6. CASE \E s \in Schedules : TimePasses(s)
    BY <1>6 DEF TimePasses
  <1>7. CASE UNCHANGED vars
    BY <1>7 DEF vars
  <1>. QED  BY <1>1, <1>2, <1>3, <1>4, <1>5, <1>6, <1>7 DEF Next

LEMMA AdministerStep ==
  ASSUME IInv, Administer, NEW s \in Schedules \ loose' PROVE Guarded(s)'
  <1> USE SchedulesAssumption DEF IInv, TypeOK, jobVars, workerVars
  <1>0. s \notin loose /\ Guarded(s)
    BY DEF Administer, CreateScanSchedule, UpdateScanSchedule, DeleteScanSchedule, RunScheduleNow
  <1>1. ASSUME NEW t \in Schedules, NEW status \in {"enabled", "disabled"},
               CreateScanSchedule(t, status)
        PROVE  Guarded(s)'
    BY <1>0, <1>1 DEF CreateScanSchedule, Guarded, HeldBySome, Held, OpenJobs, MadeFor, Exists
  <1>2. ASSUME NEW t \in Schedules, NEW status \in {"enabled", "disabled"},
               UpdateScanSchedule(t, status)
        PROVE  Guarded(s)'
    BY <1>0, <1>2 DEF UpdateScanSchedule, Guarded, HeldBySome, Held, OpenJobs, MadeFor, Exists
  <1>3. ASSUME NEW t \in Schedules, DeleteScanSchedule(t) PROVE Guarded(s)'
    BY <1>0, <1>3 DEF DeleteScanSchedule, Guarded, HeldBySome, Held, OpenJobs, MadeFor, Exists
  <1>4. ASSUME NEW q \in Clerks, NEW t \in Schedules, RunScheduleNow(q, t) PROVE Guarded(s)'
    <2>1. \A l \in Loops : pc'[l] = pc[l] /\ item'[l] = item[l]
      BY <1>4 DEF RunScheduleNow, Workers
    <2>. QED  BY <1>0, <1>4, <2>1 DEF RunScheduleNow, Guarded, HeldBySome, Held, OpenJobs, MadeFor, Exists
  <1>. QED  BY <1>1, <1>2, <1>3, <1>4 DEF Administer

LEMMA DispatchStep ==
  ASSUME IInv, NEW l \in Loops, Dispatch(l), NEW s \in Schedules \ loose' PROVE Guarded(s)'
  <1> USE SchedulesAssumption DEF IInv, TypeOK, jobVars, workerVars
  <1>0. s \notin loose /\ Guarded(s)
    BY DEF Dispatch, ClaimDueScanSchedules, StartRun
  <1>1. ASSUME NEW picked \in SUBSET Schedules, ClaimDueScanSchedules(l, picked)
        PROVE  Guarded(s)'
    <2>1. /\ Held(l) = {} /\ Held(l)' = picked
          /\ \A k \in Loops \ {l} : Held(k)' = Held(k)
          /\ \A k \in Loops : MadeFor(k, s)' = MadeFor(k, s)
          /\ OpenJobs(s)' = OpenJobs(s)
      BY <1>1 DEF ClaimDueScanSchedules, Busy, Held, MadeFor, OpenJobs, Workers
    <2>2. CASE s \in picked
      <3>1. row[s] = "enabled" /\ next[s] = "due" /\ lastJob[s] \notin open
        BY <1>1, <2>2 DEF ClaimDueScanSchedules, Claimable
      <3>2. ~HeldBySome(s)
        BY <1>0, <3>1 DEF Guarded, HeldBySome
      <3>3. OpenJobs(s) = {}
        BY <1>0, <3>1, <3>2 DEF Guarded, Exists, OpenJobs
      <3>4. row'[s] = row[s] /\ next'[s] = "leased"
        BY <1>1, <2>2 DEF ClaimDueScanSchedules
      <3>. QED  BY <2>1, <2>2, <3>1, <3>2, <3>3, <3>4 DEF Guarded, HeldBySome, Loops
    <2>3. CASE s \notin picked
      <3>1. row'[s] = row[s] /\ next'[s] = next[s] /\ lastJob'[s] = lastJob[s]
        BY <1>1, <2>3 DEF ClaimDueScanSchedules
      <3>2. \A k \in Loops : s \in Held(k) <=> s \in Held(k)'
        BY <2>1, <2>3
      <3>3. \A k \in Loops : s \in Held(k) => next[s] # "due"
        BY <1>0 DEF Guarded
      <3>. QED  BY <1>0, <2>1, <3>1, <3>2, <3>3, Untouched
    <2>. QED  BY <2>2, <2>3
  <1>2. ASSUME NEW t \in Schedules, StartRun(l, t) PROVE Guarded(s)'
    <2>1. \A k \in Loops : Held(k)' = Held(k)
      BY <1>2 DEF StartRun, Held, Workers
    <2>2. \A k \in Loops : MadeFor(k, s)' = MadeFor(k, s)
      BY <1>2 DEF StartRun, MadeFor, Workers
    <2>3. \A k \in Loops : s \in Held(k) => next[s] # "due"
      BY <1>0 DEF Guarded
    <2>4. OpenJobs(s)' = OpenJobs(s) /\ row' = row /\ lastJob' = lastJob /\ next' = next
      BY <1>2 DEF StartRun, OpenJobs
    <2>. QED  BY <1>0, <2>1, <2>2, <2>3, <2>4, Untouched
  <1>. QED  BY <1>1, <1>2 DEF Dispatch

\* A new job is of the schedule its worker works on, which had none open, or
\* is loose.
LEMMA NewJobStep ==
  ASSUME IInv, NEW w \in Workers, NEW j \in Jobs, NewJob(w, j),
         UNCHANGED <<row, next, lastJob, queue, item>>,
         \/ made' = [made EXCEPT ![w] = j] /\ loose' = loose
         \/ made' = made /\ loose' = loose \cup {item[w]},
         NEW s \in Schedules \ loose'
  PROVE  Guarded(s)'
  <1> USE SchedulesAssumption DEF IInv, TypeOK
  <1>0. s \notin loose /\ Guarded(s)
    OBVIOUS
  <1>1. pc[w] = "create" /\ j \notin open
    BY DEF NewJob, Free
  <1>2. \A l \in Loops : Held(l)' = Held(l)
    BY DEF NewJob, Held, Workers
  <1>3. CASE s # item[w]
    <2>1. OpenJobs(s)' = OpenJobs(s)
      BY <1>1, <1>3 DEF NewJob, OpenJobs
    <2>2. \A l \in Loops : MadeFor(l, s)' = MadeFor(l, s)
      BY <1>1, <1>3 DEF NewJob, MadeFor, Workers
    <2>3. \A l \in Loops : s \in Held(l) => next[s] # "due"
      BY <1>0 DEF Guarded
    <2>. QED  BY <1>0, <1>2, <2>1, <2>2, <2>3, Untouched
  <1>4. CASE s = item[w]
    <2>1. made' = [made EXCEPT ![w] = j]
      BY <1>4
    <2>2. w \in Loops /\ s \in Held(w)
      BY <1>0, <1>1, <1>4 DEF Tidy, Workers, Held
    <2>3. OpenJobs(s) = {}
      BY <1>0, <1>1, <2>2 DEF Guarded, MadeFor
    <2>4. OpenJobs(s)' = {j}
      BY <1>4, <2>3 DEF NewJob, OpenJobs
    <2>5. MadeFor(w, s)' = {j}
      BY <1>4, <2>1, <2>2 DEF NewJob, MadeFor
    <2>6. \A l \in Loops : s \in Held(l) => l = w
      BY <1>0, <2>2 DEF Guarded, Loops
    <2>7. row[s] # "absent" /\ next[s] # "due"
      BY <1>0, <2>2 DEF Guarded, HeldBySome
    <2>. QED  BY <1>0, <1>2, <2>2, <2>4, <2>5, <2>6, <2>7 DEF Guarded, HeldBySome, Loops
  <1>. QED  BY <1>3, <1>4

\* A worker is done: its schedule has the job as its last one, if it is a
\* loop that had been told of one, or is loose.
LEMMA RecordStep ==
  ASSUME IInv, NEW w \in Workers, NEW time \in {"planned", "due"}, RecordScanScheduleRun(w, time),
         NEW s \in Schedules \ loose'
  PROVE  Guarded(s)'
  <1> USE SchedulesAssumption DEF IInv, TypeOK, jobVars
  <1>0. s \notin loose /\ Guarded(s)
    BY DEF RecordScanScheduleRun
  <1>1. OpenJobs(s)' = OpenJobs(s) /\ row' = row
    BY DEF RecordScanScheduleRun, OpenJobs
  <1>2. \A l \in Loops \ {w} : Held(l)' = Held(l) /\ MadeFor(l, s)' = MadeFor(l, s)
    BY DEF RecordScanScheduleRun, Done, Held, MadeFor, Workers
  <1>3. CASE s # item[w]
    <2>1. next'[s] = next[s] /\ lastJob'[s] = lastJob[s]
      BY <1>3 DEF RecordScanScheduleRun
    <2>2. w \in Loops => (s \in Held(w) <=> s \in Held(w)') /\ MadeFor(w, s)' = MadeFor(w, s)
      BY <1>3 DEF RecordScanScheduleRun, Done, Held, MadeFor
    <2>3. \A l \in Loops : s \in Held(l) => next[s] # "due"
      BY <1>0 DEF Guarded
    <2>4. \A l \in Loops : (s \in Held(l) <=> s \in Held(l)') /\ MadeFor(l, s)' = MadeFor(l, s)
      BY <1>2, <2>2
    <2>. QED  BY <1>0, <1>1, <2>1, <2>3, <2>4, Untouched
  <1>4. CASE s = item[w]
    <2>1. w \in Loops /\ s \in Held(w)
      BY <1>0, <1>4 DEF RecordScanScheduleRun, Tidy, Workers, Held
    <2>2. OpenJobs(s) \subseteq {made[w]}
      BY <1>0, <1>4, <2>1 DEF Guarded, MadeFor, RecordScanScheduleRun
    <2>3. \A l \in Loops : s \notin Held(l)'
      <3>1. s \notin Held(w)'
        BY <1>4, <2>1 DEF RecordScanScheduleRun, Done, Held, Tidy
      <3>2. \A l \in Loops \ {w} : s \notin Held(l)
        BY <1>0, <2>1 DEF Guarded, Loops
      <3>. QED  BY <1>2, <3>1, <3>2
    <2>4. Exists(s) => lastJob'[s] = made[w]
      BY <1>4 DEF RecordScanScheduleRun
    <2>5. row[s] # "absent"
      BY <1>0, <2>1 DEF Guarded, HeldBySome
    <2>. QED  BY <1>1, <2>2, <2>3, <2>4, <2>5 DEF Guarded, HeldBySome, Exists, Loops
  <1>. QED  BY <1>3, <1>4

LEMMA RunStep ==
  ASSUME IInv, NEW w \in Workers, Run(w), NEW s \in Schedules \ loose' PROVE Guarded(s)'
  <1>1. ASSUME NEW j \in Jobs, CreateJob(w, j) PROVE Guarded(s)'
    BY <1>1, NewJobStep DEF CreateJob
  <1>2. CASE CreateNothing(w)
    <2> USE SchedulesAssumption DEF IInv, TypeOK, jobVars
    <2>1. Guarded(s)
      BY <1>2 DEF CreateNothing
    <2>2. \A l \in Loops : Held(l)' = Held(l)
      BY <1>2 DEF CreateNothing, Held, Workers
    <2>3. \A l \in Loops : s \in Held(l) => OpenJobs(s) \subseteq MadeFor(l, s)'
      BY <1>2, <2>1 DEF CreateNothing, Guarded, MadeFor, Workers
    <2>4. OpenJobs(s)' = OpenJobs(s) /\ row' = row /\ lastJob' = lastJob /\ next' = next
      BY <1>2 DEF CreateNothing, OpenJobs
    <2>. QED  BY <2>1, <2>2, <2>3, <2>4 DEF Guarded, HeldBySome, Exists, Loops
  <1>3. ASSUME NEW time \in {"planned", "due"}, RecordScanScheduleRun(w, time) PROVE Guarded(s)'
    BY <1>3, RecordStep
  <1>. QED  BY <1>1, <1>2, <1>3 DEF Run

\* A loop lets a schedule go without a job of its own: none was open.
LEMMA LetGo ==
  ASSUME NEW s \in Schedules, Guarded(s),
         row' = row, lastJob' = lastJob, next' = next, OpenJobs(s)' = OpenJobs(s),
         \A l \in Loops : \/ (s \in Held(l) <=> s \in Held(l)') /\ MadeFor(l, s)' = MadeFor(l, s)
                          \/ s \notin Held(l)' /\ OpenJobs(s) = {}
  PROVE  Guarded(s)'
  BY DEF Guarded, HeldBySome, Exists, Loops

LEMMA FailStep ==
  ASSUME IInv, Fail, NEW s \in Schedules \ loose' PROVE Guarded(s)'
  <1> USE SchedulesAssumption DEF IInv, TypeOK, jobVars
  <1>0. s \notin loose /\ Guarded(s)
    BY DEF Fail, StartRunFails, CreateUnnoticed, RecordFails, RestartCenter
  <1>1. ASSUME NEW l \in Loops, NEW t \in Schedules, StartRunFails(l, t) PROVE Guarded(s)'
    <2>1. \A k \in Loops : MadeFor(k, s)' = MadeFor(k, s)
      BY <1>1 DEF StartRunFails, MadeFor
    <2>2. \A k \in Loops : (s \in Held(k) <=> s \in Held(k)') \/ (k = l /\ t = s /\ s \notin Held(k)')
      BY <1>1 DEF StartRunFails, Held
    <2>3. t = s => OpenJobs(s) = {}
      BY <1>0, <1>1 DEF StartRunFails, Guarded, Held, MadeFor
    <2>4. OpenJobs(s)' = OpenJobs(s) /\ row' = row /\ lastJob' = lastJob /\ next' = next
      BY <1>1 DEF StartRunFails, OpenJobs
    <2>. QED  BY <1>0, <2>1, <2>2, <2>3, <2>4, LetGo
  <1>2. ASSUME NEW w \in Workers, NEW j \in Jobs, CreateUnnoticed(w, j) PROVE Guarded(s)'
    BY <1>2, NewJobStep DEF CreateUnnoticed
  <1>3. ASSUME NEW w \in Workers, RecordFails(w) PROVE Guarded(s)'
    <2>1. OpenJobs(s)' = OpenJobs(s) /\ row' = row /\ lastJob' = lastJob /\ next' = next
      BY <1>3 DEF RecordFails, OpenJobs
    <2>2. \A l \in Loops \ {w} : Held(l)' = Held(l) /\ MadeFor(l, s)' = MadeFor(l, s)
      BY <1>3 DEF RecordFails, Done, Held, MadeFor, Workers
    <2>3. CASE w \notin Loops \/ s # item[w]
      <3>1. w \in Loops => (s \in Held(w) <=> s \in Held(w)') /\ MadeFor(w, s)' = MadeFor(w, s)
        BY <1>3, <2>3 DEF RecordFails, Done, Held, MadeFor
      <3>. QED  BY <1>0, <2>1, <2>2, <3>1, LetGo
    <2>4. CASE w \in Loops /\ s = item[w]
      <3>1. made[w] = NoJob
        BY <1>3, <2>4 DEF RecordFails, Unrecorded
      <3>2. OpenJobs(s) = {}
        BY <1>0, <1>3, <2>4, <3>1 DEF RecordFails, Guarded, Held, MadeFor, OpenJobs
      <3>3. s \notin Held(w)'
        BY <1>3, <2>4 DEF RecordFails, Done, Held, Tidy
      <3>. QED  BY <1>0, <2>1, <2>2, <3>2, <3>3, LetGo
    <2>. QED  BY <2>3, <2>4
  <1>4. CASE RestartCenter
    <2>1. OpenJobs(s)' = OpenJobs(s) /\ row' = row /\ lastJob' = lastJob /\ next' = next
      BY <1>4 DEF RestartCenter, OpenJobs
    <2>2. \A l \in Loops : s \notin Held(l)'
      BY <1>4 DEF RestartCenter, Held, Workers
    <2>3. HeldBySome(s) => OpenJobs(s) = {}
      <3>1. \A w \in Workers : item[w] = s => made[w] = NoJob
        BY <1>4 DEF RestartCenter, Unrecorded
      <3>. QED  BY <1>0, <3>1 DEF HeldBySome, Guarded, MadeFor, OpenJobs, Workers
    <2>4. ~HeldBySome(s)'
      BY <2>2 DEF HeldBySome
    <2>. QED  BY <1>0, <2>1, <2>2, <2>3, <2>4 DEF Guarded, HeldBySome, Exists, Loops
  <1>. QED  BY <1>1, <1>2, <1>3, <1>4 DEF Fail

LEMMA FinishStep ==
  ASSUME IInv, NEW j \in Jobs, FinishJob(j), NEW s \in Schedules \ loose' PROVE Guarded(s)'
  <1> USE DEF FinishJob, workerVars
  <1>1. Guarded(s)
    BY DEF IInv
  <1>2. OpenJobs(s)' \subseteq OpenJobs(s)
    BY DEF OpenJobs
  <1>3. \A l \in Loops : Held(l)' = Held(l) /\ MadeFor(l, s)' = MadeFor(l, s)
    BY DEF Held, MadeFor
  <1>4. \A l \in Loops : s \in Held(l) => next[s] # "due"
    BY <1>1 DEF Guarded
  <1>. QED  BY <1>1, <1>2, <1>3, <1>4, Untouched

LEMMA TimeStep ==
  ASSUME IInv, NEW t \in Schedules, TimePasses(t), NEW s \in Schedules \ loose' PROVE Guarded(s)'
  <1> USE DEF TimePasses, workerVars, jobVars
  <1>1. s \notin loose /\ Guarded(s)
    BY DEF IInv
  <1>2. OpenJobs(s)' = OpenJobs(s)
    BY DEF OpenJobs
  <1>3. \A l \in Loops : Held(l)' = Held(l) /\ MadeFor(l, s)' = MadeFor(l, s)
    BY DEF Held, MadeFor
  <1>4. \A l \in Loops : s \in Held(l) => s # t /\ next[s] # "due"
    BY <1>1 DEF Guarded
  <1>5. s # t => next'[s] = next[s]
    BY DEF IInv, TypeOK
  <1>. QED  BY <1>1, <1>2, <1>3, <1>4, <1>5, Untouched

LEMMA Inductive == IInv /\ [Next]_vars => IInv'
  <1> SUFFICES ASSUME IInv, [Next]_vars PROVE IInv'
    OBVIOUS
  <1>1. TypeOK' /\ Tidy'
    BY Typing, TidyStep DEF IInv
  <1>2. ASSUME NEW s \in Schedules \ loose' PROVE Guarded(s)'
    <2>1. CASE UNCHANGED vars
      <3>1. Guarded(s) /\ row' = row /\ next' = next /\ lastJob' = lastJob /\ OpenJobs(s)' = OpenJobs(s)
        BY <2>1 DEF vars, IInv, OpenJobs
      <3>2. \A l \in Loops : Held(l)' = Held(l) /\ MadeFor(l, s)' = MadeFor(l, s)
        BY <2>1 DEF vars, Held, MadeFor
      <3>. QED  BY <3>1, <3>2, LetGo
    <2>. QED  BY <2>1, AdministerStep, DispatchStep, RunStep, FailStep, FinishStep, TimeStep DEF Next
  <1>. QED  BY <1>1, <1>2 DEF IInv

\* However many loops' rounds, edits, failures and restarts happen: a schedule
\* that was not run by hand, whose dispatches keep their leases and whose jobs
\* are recorded has one open job at most, and one loop that holds it.
THEOREM GuardHolds == Spec => []OneOpenJob
  <1>1. IInv => OneOpenJob
    <2> SUFFICES ASSUME IInv, NEW s \in Schedules \ loose
                 PROVE  /\ \A i, j \in OpenJobs(s) : i = j
                        /\ ~(s \in Held(Ticker) /\ s \in Held(Startup))
      BY DEF OneOpenJob
    <2>1. Guarded(s)
      BY DEF IInv
    <2>2. \A l \in Loops : \A i, j \in MadeFor(l, s) : i = j
      BY DEF MadeFor
    <2>. QED  BY <2>1, <2>2 DEF Guarded, HeldBySome
  <1>. QED  BY <1>1, InitInv, Inductive, PTL DEF Spec
=============================================================================
