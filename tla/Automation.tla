----------------------------- MODULE Automation -----------------------------
(***************************************************************************)
(* Source synchronisation: the rows of source_sync_schedules, the run      *)
(* records in automation_runs, the two loops of the Center and the         *)
(* requests that synchronise a source now.                                 *)
(*                                                                         *)
(* A run record is read by two statements only: the claim of due sources   *)
(* looks for one that is running and young, and a starting Center closes   *)
(* those that are running and old.                                         *)
(***************************************************************************)
EXTENDS Integers, FiniteSets

CONSTANTS
    Sources,     \* official, asn, colo
    Ticker,      \* the loop that runs what is due every 30 s
    Startup,     \* the goroutine that runs the sources to be run at a start
    Clerks,      \* requests of administrators to synchronise now
    NoSource,    \* an idle worker's, a closed record's
    MaxRuns,     \* run records at a time: closed ones are used again (bound)
    MaxEdits,    \* how often administrators change or run something (bound)
    MaxFaults    \* how many calls fail and how often the Center stops (bound)

Loops   == {Ticker, Startup}
Workers == Loops \cup Clerks
Runs    == 1 .. MaxRuns

ASSUME AutomationAssumption ==
    /\ NoSource \notin Sources
    /\ Ticker # Startup
    /\ Loops \cap Clerks = {}
    /\ MaxRuns \in Nat
    /\ MaxEdits \in Nat
    /\ MaxFaults \in Nat

VARIABLES
    enabled,    \* sources that are synchronised by the loops
    onStartup,  \* run_on_startup
    next,       \* next_run_at: a planned time, the end of a claim's lease, or past
    run,        \* a record: "closed", or running for less or more than 15 minutes
    runOf,      \* the source it is about, while it is running
    up,         \* the Center runs
    stage,      \* the startup goroutine: "list", then "startup", then "over"
    todo,       \* per loop, the sources it has taken and not yet worked on
    pc,         \* where a worker is: "idle", "start", "sync" or "record"
    item,       \* the source it works on
    mine,       \* the run record it has made, or 0
    lapsed,     \* per loop, sources due again before they were started (history)
    edits, faults

rowVars    == <<enabled, onStartup, next>>
runVars    == <<run, runOf>>
workerVars == <<up, stage, todo, pc, item, mine>>
vars == <<rowVars, runVars, workerVars, lapsed, edits, faults>>

TypeOK ==
    /\ enabled \subseteq Sources /\ onStartup \subseteq Sources
    /\ next   \in [Sources -> {"planned", "leased", "due"}]
    /\ run    \in [Runs -> {"closed", "young", "old"}]
    /\ runOf  \in [Runs -> Sources \cup {NoSource}]
    /\ up     \in BOOLEAN
    /\ stage  \in {"list", "startup", "over"}
    /\ todo   \in [Loops -> SUBSET Sources]
    /\ pc     \in [Workers -> {"idle", "start", "sync", "record"}]
    /\ item   \in [Workers -> Sources \cup {NoSource}]
    /\ \A w \in Workers : pc[w] # "idle" => item[w] \in Sources
    /\ mine   \in [Workers -> Runs \cup {0}]
    /\ lapsed \in [Loops -> SUBSET Sources]
    /\ edits \in Nat /\ faults \in Nat

\* The schema is applied, the Center not yet started.
Init ==
    /\ enabled = Sources /\ onStartup = Sources
    /\ next    = [s \in Sources |-> "due"]
    /\ run     = [r \in Runs |-> "closed"]
    /\ runOf   = [r \in Runs |-> NoSource]
    /\ up      = FALSE
    /\ stage   = "list"
    /\ todo    = [l \in Loops |-> {}]
    /\ pc      = [w \in Workers |-> "idle"]
    /\ item    = [w \in Workers |-> NoSource]
    /\ mine    = [w \in Workers |-> 0]
    /\ lapsed  = [l \in Loops |-> {}]
    /\ edits = 0 /\ faults = 0

-----------------------------------------------------------------------------
\* What the claim's guard looks for: a run that may still be executing.
Young(s) == \E r \in Runs : run[r] = "young" /\ runOf[r] = s

\* A loop has claimed s and is to start it: only the lease keeps others off.
Waits(l, s) ==
    /\ s \in todo[l] \/ (pc[l] = "start" /\ item[l] = s)
    /\ l = Startup => stage = "over"

HasClaimed(l, s) ==
    /\ s \in todo[l] \/ (pc[l] \in {"start", "sync"} /\ item[l] = s)
    /\ l = Startup => stage = "over"

\* The sources for which a loop's claim has run out once s is due.
Lapsing(s) == [l \in Loops |-> lapsed[l] \cup (IF Waits(l, s) THEN {s} ELSE {})]

-----------------------------------------------------------------------------
(***************************************************************************)
(* Administrators.                                                         *)
(***************************************************************************)
Edit == up /\ edits < MaxEdits /\ edits' = edits + 1

\* A new next_run_at replaces whatever stands there, a lease included.
UpdateSourceSyncSchedule(s, on, atStart) ==
    /\ Edit
    /\ enabled'   = IF on THEN enabled \cup {s} ELSE enabled \ {s}
    /\ onStartup' = IF atStart THEN onStartup \cup {s} ELSE onStartup \ {s}
    /\ next'      = [next EXCEPT ![s] = "planned"]
    /\ UNCHANGED <<runVars, workerVars, lapsed, faults>>

\* Asks neither for the time, nor whether the source is enabled or running.
RunSourceNow(q, s) ==
    /\ Edit
    /\ pc[q] = "idle"
    /\ pc'   = [pc EXCEPT ![q] = "start"]
    /\ item' = [item EXCEPT ![q] = s]
    /\ UNCHANGED <<rowVars, runVars, up, stage, todo, mine, lapsed, faults>>

-----------------------------------------------------------------------------
(***************************************************************************)
(* The loops.                                                              *)
(***************************************************************************)
Busy(l) == todo[l] # {} \/ pc[l] # "idle"

\* After a start the goroutine runs sources whether they are due or not, and
\* whoever else runs them.
RunStartup ==
    /\ up /\ stage = "list"
    /\ todo'  = [todo EXCEPT ![Startup] = enabled \cap onStartup]
    /\ stage' = "startup"
    /\ UNCHANGED <<rowVars, runVars, up, pc, item, mine, lapsed, edits, faults>>

RunStartupFails ==
    /\ up /\ stage = "list"
    /\ faults < MaxFaults
    /\ stage'  = "startup"
    /\ faults' = faults + 1
    /\ UNCHANGED <<rowVars, runVars, up, todo, pc, item, mine, lapsed, edits>>

\* (mutant) The claim does not look for a running synchronisation.
Claimable_AnyRun(s) == s \in enabled /\ next[s] = "due"

\* (mutant) A record that is running holds the source back however old it is.
Claimable_AnyAge(s) ==
    s \in enabled /\ next[s] = "due" /\ \A r \in Runs : run[r] = "closed" \/ runOf[r] # s

Claimable(s) == s \in enabled /\ next[s] = "due" /\ ~Young(s)

\* One statement claims due sources and moves them 5 minutes ahead; rows that
\* another statement has locked are passed over.  The goroutine has one round.
ClaimDueSourceSyncSchedules(l, picked) ==
    /\ up /\ ~Busy(l)
    /\ l = Startup => stage = "startup"
    /\ picked # {} /\ \A s \in picked : Claimable(s)
    /\ next'   = [s \in Sources |-> IF s \in picked THEN "leased" ELSE next[s]]
    /\ todo'   = [todo EXCEPT ![l] = picked]
    /\ stage'  = IF l = Startup THEN "over" ELSE stage
    /\ lapsed' = [lapsed EXCEPT ![l] = {}]
    /\ UNCHANGED <<enabled, onStartup, runVars, up, pc, item, mine, edits, faults>>

\* The next source; it is run as it was when taken, even if disabled since.
NextItem(l, s) ==
    /\ pc[l] = "idle" /\ s \in todo[l]
    /\ todo' = [todo EXCEPT ![l] = todo[l] \ {s}]
    /\ pc'   = [pc EXCEPT ![l] = "start"]
    /\ item' = [item EXCEPT ![l] = s]
    /\ UNCHANGED <<rowVars, runVars, up, stage, mine, lapsed, edits, faults>>

-----------------------------------------------------------------------------
(***************************************************************************)
(* One synchronisation, by a loop or for a request.                        *)
(***************************************************************************)
BeIdle(ws) ==
    /\ pc'   = [w \in Workers |-> IF w \in ws THEN "idle" ELSE pc[w]]
    /\ item' = [w \in Workers |-> IF w \in ws THEN NoSource ELSE item[w]]
    /\ mine' = [w \in Workers |-> IF w \in ws THEN 0 ELSE mine[w]]

StartAutomationRun(w, r) ==
    /\ pc[w] = "start"
    /\ run[r] = "closed" /\ \A q \in Runs : run[q] = "closed" => r <= q
    /\ run'   = [run EXCEPT ![r] = "young"]
    /\ runOf' = [runOf EXCEPT ![r] = item[w]]
    /\ mine'  = [mine EXCEPT ![w] = r]
    /\ pc'    = [pc EXCEPT ![w] = "sync"]
    /\ UNCHANGED <<rowVars, up, stage, todo, item, lapsed, edits, faults>>

StartAutomationRunFails(w) ==
    /\ faults < MaxFaults
    /\ pc[w] = "start"
    /\ pc'     = [pc EXCEPT ![w] = "record"]
    /\ faults' = faults + 1
    /\ UNCHANGED <<rowVars, runVars, up, stage, todo, item, mine, lapsed, edits>>

Close(rs) ==
    /\ run'   = [r \in Runs |-> IF r \in rs THEN "closed" ELSE run[r]]
    /\ runOf' = [r \in Runs |-> IF r \in rs THEN NoSource ELSE runOf[r]]

\* (mutant) The records of the source are closed, not the one of this run.
FinishAutomationRun_ByKey(w) ==
    /\ pc[w] = "sync"
    /\ Close({r \in Runs : runOf[r] = item[w]})
    /\ pc'   = [pc EXCEPT ![w] = "record"]
    /\ mine' = [mine EXCEPT ![w] = 0]
    /\ UNCHANGED <<rowVars, up, stage, todo, item, lapsed, edits, faults>>

\* The synchronisation ends, with success or not, and its record is closed.
FinishAutomationRun(w) ==
    /\ pc[w] = "sync"
    /\ Close({mine[w]})
    /\ pc'   = [pc EXCEPT ![w] = "record"]
    /\ mine' = [mine EXCEPT ![w] = 0]
    /\ UNCHANGED <<rowVars, up, stage, todo, item, lapsed, edits, faults>>

FinishAutomationRunFails(w) ==
    /\ faults < MaxFaults
    /\ pc[w] = "sync"
    /\ pc'     = [pc EXCEPT ![w] = "record"]
    /\ mine'   = [mine EXCEPT ![w] = 0]
    /\ faults' = faults + 1
    /\ UNCHANGED <<rowVars, runVars, up, stage, todo, item, lapsed, edits>>

\* A loop also writes the next time, computed from the expression it read and
\* the time its round began: it may have passed.  It replaces a lease, too.
RecordSourceSyncRun(w, time) ==
    /\ pc[w] = "record"
    /\ next'   = IF w \in Loops THEN [next EXCEPT ![item[w]] = time] ELSE next
    /\ lapsed' = IF next'[item[w]] = "due" THEN Lapsing(item[w]) ELSE lapsed
    /\ BeIdle({w})
    /\ UNCHANGED <<enabled, onStartup, runVars, up, stage, todo, edits, faults>>

RecordSourceSyncRunFails(w) ==
    /\ faults < MaxFaults
    /\ pc[w] = "record"
    /\ BeIdle({w})
    /\ faults' = faults + 1
    /\ UNCHANGED <<rowVars, runVars, up, stage, todo, lapsed, edits>>

\* The 6 minutes of a round end, or the client of a request goes: every call
\* left to make fails, those that would close the record and plan the next run
\* included, since they use the same context.
ContextEnds(w) ==
    /\ faults < MaxFaults
    /\ pc[w] # "idle"
    /\ BeIdle({w})
    /\ todo'   = IF w \in Loops THEN [todo EXCEPT ![w] = {}] ELSE todo
    /\ faults' = faults + 1
    /\ UNCHANGED <<rowVars, runVars, up, stage, lapsed, edits>>

-----------------------------------------------------------------------------
(***************************************************************************)
(* The Center and time.                                                    *)
(***************************************************************************)
StopCenter ==
    /\ up /\ faults < MaxFaults
    /\ up'     = FALSE
    /\ stage'  = "list"
    /\ todo'   = [l \in Loops |-> {}]
    /\ BeIdle(Workers)
    /\ lapsed' = [l \in Loops |-> {}]
    /\ faults' = faults + 1
    /\ UNCHANGED <<rowVars, runVars, edits>>

\* Applying the schema closes the running records older than 15 minutes.
StartCenter ==
    /\ ~up
    /\ up'  = TRUE
    /\ Close({r \in Runs : run[r] = "old"})
    /\ UNCHANGED <<rowVars, stage, todo, pc, item, mine, lapsed, edits, faults>>

TimePasses(s) ==
    /\ next[s] # "due"
    /\ next'   = [next EXCEPT ![s] = "due"]
    /\ lapsed' = Lapsing(s)
    /\ UNCHANGED <<enabled, onStartup, runVars, workerVars, edits, faults>>

\* A record of a run that executes is young: an execution has 5 minutes.
Age(r) ==
    /\ run[r] = "young"
    /\ ~\E w \in Workers : pc[w] = "sync" /\ mine[w] = r
    /\ run' = [run EXCEPT ![r] = "old"]
    /\ UNCHANGED <<rowVars, runOf, workerVars, lapsed, edits, faults>>

-----------------------------------------------------------------------------
Administer ==
    \/ \E s \in Sources, on, atStart \in BOOLEAN : UpdateSourceSyncSchedule(s, on, atStart)
    \/ \E q \in Clerks, s \in Sources : RunSourceNow(q, s)

Dispatch(l) ==
    \/ \E picked \in SUBSET Sources : ClaimDueSourceSyncSchedules(l, picked)
    \/ \E s \in Sources : NextItem(l, s)

Synchronise(w) ==
    \/ \E r \in Runs : StartAutomationRun(w, r)
    \/ FinishAutomationRun(w)
    \/ \E time \in {"planned", "due"} : RecordSourceSyncRun(w, time)

Fail ==
    \/ RunStartupFails
    \/ \E w \in Workers :
           \/ StartAutomationRunFails(w)
           \/ FinishAutomationRunFails(w)
           \/ RecordSourceSyncRunFails(w)
           \/ ContextEnds(w)
    \/ StopCenter

Next ==
    \/ Administer
    \/ RunStartup
    \/ \E l \in Loops : Dispatch(l)
    \/ \E w \in Workers : Synchronise(w)
    \/ Fail
    \/ StartCenter
    \/ \E s \in Sources : TimePasses(s)
    \/ \E r \in Runs : Age(r)

Spec == Init /\ [][Next]_vars

-----------------------------------------------------------------------------
\* Whatever is being synchronised has a young record of its own, so that the
\* claim's guard sees it: no other worker's end closes it.
RunningSyncIsVisible ==
    \A v \in Workers : pc[v] = "sync" =>
        /\ mine[v] \in Runs /\ run[mine[v]] = "young" /\ runOf[mine[v]] = item[v]
        /\ \A w \in Workers : pc[w] = "sync" /\ w # v => mine[w] # mine[v]

\* The two loops never have a source at once by claims, waiting or executing,
\* unless one of the claims ran out before the source's turn came.  (Runs at a
\* start and by hand claim nothing, and may overlap with anything.)
ClaimedOnce ==
    \A s \in Sources : HasClaimed(Ticker, s) /\ HasClaimed(Startup, s)
                           => s \in lapsed[Ticker] \cup lapsed[Startup]

(***************************************************************************)
(* Liveness.  A stopped Center is started again; the ticker does not miss  *)
(* a due source at every round (its row is locked for a moment only: the   *)
(* strong fairness); a synchronisation ends within its timeouts; time      *)
(* passes.  Nothing is assumed of administrators, of the claim of the      *)
(* startup goroutine, or of stops of the Center.                           *)
(***************************************************************************)
Fairness ==
    /\ WF_vars(StartCenter)
    /\ WF_vars(RunStartup)
    /\ \A s \in Sources :
           /\ SF_vars(\E picked \in SUBSET Sources :
                          s \in picked /\ ClaimDueSourceSyncSchedules(Ticker, picked))
           /\ WF_vars(TimePasses(s))
    /\ \A l \in Loops : WF_vars(\E s \in Sources : NextItem(l, s))
    /\ \A w \in Workers : WF_vars(Synchronise(w))
    /\ \A r \in Runs : WF_vars(Age(r))

FairSpec == Spec /\ Fairness

\* An enabled source is taken again and again: a failed run, a record left
\* open by a failure, a restart or an edit delays it only.
SourceRunsAgain ==
    \A s \in Sources : <>[](s \in enabled) => []<>(Waits(Ticker, s))

\* A record left open is closed after a timeout, as the documentation has it.
RunsConverge == \A r \in Runs : run[r] # "closed" ~> run[r] = "closed"
=============================================================================
