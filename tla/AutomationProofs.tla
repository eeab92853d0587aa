-------------------------- MODULE AutomationProofs --------------------------
(***************************************************************************)
(* Theorems about Automation, for any set of sources and requests and any  *)
(* number of run records, edits and faults.                                *)
(***************************************************************************)
EXTENDS Automation, TLAPS

\* A claimed source is not due before its turn: its lease keeps others off.
LeaseHolds ==
    \A l \in Loops, s \in Sources : Waits(l, s) /\ s \notin lapsed[l] => next[s] # "due"

IInv == TypeOK /\ RunningSyncIsVisible /\ LeaseHolds /\ ClaimedOnce

-----------------------------------------------------------------------------
(***************************************************************************)
(* Types.                                                                  *)
(***************************************************************************)
LEMMA InitTyped == Init => TypeOK
  <1> SUFFICES ASSUME Init PROVE TypeOK
    OBVIOUS
  <1>1. up \in BOOLEAN
    BY Zenon DEF Init
  <1>. QED  BY <1>1, AutomationAssumption DEF Init, TypeOK

LEMMA LapsingTyped == TypeOK => \A s \in Sources : Lapsing(s) \in [Loops -> SUBSET Sources]
  BY DEF TypeOK, Lapsing

\* Every step keeps the types; the new values are those the code can write.
LEMMA Typing == TypeOK /\ [Next]_vars => TypeOK'
  <1> SUFFICES ASSUME TypeOK, [Next]_vars PROVE TypeOK'
    OBVIOUS
  <1> USE AutomationAssumption DEF TypeOK, rowVars, runVars, workerVars
  <1>1. CASE Administer
    <2> USE DEF Edit, Workers
    <2>1. CASE \E s \in Sources, on, atStart \in BOOLEAN : UpdateSourceSyncSchedule(s, on, atStart)
      BY <2>1 DEF UpdateSourceSyncSchedule
    <2>2. CASE \E q \in Clerks, s \in Sources : RunSourceNow(q, s)
      BY <2>2 DEF RunSourceNow
    <2>. QED  BY <1>1, <2>1, <2>2 DEF Administer
  <1>2. CASE RunStartup
    BY <1>2 DEF RunStartup
  <1>3. ASSUME NEW l \in Loops, Dispatch(l) PROVE TypeOK'
    <2> USE DEF Workers
    <2>1. CASE \E picked \in SUBSET Sources : ClaimDueSourceSyncSchedules(l, picked)
      BY <2>1 DEF ClaimDueSourceSyncSchedules
    <2>2. CASE \E s \in Sources : NextItem(l, s)
      BY <2>2 DEF NextItem
    <2>. QED  BY <1>3, <2>1, <2>2 DEF Dispatch
  <1>4. ASSUME NEW w \in Workers, Synchronise(w) PROVE TypeOK'
    <2>1. CASE \E r \in Runs : StartAutomationRun(w, r)
      BY <2>1 DEF StartAutomationRun
    <2>2. CASE FinishAutomationRun(w)
      BY <2>2 DEF FinishAutomationRun, Close
    <2>3. CASE \E time \in {"planned", "due"} : RecordSourceSyncRun(w, time)
      <3>1. PICK time \in {"planned", "due"} : RecordSourceSyncRun(w, time)
        BY <2>3
      <3>2. pc[w] = "record" /\ next' \in [Sources -> {"planned", "leased", "due"}]
        BY <3>1 DEF RecordSourceSyncRun
      <3>3. lapsed' \in [Loops -> SUBSET Sources]
        BY <3>1, LapsingTyped DEF RecordSourceSyncRun, Lapsing
      <3>4. /\ pc' \in [Workers -> {"idle", "start", "sync", "record"}]
            /\ item' \in [Workers -> Sources \cup {NoSource}]
            /\ mine' \in [Workers -> Runs \cup {0}]
            /\ \A v \in Workers : pc'[v] # "idle" => item'[v] \in Sources
        BY <3>1 DEF RecordSourceSyncRun, BeIdle
      <3>. QED  BY <3>1, <3>2, <3>3, <3>4 DEF RecordSourceSyncRun
    <2>. QED  BY <1>4, <2>1, <2>2, <2>3 DEF Synchronise
  <1>5. CASE Fail
    <2>1. CASE RunStartupFails
      BY <2>1 DEF RunStartupFails
    <2>2. ASSUME NEW w \in Workers, StartAutomationRunFails(w) PROVE TypeOK'
      BY <2>2 DEF StartAutomationRunFails
    <2>3. ASSUME NEW w \in Workers, FinishAutomationRunFails(w) PROVE TypeOK'
      BY <2>3 DEF FinishAutomationRunFails
    <2>4. ASSUME NEW w \in Workers, RecordSourceSyncRunFails(w) PROVE TypeOK'
      BY <2>4 DEF RecordSourceSyncRunFails, BeIdle
    <2>5. ASSUME NEW w \in Workers, ContextEnds(w) PROVE TypeOK'
      BY <2>5 DEF ContextEnds, BeIdle
    <2>6. CASE StopCenter
      <3>1. up' \in BOOLEAN
        BY <2>6, Zenon DEF StopCenter
      <3>2. /\ pc' \in [Workers -> {"idle", "start", "sync", "record"}]
            /\ item' \in [Workers -> Sources \cup {NoSource}]
            /\ mine' \in [Workers -> Runs \cup {0}]
            /\ \A v \in Workers : pc'[v] # "idle" => item'[v] \in Sources
        BY <2>6 DEF StopCenter, BeIdle
      <3>. QED  BY <2>6, <3>1, <3>2 DEF StopCenter
    <2>. QED  BY <1>5, <2>1, <2>2, <2>3, <2>4, <2>5, <2>6 DEF Fail
  <1>6. CASE StartCenter
    BY <1>6 DEF StartCenter, Close
  <1>7. CASE \E s \in Sources : TimePasses(s)
    BY <1>7, LapsingTyped DEF TimePasses
  <1>8. CASE \E r \in Runs : Age(r)
    BY <1>8 DEF Age
  <1>9. CASE UNCHANGED vars
    BY <1>9 DEF vars
  <1>. QED  BY <1>1, <1>2, <1>3, <1>4, <1>5, <1>6, <1>7, <1>8, <1>9 DEF Next

\* Every variable keeps its type.
THEOREM TypeCorrect == Spec => []TypeOK
  <1>. QED  BY InitTyped, Typing, PTL DEF Spec

-----------------------------------------------------------------------------
(***************************************************************************)
(* Run records: a synchronisation keeps the one it has made.               *)
(***************************************************************************)
LEMMA VisibleStep == TypeOK /\ RunningSyncIsVisible /\ [Next]_vars => RunningSyncIsVisible'
  <1> SUFFICES ASSUME TypeOK, RunningSyncIsVisible, [Next]_vars PROVE RunningSyncIsVisible'
    OBVIOUS
  <1> USE DEF TypeOK, RunningSyncIsVisible, rowVars, runVars, workerVars
  <1>1. CASE Administer
    BY <1>1 DEF Administer, UpdateSourceSyncSchedule, RunSourceNow
  <1>2. CASE RunStartup
    BY <1>2 DEF RunStartup
  <1>3. ASSUME NEW l \in Loops, Dispatch(l) PROVE RunningSyncIsVisible'
    BY <1>3 DEF Dispatch, ClaimDueSourceSyncSchedules, NextItem
  <1>4. ASSUME NEW w \in Workers, Synchronise(w) PROVE RunningSyncIsVisible'
    <2>1. CASE \E r \in Runs : StartAutomationRun(w, r)
      <3>1. PICK r \in Runs : StartAutomationRun(w, r)
        BY <2>1
      <3>2. \A v \in Workers : pc[v] = "sync" => mine[v] # r
        BY <3>1 DEF StartAutomationRun
      <3>. QED  BY <3>1, <3>2 DEF StartAutomationRun
    <2>2. CASE FinishAutomationRun(w)
      BY <2>2 DEF FinishAutomationRun, Close
    <2>3. CASE \E time \in {"planned", "due"} : RecordSourceSyncRun(w, time)
      BY <2>3 DEF RecordSourceSyncRun, BeIdle
    <2>. QED  BY <1>4, <2>1, <2>2, <2>3 DEF Synchronise
  <1>5. CASE Fail
    <2>1. CASE RunStartupFails
      BY <2>1 DEF RunStartupFails
    <2>2. ASSUME NEW w \in Workers, StartAutomationRunFails(w) PROVE RunningSyncIsVisible'
      BY <2>2 DEF StartAutomationRunFails
    <2>3. ASSUME NEW w \in Workers, FinishAutomationRunFails(w) PROVE RunningSyncIsVisible'
      BY <2>3 DEF FinishAutomationRunFails
    <2>4. ASSUME NEW w \in Workers, RecordSourceSyncRunFails(w) PROVE RunningSyncIsVisible'
      BY <2>4 DEF RecordSourceSyncRunFails, BeIdle
    <2>5. ASSUME NEW w \in Workers, ContextEnds(w) PROVE RunningSyncIsVisible'
      BY <2>5 DEF ContextEnds, BeIdle
    <2>6. CASE StopCenter
      BY <2>6 DEF StopCenter, BeIdle
    <2>. QED  BY <1>5, <2>1, <2>2, <2>3, <2>4, <2>5, <2>6 DEF Fail
  <1>6. CASE StartCenter
    BY <1>6 DEF StartCenter, Close
  <1>7. CASE \E s \in Sources : TimePasses(s)
    BY <1>7 DEF TimePasses
  <1>8. CASE \E r \in Runs : Age(r)
    BY <1>8 DEF Age
  <1>9. CASE UNCHANGED vars
    BY <1>9 DEF vars
  <1>. QED  BY <1>1, <1>2, <1>3, <1>4, <1>5, <1>6, <1>7, <1>8, <1>9 DEF Next

-----------------------------------------------------------------------------
(***************************************************************************)
(* Claims.                                                                 *)
(***************************************************************************)
Claims == LeaseHolds /\ ClaimedOnce

\* A step that claims nothing, forgets no lapsed claim that still stands, and
\* makes a source due only when the claims that wait for it lapse.
LEMMA Kept ==
  ASSUME Claims,
         \A l \in Loops, s \in Sources :
             /\ HasClaimed(l, s)' => HasClaimed(l, s)
             /\ Waits(l, s)' => Waits(l, s)
             /\ HasClaimed(l, s)' /\ s \in lapsed[l] => s \in lapsed'[l]
             /\ Waits(l, s)' /\ next'[s] = "due" => next[s] = "due" \/ s \in lapsed'[l]
  PROVE  Claims'
  <1>1. LeaseHolds'
    <2> SUFFICES ASSUME NEW l \in Loops, NEW s \in Sources, Waits(l, s)', s \notin lapsed'[l]
                 PROVE  next'[s] # "due"
      BY DEF LeaseHolds
    <2>1. HasClaimed(l, s)'
      BY DEF Waits, HasClaimed
    <2>. QED  BY <2>1 DEF Claims, LeaseHolds
  <1>2. ClaimedOnce'
    <2> SUFFICES ASSUME NEW s \in Sources, HasClaimed(Ticker, s)', HasClaimed(Startup, s)'
                 PROVE  s \in lapsed'[Ticker] \cup lapsed'[Startup]
      BY DEF ClaimedOnce
    <2>. QED  BY DEF Claims, ClaimedOnce, Loops
  <1>. QED  BY <1>1, <1>2 DEF Claims

\* A source that the other loop has claimed is claimed again only after its
\* lease ran out: while it executes, its record is in the way.
LEMMA ClaimStep ==
  ASSUME TypeOK, RunningSyncIsVisible, Claims,
         NEW l \in Loops, NEW picked \in SUBSET Sources,
         ClaimDueSourceSyncSchedules(l, picked)
  PROVE  Claims'
  <1> USE AutomationAssumption DEF ClaimDueSourceSyncSchedules, runVars
  <1>1. ASSUME NEW m \in Loops, m # l, NEW s \in picked, HasClaimed(m, s)
        PROVE  s \in lapsed[m]
    <2>1. next[s] = "due" /\ ~Young(s)
      BY DEF Claimable
    <2>2. ~(pc[m] = "sync" /\ item[m] = s)
      BY <2>1 DEF Young, RunningSyncIsVisible, Workers
    <2>3. Waits(m, s)
      BY <1>1, <2>2 DEF HasClaimed, Waits
    <2>. QED  BY <2>1, <2>3 DEF Claims, LeaseHolds
  <1>2. ASSUME NEW m \in Loops, m # l, NEW s \in Sources
        PROVE  /\ HasClaimed(m, s)' => HasClaimed(m, s)
               /\ Waits(m, s)' => Waits(m, s)
               /\ lapsed'[m] = lapsed[m]
    BY <1>2 DEF HasClaimed, Waits, TypeOK, Loops
  <1>3. ASSUME NEW s \in Sources, HasClaimed(l, s)' \/ Waits(l, s)' PROVE s \in picked
    BY <1>3 DEF HasClaimed, Waits, Busy, TypeOK
  <1>4. LeaseHolds'
    <2> SUFFICES ASSUME NEW m \in Loops, NEW s \in Sources, Waits(m, s)', s \notin lapsed'[m]
                 PROVE  next'[s] # "due"
      BY DEF LeaseHolds
    <2>1. CASE s \in picked
      BY <2>1 DEF TypeOK
    <2>2. CASE s \notin picked
      <3>1. m # l
        BY <1>3, <2>2
      <3>2. Waits(m, s) /\ s \notin lapsed[m]
        BY <1>2, <3>1
      <3>. QED  BY <2>2, <3>2 DEF Claims, LeaseHolds, TypeOK
    <2>. QED  BY <2>1, <2>2
  <1>5. ClaimedOnce'
    <2> SUFFICES ASSUME NEW s \in Sources, HasClaimed(Ticker, s)', HasClaimed(Startup, s)'
                 PROVE  s \in lapsed'[Ticker] \cup lapsed'[Startup]
      BY DEF ClaimedOnce
    <2>1. s \in picked
      BY <1>3 DEF Loops
    <2>2. PICK m \in Loops : m # l
      BY DEF Loops
    <2>3. HasClaimed(m, s)'
      BY DEF Loops
    <2>4. s \in lapsed[m]
      BY <1>1, <1>2, <2>1, <2>2, <2>3
    <2>. QED  BY <1>2, <2>2, <2>4 DEF Loops
  <1>. QED  BY <1>4, <1>5 DEF Claims

LEMMA ClaimsStep == TypeOK /\ RunningSyncIsVisible /\ Claims /\ [Next]_vars => Claims'
  <1> SUFFICES ASSUME TypeOK, RunningSyncIsVisible, Claims, [Next]_vars PROVE Claims'
    OBVIOUS
  <1> USE AutomationAssumption DEF TypeOK, rowVars, runVars, workerVars
  <1>1. CASE Administer
    <2>1. CASE \E s \in Sources, on, atStart \in BOOLEAN : UpdateSourceSyncSchedule(s, on, atStart)
      BY <2>1, Kept DEF UpdateSourceSyncSchedule, HasClaimed, Waits
    <2>2. CASE \E q \in Clerks, s \in Sources : RunSourceNow(q, s)
      BY <2>2, Kept DEF RunSourceNow, HasClaimed, Waits
    <2>. QED  BY <1>1, <2>1, <2>2 DEF Administer
  <1>2. CASE RunStartup
    BY <1>2, Kept DEF RunStartup, HasClaimed, Waits
  <1>3. ASSUME NEW l \in Loops, Dispatch(l) PROVE Claims'
    <2>1. CASE \E picked \in SUBSET Sources : ClaimDueSourceSyncSchedules(l, picked)
      BY <2>1, ClaimStep
    <2>2. CASE \E s \in Sources : NextItem(l, s)
      BY <2>2, Kept DEF NextItem, HasClaimed, Waits, Workers
    <2>. QED  BY <1>3, <2>1, <2>2 DEF Dispatch
  <1>4. ASSUME NEW w \in Workers, Synchronise(w) PROVE Claims'
    <2>1. CASE \E r \in Runs : StartAutomationRun(w, r)
      BY <2>1, Kept DEF StartAutomationRun, HasClaimed, Waits
    <2>2. CASE FinishAutomationRun(w)
      BY <2>2, Kept DEF FinishAutomationRun, Close, HasClaimed, Waits
    <2>3. CASE \E time \in {"planned", "due"} : RecordSourceSyncRun(w, time)
      <3>1. PICK time \in {"planned", "due"} : RecordSourceSyncRun(w, time)
        BY <2>3
      <3>2. \A l \in Loops, s \in Sources :
                /\ HasClaimed(l, s)' => HasClaimed(l, s)
                /\ Waits(l, s)' => Waits(l, s)
        BY <3>1 DEF RecordSourceSyncRun, BeIdle, HasClaimed, Waits, Workers
      <3>3. \A l \in Loops : lapsed[l] \subseteq lapsed'[l]
        BY <3>1 DEF RecordSourceSyncRun, Lapsing
      <3>4. ASSUME NEW l \in Loops, NEW s \in Sources, Waits(l, s), next'[s] = "due"
            PROVE  next[s] = "due" \/ s \in lapsed'[l]
        BY <3>1, <3>4 DEF RecordSourceSyncRun, Lapsing
      <3>. QED  BY <3>2, <3>3, <3>4, Kept
    <2>. QED  BY <1>4, <2>1, <2>2, <2>3 DEF Synchronise
  <1>5. CASE Fail
    <2>1. CASE RunStartupFails
      BY <2>1, Kept DEF RunStartupFails, HasClaimed, Waits
    <2>2. ASSUME NEW w \in Workers, StartAutomationRunFails(w) PROVE Claims'
      BY <2>2, Kept DEF StartAutomationRunFails, HasClaimed, Waits
    <2>3. ASSUME NEW w \in Workers, FinishAutomationRunFails(w) PROVE Claims'
      BY <2>3, Kept DEF FinishAutomationRunFails, HasClaimed, Waits
    <2>4. ASSUME NEW w \in Workers, RecordSourceSyncRunFails(w) PROVE Claims'
      <3>1. \A l \in Loops, s \in Sources :
                /\ HasClaimed(l, s)' => HasClaimed(l, s)
                /\ Waits(l, s)' => Waits(l, s)
        BY <2>4 DEF RecordSourceSyncRunFails, BeIdle, HasClaimed, Waits, Workers
      <3>. QED  BY <2>4, <3>1, Kept DEF RecordSourceSyncRunFails
    <2>5. ASSUME NEW w \in Workers, ContextEnds(w) PROVE Claims'
      <3>1. \A l \in Loops, s \in Sources :
                /\ HasClaimed(l, s)' => HasClaimed(l, s)
                /\ Waits(l, s)' => Waits(l, s)
        BY <2>5 DEF ContextEnds, BeIdle, HasClaimed, Waits, Workers
      <3>. QED  BY <2>5, <3>1, Kept DEF ContextEnds
    <2>6. CASE StopCenter
      <3>1. \A l \in Loops, s \in Sources :
                /\ HasClaimed(l, s)' => HasClaimed(l, s) /\ ~HasClaimed(l, s)'
                /\ Waits(l, s)' => Waits(l, s)
        BY <2>6 DEF StopCenter, BeIdle, HasClaimed, Waits, Workers
      <3>. QED  BY <2>6, <3>1, Kept DEF StopCenter
    <2>. QED  BY <1>5, <2>1, <2>2, <2>3, <2>4, <2>5, <2>6 DEF Fail
  <1>6. CASE StartCenter
    BY <1>6, Kept DEF StartCenter, Close, HasClaimed, Waits
  <1>7. CASE \E s \in Sources : TimePasses(s)
    BY <1>7, Kept DEF TimePasses, HasClaimed, Waits, Lapsing
  <1>8. CASE \E r \in Runs : Age(r)
    BY <1>8, Kept DEF Age, HasClaimed, Waits
  <1>9. CASE UNCHANGED vars
    BY <1>9, Kept DEF vars, HasClaimed, Waits
  <1>. QED  BY <1>1, <1>2, <1>3, <1>4, <1>5, <1>6, <1>7, <1>8, <1>9 DEF Next

-----------------------------------------------------------------------------
LEMMA InitInv == Init => IInv
  <1> SUFFICES ASSUME Init PROVE IInv
    OBVIOUS
  <1>1. RunningSyncIsVisible
    BY DEF Init, RunningSyncIsVisible
  <1>2. \A l \in Loops, s \in Sources : ~HasClaimed(l, s) /\ ~Waits(l, s)
    BY DEF Init, HasClaimed, Waits, Workers
  <1>. QED  BY <1>1, <1>2, InitTyped DEF IInv, LeaseHolds, ClaimedOnce, Loops

LEMMA Inductive == IInv /\ [Next]_vars => IInv'
  BY Typing, VisibleStep, ClaimsStep DEF IInv, Claims

LEMMA Invariant == Spec => []IInv
  BY InitInv, Inductive, PTL DEF Spec

\* A synchronisation that executes has an open record of its own source that
\* no other worker closes, however many of them overlap.
THEOREM RecordsStand == Spec => []RunningSyncIsVisible
  <1>. QED  BY Invariant, PTL DEF IInv

\* Lease and record together keep the two loops apart.
THEOREM ClaimsAreSingle == Spec => []ClaimedOnce
  <1>. QED  BY Invariant, PTL DEF IInv
=============================================================================
