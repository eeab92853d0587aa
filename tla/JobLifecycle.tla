---------------------------- MODULE JobLifecycle ----------------------------
(***************************************************************************)
(* What scan jobs promise to those who read them: the life of a job,       *)
(*                                                                         *)
(*     pending -> running -> completed,   pending or running -> stopped,   *)
(*                                                                         *)
(* the targets that are still open in it, those with a recorded result,    *)
(* and the blacklist.  No tasks, leases, Agents or messages: ScanJobs      *)
(* implements this specification with them.                                *)
(***************************************************************************)
CONSTANTS Jobs,    \* job ids
          Slots    \* what a job may scan: an Agent and a target

VARIABLES state,     \* status of each job
          open,      \* per job, the slots still to be scanned
          recorded,  \* per job, the slots that have a result
          listed     \* the slots that are on the blacklist

vars == <<state, open, recorded, listed>>

Unfinished == {"pending", "running"}
Finished   == {"completed", "stopped"}

TypeOK ==
    /\ state    \in [Jobs -> {"none"} \cup Unfinished \cup Finished]
    /\ open     \in [Jobs -> SUBSET Slots]
    /\ recorded \in [Jobs -> SUBSET Slots]
    /\ listed   \subseteq Slots

Init ==
    /\ state    = [j \in Jobs |-> "none"]
    /\ open     = [j \in Jobs |-> {}]
    /\ recorded = [j \in Jobs |-> {}]
    /\ listed   = {}

-----------------------------------------------------------------------------
Create(j, targets) ==
    /\ state[j] = "none"
    /\ targets # {}
    /\ state' = [state EXCEPT ![j] = "pending"]
    /\ open'  = [open EXCEPT ![j] = targets]
    /\ UNCHANGED <<recorded, listed>>

Start(j) ==
    /\ state[j] = "pending"
    /\ state' = [state EXCEPT ![j] = "running"]
    /\ UNCHANGED <<open, recorded, listed>>

\* A batch of open slots is recorded as a whole; the last one completes the
\* job.  The bad ones go on the blacklist, the others leave it.
Report(j, slots, bad) ==
    /\ state[j] = "running"
    /\ slots # {}
    /\ slots \subseteq open[j]
    /\ bad \subseteq slots
    /\ open'     = [open EXCEPT ![j] = open[j] \ slots]
    /\ recorded' = [recorded EXCEPT ![j] = recorded[j] \cup slots]
    /\ state'    = [state EXCEPT ![j] = IF open[j] \subseteq slots THEN "completed" ELSE "running"]
    /\ listed'   = (listed \ slots) \cup bad

Stop(j) ==
    /\ state[j] \in Unfinished
    /\ state' = [state EXCEPT ![j] = "stopped"]
    /\ open'  = [open EXCEPT ![j] = {}]
    /\ UNCHANGED <<recorded, listed>>

Next ==
    \E j \in Jobs :
        \/ \E targets \in SUBSET Slots : Create(j, targets)
        \/ Start(j)
        \/ \E slots \in SUBSET Slots : \E bad \in SUBSET slots : Report(j, slots, bad)
        \/ Stop(j)

Spec == Init /\ [][Next]_vars

-----------------------------------------------------------------------------
\* What follows for those who read the jobs: a job is finished when, and only when, nothing
\* in it is open; no slot is scanned again in a job that has its result; a completed job has
\* a result, a pending one has none; and whatever is on the blacklist has been scanned.
Promise ==
    /\ \A j \in Jobs : state[j] \in Unfinished <=> open[j] # {}
    /\ \A j \in Jobs : open[j] \cap recorded[j] = {}
    /\ \A j \in Jobs : state[j] = "completed" => recorded[j] # {}
    /\ \A j \in Jobs : state[j] \in {"none", "pending"} => recorded[j] = {}
    /\ \A s \in listed : \E j \in Jobs : s \in recorded[j]
=============================================================================
