------------------------------- MODULE League -------------------------------
(***************************************************************************)
(* The prefix league of one Agent and one probe configuration: the rows of *)
(* prefix_league_entries, the requests that plan a scan from them (the run *)
(* of a schedule, and administrators who force one), results that arrive   *)
(* while other plans are made.                                             *)
(*                                                                         *)
(* What the statistics say of a prefix is any evidence Evaluate tells      *)
(* apart; the order of the prefixes of a tier, which a fresh seed decides, *)
(* is any order.  Prefixes have addresses enough for their samples.  The   *)
(* schedule fires every hour.  The hours between scans of a tier are       *)
(* scaled, and counted up to the longest of them.                          *)
(***************************************************************************)
EXTENDS Integers, FiniteSets

CONSTANTS
    Prefixes,    \* the prefixes the sources list
    IPv6,        \* those of them a scan may leave out
    Budget,      \* target_count
    Interval,    \* hours between scans, by tier
    MaxArrivals, \* how far results are counted, by tier stay (bound)
    MaxFaults    \* how many plans fail or lose targets (bound)

Tiers    == {"observation", "challenger", "champion"}
Requests == {"scheduled", "forced"}

ASSUME LeagueAssumption ==
    /\ IsFiniteSet(Prefixes) /\ IPv6 \subseteq Prefixes
    /\ Budget \in Nat \ {0}
    /\ Interval \in [Tiers -> Nat \ {0}]
    /\ \A t \in Tiers : Interval[t] <= Interval["observation"]
    /\ MaxArrivals \in Nat \ {0, 1} /\ MaxFaults \in Nat

VARIABLES
    tier, badStreak,
    fresh,     \* last_result_at is after last_evaluated_at
    age,       \* hours since last_scheduled_at, the longest interval at most
    open,      \* whether tasks of the prefix have no result yet
    planned,   \* what the scans being created are for: prefixes, or none under way
    hour,      \* whether the schedule's run of this hour is "due" or "done"
    arrivals,  \* (ghost) batches of results since the prefix came to its tier
    faults

entries == <<tier, badStreak, fresh>>
vars    == <<entries, age, open, planned, hour, arrivals, faults>>

TypeOK ==
    /\ tier \in [Prefixes -> Tiers]
    /\ badStreak \in [Prefixes -> 0 .. MaxArrivals]
    /\ fresh \subseteq Prefixes /\ open \subseteq Prefixes
    /\ age \in [Prefixes -> 0 .. Interval["observation"]]
    /\ planned \in [Requests -> SUBSET Prefixes]
    /\ hour \in {"due", "done"}
    /\ arrivals \in [Prefixes -> 0 .. MaxArrivals]
    /\ faults \in 0 .. MaxFaults

\* No prefix was scheduled yet: all are due.
Init ==
    /\ tier = [p \in Prefixes |-> "observation"]
    /\ badStreak = [p \in Prefixes |-> 0]
    /\ fresh = {} /\ open = {}
    /\ age = [p \in Prefixes |-> Interval["observation"]]
    /\ planned = [r \in Requests |-> {}]
    /\ hour = "due"
    /\ arrivals = [p \in Prefixes |-> 0]
    /\ faults = 0

-----------------------------------------------------------------------------
\* league.Evaluate: what the statistics say of a prefix.  Where several of these hold, the
\* tier and the streak become what one of them alone makes them.
Evidence == {"none", "good", "championReady", "bad", "severe"}

\* (ghost and streak) counted up to the bound
CountUp(n) == IF n < MaxArrivals THEN n + 1 ELSE n

Streak(p, e) == IF e \in {"bad", "severe"} THEN CountUp(badStreak[p]) ELSE 0

TierAfter(p, e) ==
    CASE tier[p] = "champion" ->
           IF e = "severe" THEN "observation"
           ELSE IF Streak(p, e) >= 2 THEN "challenger" ELSE "champion"
      [] tier[p] = "challenger" ->
           IF e = "severe" THEN "observation"
           ELSE IF e = "championReady" THEN "champion"
           ELSE IF Streak(p, e) >= 2 THEN "observation" ELSE "challenger"
      [] OTHER -> IF e \in {"good", "championReady"} THEN "challenger" ELSE "observation"

\* (mutant) An entry is evaluated whenever it is planned.
HasNews_Always(p) == TRUE

\* The entries that are evaluated: with a result since they were evaluated last.
HasNews(p) == p \in fresh

\* The prefixes with news are evaluated, on evidence e; a change of tier ends the streak.
Evaluate(e) ==
    LET Moved == {p \in DOMAIN e : tier'[p] # tier[p]}
    IN /\ tier' = [p \in Prefixes |-> IF p \in DOMAIN e THEN TierAfter(p, e[p]) ELSE tier[p]]
       /\ badStreak' = [p \in Prefixes |->
             IF p \in Moved THEN 0
             ELSE IF p \in DOMAIN e THEN Streak(p, e[p]) ELSE badStreak[p]]
       /\ arrivals' = [p \in Prefixes |-> IF p \in Moved THEN 0 ELSE arrivals[p]]
       /\ fresh' = fresh \ DOMAIN e

-----------------------------------------------------------------------------
\* league.PlanAgent, after the evaluation
Due(p, force) == force \/ age[p] >= Interval[tier'[p]]

Samples == [observation |-> 1, challenger |-> 3, champion |-> 6]

\* How often a tier comes in one round of the pattern.
Pattern == [observation |-> 1, challenger |-> 2, champion |-> 3]

Least(m, n) == IF m < n THEN m ELSE n

(***************************************************************************)
(* The i-th target of a tier comes in a round of the pattern, after those  *)
(* of earlier rounds and of the tiers before it in the same one; the first *)
(* target of each prefix of a tier comes before the second of any.  Within *)
(* the budget as many prefixes of each tier are planned as have a target.  *)
(***************************************************************************)
\* (mutant) The observation tier takes what the others leave.
Round_Last(i, t) == IF t = "observation" THEN Budget + i ELSE (i - 1) \div Pattern[t]

Round(i, t) == (i - 1) \div Pattern[t]

Earlier(t) == CASE t = "observation" -> {"champion", "challenger"}
                [] t = "challenger"  -> {"champion"}
                [] t = "champion"    -> {}

Ahead(i, t, count) ==
    LET Until(n, u) == Least(Pattern[u] * n, Samples[u] * count[u])
        Of(u) == IF u = t THEN i - 1
                 ELSE Until(Round(i, t) + (IF u \in Earlier(t) THEN 1 ELSE 0), u)
    IN Of("champion") + Of("challenger") + Of("observation")

Shares ==
    {[due |-> count, plan |-> [t \in Tiers |->
          Cardinality({i \in 1 .. count[t] : Ahead(i, t, count) < Budget})]] :
        count \in [Tiers -> 0 .. Cardinality(Prefixes)]}

CountByTier(P) == [t \in Tiers |-> Cardinality({p \in P : tier'[p] = t})]

\* Any order of the prefixes that are due.
Plans(due) ==
    {P \in SUBSET due : [due |-> CountByTier(due), plan |-> CountByTier(P)] \in Shares}

(***************************************************************************)
(* The evaluation and the plan are one transaction, which locks the        *)
(* entries first: two requests do not overlap here, but one may come       *)
(* before the other has created its job.  A forced scan may leave IPv6 out.*)
(***************************************************************************)
PlanLeagueTargets(r) ==
    /\ planned[r] = {}
    /\ r = "scheduled" => hour = "due"
    /\ hour' = IF r = "scheduled" THEN "done" ELSE hour
    /\ \E S \in IF r = "scheduled" THEN {Prefixes} ELSE {Prefixes, Prefixes \ IPv6} :
          \E e \in [{p \in S : HasNews(p)} -> Evidence] :
             /\ Evaluate(e)
             /\ \E P \in Plans({p \in S : Due(p, r = "forced")}) :
                   planned' = [planned EXCEPT ![r] = P]
    /\ UNCHANGED <<age, open, faults>>

\* The tasks of the prefixes in P are inserted; those of the others are blacklisted.
CreateScanJob(r) ==
    /\ planned[r] # {} /\ planned' = [planned EXCEPT ![r] = {}]
    /\ \E P \in SUBSET planned[r] :
          /\ P # {}
          /\ P = planned[r] \/ faults < MaxFaults
          /\ faults' = IF P = planned[r] THEN faults ELSE faults + 1
          /\ age' = [p \in Prefixes |-> IF p \in P THEN 0 ELSE age[p]]
          /\ open' = open \cup P
    /\ UNCHANGED <<entries, hour, arrivals>>

\* An error, a stop of the Center, or nothing inserted; what was evaluated stays.
Fail(r) ==
    /\ faults < MaxFaults /\ faults' = faults + 1
    /\ planned[r] # {}
    /\ planned' = [planned EXCEPT ![r] = {}]
    /\ UNCHANGED <<entries, age, open, hour, arrivals>>

\* A batch of an Agent holds results of p, the last open ones or not.
Results(p) ==
    /\ p \in open
    /\ open' \in {open, open \ {p}}
    /\ fresh' = fresh \cup {p}
    /\ arrivals' = [arrivals EXCEPT ![p] = CountUp(@)]
    /\ UNCHANGED <<tier, badStreak, age, planned, hour, faults>>

\* The next hour, once the run of this one is created.
Hour ==
    /\ hour = "done" /\ planned["scheduled"] = {}
    /\ hour' = "due"
    /\ age' = [p \in Prefixes |->
          IF age[p] < Interval["observation"] THEN age[p] + 1 ELSE age[p]]
    /\ UNCHANGED <<entries, open, planned, arrivals, faults>>

Next ==
    \/ \E r \in Requests : PlanLeagueTargets(r) \/ CreateScanJob(r) \/ Fail(r)
    \/ \E p \in Prefixes : Results(p)
    \/ Hour

\* The schedule runs hour after hour; results and administrators may not come.
Fairness == WF_vars(Hour \/ CreateScanJob("scheduled") \/ PlanLeagueTargets("scheduled"))

Spec == Init /\ [][Next]_vars

FairSpec == Spec /\ Fairness

-----------------------------------------------------------------------------
(***************************************************************************)
(* However often plans are made, at once or again with nothing new, the    *)
(* bad windows held against a prefix are no more than the batches of       *)
(* results that came since it is in its tier, and a champion or challenger *)
(* never has two of them against it and stays.                             *)
(***************************************************************************)
NoDoublePenalty ==
    \A p \in Prefixes :
        /\ badStreak[p] <= arrivals[p]
        /\ tier[p] # "observation" => badStreak[p] <= 1

(***************************************************************************)
(* The observation tier does not starve: a prefix of it is scheduled in    *)
(* the end, or promoted, although champions are due every hour and         *)
(* whatever the seeds choose.  There must be no more prefixes than hours   *)
(* between its scans.                                                      *)
(***************************************************************************)
ObservationServed ==
    \A p \in Prefixes :
        tier[p] = "observation" ~> (age[p] = 0 \/ tier[p] # "observation")
=============================================================================
