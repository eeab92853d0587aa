---------------------------- MODULE LeagueProofs ----------------------------
(***************************************************************************)
(* Proofs about League: its types, that no result is counted twice against *)
(* a prefix, and that a plan of six targets has room for the observation   *)
(* tier, whatever prefixes are due.                                        *)
(***************************************************************************)
EXTENDS League, FiniteSetTheorems, TLAPS

LEMMA TierAfterTyped ==
  ASSUME NEW p, NEW e
  PROVE  TierAfter(p, e) \in Tiers
  BY DEF TierAfter, Tiers

LEMMA CountUpTyped ==
  ASSUME NEW n \in 0 .. MaxArrivals
  PROVE  /\ CountUp(n) \in 0 .. MaxArrivals
         /\ n <= CountUp(n) /\ CountUp(n) <= n + 1
         /\ n < MaxArrivals => CountUp(n) = n + 1
  BY LeagueAssumption DEF CountUp

LEMMA StreakTyped ==
  ASSUME TypeOK, NEW p \in Prefixes, NEW e
  PROVE  Streak(p, e) \in 0 .. MaxArrivals
  <1>1. badStreak[p] \in 0 .. MaxArrivals
    BY DEF TypeOK
  <1> QED
    BY <1>1, CountUpTyped, LeagueAssumption DEF Streak

LEMMA EvaluateTyped ==
  ASSUME TypeOK, NEW S \in SUBSET Prefixes, NEW e \in [S -> Evidence], Evaluate(e)
  PROVE  /\ tier' \in [Prefixes -> Tiers]
         /\ badStreak' \in [Prefixes -> 0 .. MaxArrivals]
         /\ arrivals' \in [Prefixes -> 0 .. MaxArrivals]
         /\ fresh' \subseteq Prefixes
  <1>1. tier' \in [Prefixes -> Tiers]
    BY TierAfterTyped DEF Evaluate, TypeOK
  <1>2. 0 \in 0 .. MaxArrivals
    BY LeagueAssumption
  <1>3. badStreak' \in [Prefixes -> 0 .. MaxArrivals]
    BY <1>2, StreakTyped DEF Evaluate, TypeOK
  <1>4. arrivals' \in [Prefixes -> 0 .. MaxArrivals]
    BY <1>2 DEF Evaluate, TypeOK
  <1> QED
    BY <1>1, <1>3, <1>4 DEF Evaluate, TypeOK

(***************************************************************************)
(* What a request plans from: the prefixes S, evidence e about those of    *)
(* them with news, and a set P of prefixes that are due.                   *)
(***************************************************************************)
LEMMA PlanSteps ==
  ASSUME NEW r \in Requests, PlanLeagueTargets(r)
  PROVE  \E S \in SUBSET Prefixes : \E e \in [{p \in S : HasNews(p)} -> Evidence] :
            /\ Evaluate(e)
            /\ \E P \in SUBSET S : planned' = [planned EXCEPT ![r] = P]
  BY DEF PlanLeagueTargets, Plans

LEMMA TypeInvariant == ASSUME TypeOK, [Next]_vars PROVE TypeOK'
  <1>1. ASSUME NEW r \in Requests, PlanLeagueTargets(r) PROVE TypeOK'
    <2>0. PICK S \in SUBSET Prefixes : \E e \in [{p \in S : HasNews(p)} -> Evidence] :
            /\ Evaluate(e)
            /\ \E P \in SUBSET S : planned' = [planned EXCEPT ![r] = P]
      BY <1>1, PlanSteps
    <2>1. PICK e \in [{p \in S : HasNews(p)} -> Evidence] :
            /\ Evaluate(e)
            /\ \E P \in SUBSET S : planned' = [planned EXCEPT ![r] = P]
      BY <2>0
    <2>2. {p \in S : HasNews(p)} \in SUBSET Prefixes
      OBVIOUS
    <2>3. planned' \in [Requests -> SUBSET Prefixes]
      BY <2>1 DEF TypeOK
    <2> QED
      BY <1>1, <2>1, <2>2, <2>3, EvaluateTyped DEF PlanLeagueTargets, TypeOK
  <1>2. ASSUME NEW r \in Requests, CreateScanJob(r) PROVE TypeOK'
    <2>1. 0 \in 0 .. Interval["observation"] /\ planned[r] \in SUBSET Prefixes
      BY LeagueAssumption DEF Tiers, TypeOK
    <2>2. faults' \in 0 .. MaxFaults /\ open' \subseteq Prefixes
          /\ age' \in [Prefixes -> 0 .. Interval["observation"]]
      BY <1>2, <2>1, LeagueAssumption DEF CreateScanJob, TypeOK
    <2> QED
      BY <1>2, <2>2 DEF CreateScanJob, entries, TypeOK
  <1>3. ASSUME NEW r \in Requests, Fail(r) PROVE TypeOK'
    BY <1>3, LeagueAssumption DEF Fail, entries, TypeOK
  <1>4. ASSUME NEW p \in Prefixes, Results(p) PROVE TypeOK'
    <2>1. CountUp(arrivals[p]) \in 0 .. MaxArrivals
      BY CountUpTyped DEF TypeOK
    <2> QED
      BY <1>4, <2>1 DEF Results, TypeOK
  <1>5. CASE Hour
    <2>1. Interval["observation"] \in Nat
      BY LeagueAssumption DEF Tiers
    <2> QED
      BY <1>5, <2>1 DEF Hour, entries, TypeOK
  <1>6. CASE UNCHANGED vars
    BY <1>6 DEF vars, entries, TypeOK
  <1> QED
    BY <1>1, <1>2, <1>3, <1>4, <1>5, <1>6 DEF Next

LEMMA InitTyped == Init => TypeOK
  BY LeagueAssumption DEF Init, TypeOK, Tiers, Requests

(***************************************************************************)
(* Every state of the league is well typed.                                *)
(***************************************************************************)
THEOREM TypeCorrect == Spec => []TypeOK
  BY InitTyped, TypeInvariant, PTL DEF Spec

-----------------------------------------------------------------------------
(***************************************************************************)
(* The streak of a prefix with results that were not evaluated yet leaves  *)
(* room for them.                                                          *)
(***************************************************************************)
Counted ==
    \A p \in Prefixes :
        /\ badStreak[p] <= arrivals[p]
        /\ p \in fresh => badStreak[p] < arrivals[p] \/ arrivals[p] = MaxArrivals
        /\ tier[p] # "observation" => badStreak[p] <= 1

LEMMA EvaluateCounts ==
  ASSUME TypeOK, Counted, NEW S \in SUBSET Prefixes,
         NEW e \in [{p \in S : HasNews(p)} -> Evidence], Evaluate(e)
  PROVE  Counted'
  <1> SUFFICES ASSUME NEW p \in Prefixes
               PROVE  /\ badStreak'[p] <= arrivals'[p]
                      /\ p \in fresh' => badStreak'[p] < arrivals'[p]
                                         \/ arrivals'[p] = MaxArrivals
                      /\ tier'[p] # "observation" => badStreak'[p] <= 1
    BY DEF Counted
  <1> DEFINE News == {q \in S : HasNews(q)}
  <1>1. /\ badStreak[p] \in 0 .. MaxArrivals /\ arrivals[p] \in 0 .. MaxArrivals
        /\ DOMAIN e = News /\ MaxArrivals \in Nat \ {0, 1}
    BY LeagueAssumption DEF TypeOK
  <1>2. /\ tier'[p] = IF p \in News THEN TierAfter(p, e[p]) ELSE tier[p]
        /\ badStreak'[p] = IF p \in News /\ tier'[p] # tier[p] THEN 0
                           ELSE IF p \in News THEN Streak(p, e[p]) ELSE badStreak[p]
        /\ arrivals'[p] = IF p \in News /\ tier'[p] # tier[p] THEN 0 ELSE arrivals[p]
        /\ fresh' = fresh \ News
    BY <1>1 DEF Evaluate
  <1>3. CASE p \notin News
    BY <1>1, <1>2, <1>3 DEF Counted
  <1>4. CASE p \in News /\ tier'[p] # tier[p]
    BY <1>1, <1>2, <1>4
  <1>5. CASE p \in News /\ tier'[p] = tier[p]
    <2>1. p \in fresh /\ p \notin fresh'
      BY <1>2, <1>5 DEF HasNews
    <2>2. Streak(p, e[p]) \in 0 .. MaxArrivals /\ Streak(p, e[p]) <= badStreak[p] + 1
      BY <1>1, StreakTyped, CountUpTyped DEF Streak
    <2>3. Streak(p, e[p]) <= arrivals[p]
      BY <1>1, <2>1, <2>2 DEF Counted
    <2>4. tier'[p] # "observation" => Streak(p, e[p]) <= 1
      <3>1. tier[p] \in Tiers
        BY DEF TypeOK
      <3>2. tier'[p] = TierAfter(p, e[p])
        BY <1>2, <1>5
      <3> QED
        BY <1>5, <2>2, <3>1, <3>2 DEF TierAfter, Tiers
    <2> QED
      BY <1>2, <1>5, <2>1, <2>3, <2>4
  <1> QED
    BY <1>3, <1>4, <1>5

LEMMA CountedInvariant == ASSUME TypeOK, Counted, [Next]_vars PROVE Counted'
  <1>1. ASSUME NEW r \in Requests, PlanLeagueTargets(r) PROVE Counted'
    BY <1>1, PlanSteps, EvaluateCounts
  <1>2. ASSUME NEW r \in Requests, CreateScanJob(r) PROVE Counted'
    BY <1>2 DEF CreateScanJob, entries, Counted
  <1>3. ASSUME NEW r \in Requests, Fail(r) PROVE Counted'
    BY <1>3 DEF Fail, entries, Counted
  <1>4. ASSUME NEW p \in Prefixes, Results(p) PROVE Counted'
    <2>1. \A q \in Prefixes : badStreak[q] \in 0 .. MaxArrivals
                              /\ arrivals[q] \in 0 .. MaxArrivals
      BY DEF TypeOK
    <2>2. arrivals' = [arrivals EXCEPT ![p] = CountUp(arrivals[p])]
          /\ arrivals \in [Prefixes -> 0 .. MaxArrivals]
          /\ fresh' = fresh \cup {p} /\ UNCHANGED <<tier, badStreak>>
      BY <1>4 DEF Results, TypeOK
    <2>3. CountUp(arrivals[p]) \in 0 .. MaxArrivals /\ arrivals[p] <= CountUp(arrivals[p])
          /\ (arrivals[p] < MaxArrivals => CountUp(arrivals[p]) = arrivals[p] + 1)
      BY <2>1, CountUpTyped
    <2>4. MaxArrivals \in Nat
      BY LeagueAssumption
    <2> QED
      BY <2>1, <2>2, <2>3, <2>4 DEF Counted
  <1>5. CASE Hour
    BY <1>5 DEF Hour, entries, Counted
  <1>6. CASE UNCHANGED vars
    BY <1>6 DEF vars, entries, Counted
  <1> QED
    BY <1>1, <1>2, <1>3, <1>4, <1>5, <1>6 DEF Next

(***************************************************************************)
(* No result is held against a prefix twice, however many plans are made   *)
(* and in whatever order with the results.                                 *)
(***************************************************************************)
THEOREM PenaltiesAreCounted == Spec => []NoDoublePenalty
  <1>1. Init => Counted
    BY LeagueAssumption DEF Init, Counted
  <1>2. TypeOK /\ Counted /\ [Next]_vars => Counted'
    BY CountedInvariant
  <1>3. Counted => NoDoublePenalty
    BY DEF Counted, NoDoublePenalty
  <1> QED
    BY <1>1, <1>2, <1>3, TypeCorrect, PTL DEF Spec

-----------------------------------------------------------------------------
\* In the first round the tiers before it take five targets at most.
LEMMA FirstRound ==
  ASSUME NEW count \in [Tiers -> Nat]
  PROVE  Ahead(1, "observation", count) \in 0 .. 5
  <1>1. count["champion"] \in Nat /\ count["challenger"] \in Nat
    BY DEF Tiers
  <1>2. Round(1, "observation") = 0
    BY DEF Round, Pattern
  <1>3. Earlier("observation") = {"champion", "challenger"}
    BY DEF Earlier
  <1> QED
    BY <1>1, <1>2, <1>3 DEF Ahead, Least, Pattern, Samples

(***************************************************************************)
(* A budget of six is enough: however many champions and challengers are   *)
(* due, a plan made when a prefix of the observation tier is due has one   *)
(* of that tier in it.                                                     *)
(***************************************************************************)
THEOREM ObservationHasShare ==
  ASSUME TypeOK, Budget >= 6, NEW due \in SUBSET Prefixes, NEW P \in Plans(due),
         NEW p \in due, tier'[p] = "observation"
  PROVE  \E q \in P : tier'[q] = "observation"
  <1> DEFINE count == CountByTier(due)
             Of(S) == {q \in S : tier'[q] = "observation"}
             Within == {i \in 1 .. count["observation"] :
                            Ahead(i, "observation", count) < Budget}
  <1>1. P \in SUBSET due /\ [due |-> count, plan |-> CountByTier(P)] \in Shares
    BY DEF Plans
  <1>2. CountByTier(P)["observation"] = Cardinality(Within)
    <2>1. PICK c \in [Tiers -> 0 .. Cardinality(Prefixes)] :
            [due |-> count, plan |-> CountByTier(P)] =
            [due |-> c, plan |-> [t \in Tiers |->
                Cardinality({i \in 1 .. c[t] : Ahead(i, t, c) < Budget})]]
      BY <1>1 DEF Shares
    <2>2. c = count /\ CountByTier(P) =
            [t \in Tiers |-> Cardinality({i \in 1 .. c[t] : Ahead(i, t, c) < Budget})]
      BY <2>1
    <2> QED
      BY <2>2 DEF Tiers
  <1>3. /\ count = [t \in Tiers |-> Cardinality({q \in due : tier'[q] = t})]
        /\ CountByTier(P)["observation"] = Cardinality(Of(P))
        /\ count["observation"] = Cardinality(Of(due))
    BY DEF CountByTier, Tiers
  <1>4. /\ IsFiniteSet(due) /\ IsFiniteSet(P) /\ IsFiniteSet(Of(P)) /\ IsFiniteSet(Of(due))
        /\ \A t \in Tiers : IsFiniteSet({q \in due : tier'[q] = t})
    BY <1>1, FS_Subset, LeagueAssumption
  <1>5. count \in [Tiers -> Nat]
    BY <1>3, <1>4, FS_CardinalityType
  <1>6. count["observation"] # 0
    <2>1. p \in Of(due)
      OBVIOUS
    <2> QED
      BY <1>3, <1>4, <2>1, FS_EmptySet
  <1>7. 1 \in Within
    <2>1. count["observation"] \in Nat
      BY <1>5 DEF Tiers
    <2>2. Ahead(1, "observation", count) < Budget
      BY <1>5, FirstRound, LeagueAssumption
    <2> QED
      BY <1>6, <2>1, <2>2
  <1>8. Cardinality(Within) # 0
    <2>1. IsFiniteSet(1 .. count["observation"])
      BY <1>5, FS_Interval DEF Tiers
    <2>2. IsFiniteSet(Within)
      BY <2>1, FS_Subset
    <2> QED
      BY <1>7, <2>2, FS_EmptySet
  <1>9. Of(P) # {}
    BY <1>2, <1>3, <1>8, FS_EmptySet
  <1> QED
    BY <1>9
=============================================================================
