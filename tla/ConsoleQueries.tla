--------------------------- MODULE ConsoleQueries ---------------------------
(***************************************************************************)
(* The cached queries of the web console: which page reads which query,    *)
(* which of them are repeated by a timer, and which a mutation invalidates *)
(* when the server has accepted it.  The cache is TanStack Query; it is    *)
(* modelled from how the hooks use it.  What a query answers is a number,  *)
(* raised by every write that can change the answer.                       *)
(*                                                                         *)
(* The queries of a run are those in watched; a page shows the others      *)
(* without delay.                                                          *)
(***************************************************************************)
EXTENDS Integers, FiniteSets

CONSTANTS
    Followed,   \* the sets of queries a run may watch
    MaxWrites,  \* writes to what one query reads (bound)
    MaxPending, \* mutations pending at once (bound)
    MaxFaults   \* requests that fail (bound)

ConsoleQueriesAssumption ==
    /\ MaxWrites \in Nat /\ MaxPending \in Nat /\ MaxFaults \in Nat

Keys == {"overview", "jobs", "recentJobs", "results", "agents", "enrollments", "enrollment",
         "schedules", "recheck", "syncs", "runs", "official", "asns", "blacklist", "users"}

jobsQueryKey             == {"jobs", "recentJobs"}
agentEnrollmentsQueryKey == {"enrollments", "enrollment"}

(***************************************************************************)
(* A page: the queries it reads, those whose first answer it waits for     *)
(* before it shows anything, those it reads with a refetchInterval, and    *)
(* whether it shows nothing but the error when one of the awaited failed.  *)
(***************************************************************************)
PageWith(keys, errorOnly) ==
    [reads |-> keys, gate |-> keys, polled |-> keys, errorOnly |-> errorOnly]

DashboardPage  == [PageWith({"overview", "recentJobs", "results", "agents"}, TRUE)
                     EXCEPT !.gate = {"overview"}]
ScansPage      == [PageWith({"jobs", "agents"}, FALSE) EXCEPT !.gate = {"jobs"}]
ResultsPage    == [PageWith({"agents"}, FALSE) EXCEPT !.gate = {}, !.polled = {}]
LeaguePage     == [PageWith({"agents"}, FALSE) EXCEPT !.gate = {}, !.polled = {}]
AgentsPage     == PageWith({"agents", "enrollments"}, TRUE)
AgentEnrollmentApprovalPage == PageWith({"enrollment"}, TRUE)
SourcesPage    == PageWith({"official", "asns"}, FALSE)
BlacklistPage  == PageWith({"blacklist"}, FALSE)
UsersPage      == [PageWith({"users"}, TRUE) EXCEPT !.polled = {}]

\* The sections of the settings, one on the screen at a time.
AutomationOverview    == PageWith({"schedules", "recheck", "syncs", "runs", "overview"}, TRUE)
ScanSchedulesPanel    == [PageWith({"schedules"}, FALSE) EXCEPT !.gate = {}]  \* "new" is shown
BlacklistRecheckPanel == PageWith({"recheck"}, TRUE)
SourceSyncPanel       == PageWith({"syncs"}, TRUE)
AutomationRunsTable   == PageWith({"runs"}, TRUE)

Page ==
    [dashboard |-> DashboardPage, jobs |-> ScansPage, results |-> ResultsPage,
     league |-> LeaguePage, agents |-> AgentsPage, approval |-> AgentEnrollmentApprovalPage,
     sources |-> SourcesPage, blacklist |-> BlacklistPage, users |-> UsersPage,
     automation |-> AutomationOverview, schedules |-> ScanSchedulesPanel,
     recheck |-> BlacklistRecheckPanel, syncs |-> SourceSyncPanel, runs |-> AutomationRunsTable]

Pages     == DOMAIN Page
Reads(p)  == Page[p].reads
Polled(p) == Page[p].polled

(***************************************************************************)
(* A mutation, those with the same effects taken together: the pages that  *)
(* submit it, the queries its onSuccess invalidates, and the further ones  *)
(* whose answer the server changes when it accepts it.                     *)
(***************************************************************************)
Mutation(pages, invalidated, further) ==
    [from |-> pages, invalidates |-> invalidated, writes |-> invalidated \cup further]

changeJob        == Mutation({"jobs"}, jobsQueryKey \cup {"overview"}, {})
changeSchedule   == Mutation({"schedules"}, {"schedules"}, {})
runSchedule      == Mutation({"schedules"}, {"schedules"} \cup jobsQueryKey, {"overview", "runs"})
updateRecheck    == Mutation({"recheck"}, {"recheck"}, {})
runRecheck       == Mutation({"recheck"}, {"recheck", "runs"} \cup jobsQueryKey, {"overview"})
recheckBlacklist == Mutation({"blacklist"}, {"blacklist", "overview"} \cup jobsQueryKey,
                             {"recheck", "runs"})
updateSync       == Mutation({"syncs"}, {"syncs"}, {})
runSync          == Mutation({"syncs"}, {"syncs", "runs", "official", "asns"}, {"overview"})
changeSource     == Mutation({"sources"}, {"official", "asns", "overview"}, {})
approve          == Mutation({"approval"}, agentEnrollmentsQueryKey \cup {"agents"}, {})
reject           == Mutation({"approval"}, agentEnrollmentsQueryKey, {})
preauthorize     == Mutation({"agents"}, agentEnrollmentsQueryKey, {})

\* (mutant) nothing is invalidated
changeUser_Silent == Mutation({"users"}, {}, {"users"})

changeUser == Mutation({"users"}, {"users"}, {})

Effect ==
    [changeJob |-> changeJob, changeSchedule |-> changeSchedule, runSchedule |-> runSchedule,
     updateRecheck |-> updateRecheck, runRecheck |-> runRecheck,
     recheckBlacklist |-> recheckBlacklist, updateSync |-> updateSync, runSync |-> runSync,
     changeSource |-> changeSource, changeUser |-> changeUser, approve |-> approve,
     reject |-> reject, preauthorize |-> preauthorize]

Mutations      == DOMAIN Effect
From(m)        == Effect[m].from
Invalidates(m) == Effect[m].invalidates
Writes(m)      == Effect[m].writes

\* No page shows it with a timer.
Unpolled == {k \in Keys : \A p \in Pages : k \notin Polled(p)}

None == -1

VARIABLES
    watched,   \* the queries of this run
    page,      \* the page, or the section of the settings, on the screen
    srv,       \* server: the number of what each query would answer
    q,         \* cache: the state of each query
    phase,     \* of each mutation: the request, then the wait for the queries
    waits,     \* the queries that a mutation's onSuccess waits for
    own,       \* history: what an accepted mutation of this tab made of a query
    overtaken, \* history: queries invalidated while a fetch without data or
               \* without a page was under way, which the cache does not repeat
    faults

vars == <<watched, page, srv, q, phase, waits, own, overtaken, faults>>

Query ==
    [data    : None .. MaxWrites,
     status  : {"pending", "success", "error"},
     fetch   : {"idle", "asked", "answered", "failed"},
     answer  : 0 .. MaxWrites,
     invalid : BOOLEAN,
     tried   : BOOLEAN]

NotRead == [data |-> None, status |-> "pending", fetch |-> "idle", answer |-> 0,
            invalid |-> FALSE, tried |-> FALSE]

\* The mutations that concern a watched query; the others change nothing here.
Used == {m \in Mutations : (Invalidates(m) \cup Writes(m)) \cap watched # {}}

\* Pages that neither show a watched query nor change one are alike: one is visited.
Visited ==
    LET near == {p \in Pages : Reads(p) \cap watched # {} \/ \E m \in Used : p \in From(m)}
    IN  near \cup (IF near = Pages THEN {} ELSE {CHOOSE p \in Pages \ near : TRUE})

TypeOK ==
    /\ watched \in Followed /\ page \in Pages
    /\ srv \in [watched -> 0 .. MaxWrites]
    /\ q \in [watched -> Query]
    /\ phase \in [Used -> {"idle", "sent", "served", "failed", "refetch"}]
    /\ waits \in [Used -> SUBSET watched]
    /\ own \in [watched -> 0 .. MaxWrites]
    /\ overtaken \subseteq watched
    /\ faults \in 0 .. MaxFaults

Mounted(k) == k \in Reads(page)

\* A fetch begins: the shown data stay, and the first attempt is made.
Started(r) ==
    [r EXCEPT !.fetch = "asked", !.tried = FALSE,
              !.status = IF r.data = None THEN "pending" ELSE @]

Init ==
    /\ watched \in Followed /\ page \in Visited
    /\ srv = [k \in watched |-> 0]
    /\ q = [k \in watched |-> IF k \in Reads(page) THEN Started(NotRead) ELSE NotRead]
    /\ phase = [m \in Used |-> "idle"] /\ waits = [m \in Used |-> {}]
    /\ own = [k \in watched |-> 0] /\ overtaken = {} /\ faults = 0

-----------------------------------------------------------------------------
(***************************************************************************)
(* Queries.                                                                *)
(***************************************************************************)

\* Agents, the scheduler or another person write.
Change(k) ==
    /\ srv[k] < MaxWrites
    /\ srv' = [srv EXCEPT ![k] = @ + 1]
    /\ UNCHANGED <<watched, page, q, phase, waits, own, overtaken, faults>>

ServeFetch(k) ==
    /\ q[k].fetch = "asked"
    /\ q' = [q EXCEPT ![k].fetch = "answered", ![k].answer = srv[k]]
    /\ UNCHANGED <<watched, page, srv, phase, waits, own, overtaken, faults>>

FailFetch(k) ==
    /\ q[k].fetch \in {"asked", "answered"} /\ faults < MaxFaults
    /\ q' = [q EXCEPT ![k].fetch = "failed", ![k].answer = 0]
    /\ faults' = faults + 1
    /\ UNCHANGED <<watched, page, srv, phase, waits, own, overtaken>>

\* The wait of every mutation for this query is over.
Awaited(k) == waits' = [m \in Used |-> waits[m] \ {k}]

TakeAnswer(k) ==
    /\ q[k].fetch = "answered"
    /\ q' = [q EXCEPT ![k] = [NotRead EXCEPT !.data = q[k].answer, !.status = "success"]]
    /\ Awaited(k)
    /\ UNCHANGED <<watched, page, srv, phase, own, overtaken, faults>>

\* retry: 1, as long as a page wants the answer.  Then the error replaces the page,
\* also when there are data of an earlier fetch.
TakeFailure(k) ==
    /\ q[k].fetch = "failed"
    /\ IF ~q[k].tried /\ Mounted(k)
         THEN q' = [q EXCEPT ![k].fetch = "asked", ![k].tried = TRUE] /\ UNCHANGED waits
         ELSE q' = [q EXCEPT ![k].fetch = "idle", ![k].status = "error"] /\ Awaited(k)
    /\ UNCHANGED <<watched, page, srv, phase, own, overtaken, faults>>

\* (mutant) the timer stops at an error
Repeat_NotAfterError(k) ==
    /\ Mounted(k) /\ q[k].fetch = "idle" /\ q[k].status # "error"
    /\ k \in Polled(page)
    /\ q' = [q EXCEPT ![k] = Started(@)]
    /\ overtaken' = overtaken \ {k}
    /\ UNCHANGED <<watched, page, srv, phase, waits, own, faults>>

\* The refetchInterval, or the button of the error.
Repeat(k) ==
    /\ Mounted(k) /\ q[k].fetch = "idle"
    /\ k \in Polled(page) \/ q[k].status = "error"
    /\ q' = [q EXCEPT ![k] = Started(@)]
    /\ overtaken' = overtaken \ {k}
    /\ UNCHANGED <<watched, page, srv, phase, waits, own, faults>>

\* Another page reads what is missing, marked, or older than the staleTime.
Visit(p) ==
    /\ p # page /\ page' = p
    /\ \E old \in SUBSET (Reads(p) \cap watched) :
         LET again == {k \in Reads(p) \cap watched :
                         /\ q[k].fetch = "idle"
                         /\ q[k].data = None \/ q[k].invalid \/ k \in old}
         IN  /\ q' = [k \in watched |-> IF k \in again THEN Started(q[k]) ELSE q[k]]
             /\ overtaken' = overtaken \ again
    /\ UNCHANGED <<watched, srv, phase, waits, own, faults>>

-----------------------------------------------------------------------------
(***************************************************************************)
(* Mutations.                                                              *)
(***************************************************************************)

Shown(p) ==
    \A k \in watched :
        /\ k \in Page[p].gate => q[k].status # "pending"
        /\ k \in Page[p].gate /\ Page[p].errorOnly => q[k].status # "error"

\* The button is disabled while the mutation is pending.
Submit(m) ==
    /\ page \in From(m) /\ Shown(page) /\ phase[m] = "idle"
    /\ Cardinality({n \in Used : phase[n] # "idle"}) < MaxPending
    /\ phase' = [phase EXCEPT ![m] = "sent"]
    /\ UNCHANGED <<watched, page, srv, q, waits, own, overtaken, faults>>

Apply(m) ==
    /\ phase[m] = "sent"
    /\ \A k \in Writes(m) \cap watched : srv[k] < MaxWrites
    /\ srv' = [k \in watched |-> IF k \in Writes(m) THEN srv[k] + 1 ELSE srv[k]]
    /\ phase' = [phase EXCEPT ![m] = "served"]
    /\ UNCHANGED <<watched, page, q, waits, own, overtaken, faults>>

\* Refused, or the answer is lost; a mutation is not repeated.
Reject(m) ==
    /\ phase[m] = "sent" \/ (phase[m] = "served" /\ faults < MaxFaults)
    /\ faults' = IF phase[m] = "served" THEN faults + 1 ELSE faults
    /\ phase' = [phase EXCEPT ![m] = "failed"]
    /\ UNCHANGED <<watched, page, srv, q, waits, own, overtaken>>

\* onError: a toast; the cache keeps what it has.
onError(m) ==
    /\ phase[m] = "failed"
    /\ phase' = [phase EXCEPT ![m] = "idle"]
    /\ UNCHANGED <<watched, page, srv, q, waits, own, overtaken, faults>>

(***************************************************************************)
(* invalidateQueries marks a query; on a page it is fetched at once, after *)
(* a fetch under way was cancelled.  A first fetch is not cancelled, and   *)
(* one for no page clears the mark when it ends.                           *)
(***************************************************************************)
invalidateQueries(k) ==
    LET again == Mounted(k) /\ (q[k].data # None \/ q[k].fetch = "idle")
    IN  IF again THEN Started([q[k] EXCEPT !.answer = 0, !.invalid = TRUE])
                 ELSE [q[k] EXCEPT !.invalid = TRUE]

onSuccess(m) ==
    LET keys == Invalidates(m) \cap watched
        busy == {k \in keys : q[k].fetch # "idle" /\ (q[k].data = None \/ ~Mounted(k))}
    IN  /\ phase[m] = "served"
        /\ q' = [k \in watched |-> IF k \in keys THEN invalidateQueries(k) ELSE q[k]]
        /\ overtaken' = (overtaken \ keys) \cup busy
        /\ own' = [k \in watched |-> IF k \in Invalidates(m) \cup (Writes(m) \cap Unpolled)
                                       THEN srv[k] ELSE own[k]]
        /\ waits' = [waits EXCEPT ![m] = {k \in keys : Mounted(k)}]
        /\ phase' = [phase EXCEPT ![m] = "refetch"]
        /\ UNCHANGED <<watched, page, srv, faults>>

\* The await of onSuccess ends, and with it isPending.
Finish(m) ==
    /\ phase[m] = "refetch" /\ waits[m] = {}
    /\ phase' = [phase EXCEPT ![m] = "idle"]
    /\ UNCHANGED <<watched, page, srv, q, waits, own, overtaken, faults>>

-----------------------------------------------------------------------------
Next ==
    \/ \E k \in watched :
         \/ Change(k) \/ ServeFetch(k) \/ FailFetch(k)
         \/ TakeAnswer(k) \/ TakeFailure(k) \/ Repeat(k)
    \/ \E p \in Visited : Visit(p)
    \/ \E m \in Used :
         \/ Submit(m) \/ Apply(m) \/ Reject(m)
         \/ onError(m) \/ onSuccess(m) \/ Finish(m)

Spec == Init /\ [][Next]_vars

(***************************************************************************)
(* Requests are answered, answers are taken, and the timers of a page on   *)
(* the screen fire: of one query, or of one mutation, at most one of these *)
(* steps is possible at a time.  Nobody has to visit or to submit.         *)
(***************************************************************************)
Proceed(k) ==
    /\ k \in watched
    /\ \/ ServeFetch(k) \/ TakeAnswer(k) \/ TakeFailure(k)
       \/ k \in Polled(page) /\ Repeat(k)

Settle(m) ==
    /\ m \in Used
    /\ Apply(m) \/ Reject(m) \/ onSuccess(m) \/ onError(m) \/ Finish(m)

Followable == UNION Followed
Usable     == {m \in Mutations : (Invalidates(m) \cup Writes(m)) \cap Followable # {}}

Fairness ==
    /\ \A k \in Followable : WF_vars(Proceed(k))
    /\ \A m \in Usable : WF_vars(Settle(m))

LiveSpec == Spec /\ Fairness

-----------------------------------------------------------------------------
(***************************************************************************)
(* What a mutation of this tab changed is what its pages show.  Once a     *)
(* page has settled, an answer the server gave before the mutation is not  *)
(* on it, however polls, other mutations and visits overlapped: of the     *)
(* queries the mutation invalidates, and of those that no timer repeats.   *)
(* Only a first fetch, or one for a page that was left, may bring an older *)
(* answer: invalidateQueries does not repeat it.                           *)
(***************************************************************************)
OwnWritesShown ==
    \A k \in watched :
        /\ Mounted(k) /\ q[k].fetch = "idle" /\ q[k].status = "success" /\ k \notin overtaken
        => q[k].data >= own[k]

(***************************************************************************)
(* Whatever an Agent, the scheduler or another person changed is shown on  *)
(* a page that stays open, without anyone touching it, also after requests *)
(* of the page failed.  Of the users' page, and of the list of Agents that *)
(* names the filters of the results, this is not so: they have no timer.   *)
(***************************************************************************)
EveryChangeAppears ==
    \A k \in Followable : \A v \in 1 .. MaxWrites :
        (k \in watched \cap Polled(page) /\ srv[k] = v)
          ~> (k \in watched \cap Polled(page) => q[k].status = "success" /\ q[k].data >= v)
-----------------------------------------------------------------------------
(***************************************************************************)
(* The inductive invariant, of the queries that were not overtaken.  An    *)
(* answer on its way is new enough; data that are not are marked; and no   *)
(* page that has settled shows marked data.                                *)
(***************************************************************************)
OwnIsServed == \A k \in watched : own[k] <= srv[k]

SettledIsNew(k) ==
    /\ q[k].fetch = "answered" => q[k].answer >= own[k]
    /\ q[k].fetch = "idle" /\ q[k].status = "success" =>
        /\ q[k].invalid \/ q[k].data >= own[k]
        /\ ~(Mounted(k) /\ q[k].invalid)

IInv == TypeOK /\ OwnIsServed /\ \A k \in watched \ overtaken : SettledIsNew(k)
=============================================================================
