---------------------------- MODULE ResultFilters ----------------------------
(***************************************************************************)
(* The filters of the result page: view, search, Agent, job, state, time   *)
(* range, and the cascade continent - country - city - colo.  The choices  *)
(* of the cascade and the list of jobs are what the server finds results   *)
(* for; they are polled, and change with results as with other filters.    *)
(* Until a new answer is there the previous one stays.                     *)
(***************************************************************************)
EXTENDS Naturals

CONSTANTS
    Colos,     \* facets: [continent, country, city, code]
    Agents, Jobs, Ranges, Searches,
    Default,   \* the time range a reader starts with, in Ranges
    None,      \* the empty string: nothing chosen
    MaxPage    \* pages (bound)

ResultFiltersAssumption ==
    /\ MaxPage \in Nat \ {0} /\ Default \in Ranges
    /\ None \notin Agents \cup Jobs \cup Ranges \cup Searches
    /\ \A f \in Colos : None \notin {f.continent, f.country, f.city, f.code}

Levels == {"continent", "country", "city", "code"}

\* What is under a level, the level included.
Under(l) ==
    CASE l = "continent" -> Levels
      [] l = "country"   -> {"country", "city", "code"}
      [] l = "city"      -> {"city", "code"}
      [] l = "code"      -> {"code"}

VARIABLES
    view, search, agentId, jobId, available, timeRange, sorting, page,
    geo,       \* what was chosen at the four levels
    facets,    \* the cached answer: where there are results
    jobs       \* the cached answer: the jobs that have results

vars == <<view, search, agentId, jobId, available, timeRange, sorting, page, geo, facets, jobs>>
filters == <<view, search, agentId, jobId, available, timeRange, sorting, geo>>

Values(l) == {f[l] : f \in Colos}
NoGeo == [l \in Levels |-> None]
DefaultState(v)   == IF v = "latest" THEN "true" ELSE "all"
DefaultSorting(v) == IF v = "latest" THEN "latency_ms" ELSE "scanned_at"

TypeOK ==
    /\ view \in {"latest", "history"} /\ search \in Searches \cup {None}
    /\ agentId \in Agents \cup {None} /\ jobId \in Jobs \cup {None}
    /\ available \in {"true", "false", "all"} /\ timeRange \in Ranges
    /\ sorting \in {"latency_ms", "scanned_at"} /\ page \in 1 .. MaxPage
    /\ geo \in [Levels -> (UNION {Values(l) : l \in Levels}) \cup {None}]
    /\ \A l \in Levels : geo[l] \in Values(l) \cup {None}
    /\ facets \subseteq Colos /\ jobs \subseteq Jobs

Init ==
    /\ view = "latest" /\ search = None /\ agentId = None /\ jobId = None
    /\ available = "true" /\ timeRange = Default /\ sorting = "latency_ms" /\ page = 1
    /\ geo = NoGeo /\ facets \in SUBSET Colos /\ jobs \in SUBSET Jobs

-----------------------------------------------------------------------------
(***************************************************************************)
(* The cascade                                                             *)
(***************************************************************************)
\* A facet under the chosen values of the levels above l and of l itself.
Matches(f, selected, levels) == \A l \in levels : selected[l] \in {None, f[l]}

\* (mutant) A country is looked for in the whole list.
Valid_Anywhere(l, selected) ==
    LET above == {k \in Levels : l \in Under(k)} IN
    \E f \in facets : Matches(f, selected, IF l = "country" THEN {l} ELSE above)

Valid(l, selected) ==
    LET above == {k \in Levels : l \in Under(k)} IN
    \E f \in facets : Matches(f, selected, above)

\* From the first level that is chosen and has no results on, nothing is chosen.
normalizeGeoSelection(selected) ==
    [l \in Levels |->
        IF \E k \in Levels : l \in Under(k) /\ selected[k] # None /\ ~Valid(k, selected)
        THEN None ELSE selected[l]]

effectiveGeo == normalizeGeoSelection(geo)

\* What the box of a level offers: the values under those chosen above it.
buildGeoFacetOptions(l) ==
    {f[l] : f \in {g \in facets : Matches(g, effectiveGeo, Levels \ Under(l))}}

\* The choice of v: the levels below are cleared.
Chosen(l, v) == [k \in Levels |-> IF k = l THEN v ELSE IF k \in Under(l) THEN None ELSE geo[k]]

\* A box without options is disabled; "all" is one of its options.
ChooseGeo(l, v) ==
    /\ buildGeoFacetOptions(l) # {}
    /\ v \in buildGeoFacetOptions(l) \cup {None}
    /\ geo' = Chosen(l, v)
    /\ page' = 1
    /\ UNCHANGED <<view, search, agentId, jobId, available, timeRange, sorting, facets, jobs>>

-----------------------------------------------------------------------------
Search(s) ==
    /\ search' = s /\ page' = 1
    /\ UNCHANGED <<view, agentId, jobId, available, timeRange, sorting, geo, facets, jobs>>

ChangeAgent(a) ==
    /\ agentId' = a /\ jobId' = None /\ geo' = NoGeo /\ page' = 1
    /\ UNCHANGED <<view, search, available, timeRange, sorting, facets, jobs>>

ChangeJob(j) ==
    /\ j \in jobs \cup {None}
    /\ jobId' = j /\ geo' = NoGeo /\ page' = 1
    /\ UNCHANGED <<view, search, agentId, available, timeRange, sorting, facets, jobs>>

\* The job stays, whether it has results in that state or not.
ChangeAvailable(a) ==
    /\ available' = a /\ geo' = NoGeo /\ page' = 1
    /\ UNCHANGED <<view, search, agentId, jobId, timeRange, sorting, facets, jobs>>

ChangeTimeRange(t) ==
    /\ timeRange' = t /\ jobId' = None /\ geo' = NoGeo /\ page' = 1
    /\ UNCHANGED <<view, search, agentId, available, sorting, facets, jobs>>

ChangeView(v) ==
    /\ v # view /\ view' = v
    /\ page' = 1 /\ jobId' = None /\ geo' = NoGeo
    /\ available' = DefaultState(v) /\ sorting' = DefaultSorting(v)
    /\ UNCHANGED <<search, agentId, timeRange, facets, jobs>>

Sort(s) ==
    /\ sorting' = s /\ page' = 1
    /\ UNCHANGED <<view, search, agentId, jobId, available, timeRange, geo, facets, jobs>>

\* The button compares with the start of the page, not with that of the view.
Filtered ==
    \/ search # None \/ agentId # None \/ jobId # None \/ effectiveGeo # NoGeo
    \/ available # "true" \/ timeRange # Default

ResetAll ==
    /\ Filtered
    /\ page' = 1 /\ search' = None /\ agentId' = None /\ jobId' = None
    /\ available' = "true" /\ timeRange' = Default /\ geo' = NoGeo
    /\ UNCHANGED <<view, sorting, facets, jobs>>

Paginate(p) ==
    /\ page' = p
    /\ UNCHANGED <<filters, facets, jobs>>

\* An answer for the filters as they are, or one from the cache.
FacetsAnswer(S) == facets' = S /\ UNCHANGED <<filters, page, jobs>>
JobsAnswer(S)   == jobs' = S /\ UNCHANGED <<filters, page, facets>>

Next ==
    \/ \E s \in Searches \cup {None} : Search(s)
    \/ \E a \in Agents \cup {None} : ChangeAgent(a)
    \/ \E j \in Jobs \cup {None} : ChangeJob(j)
    \/ \E a \in {"true", "false", "all"} : ChangeAvailable(a)
    \/ \E t \in Ranges : ChangeTimeRange(t)
    \/ \E v \in {"latest", "history"} : ChangeView(v)
    \/ \E s \in {"latency_ms", "scanned_at"} : Sort(s)
    \/ \E l \in Levels : \E v \in Values(l) \cup {None} : ChooseGeo(l, v)
    \/ \E p \in 1 .. MaxPage : Paginate(p)
    \/ \E S \in SUBSET Colos : FacetsAnswer(S)
    \/ \E S \in SUBSET Jobs : JobsAnswer(S)
    \/ ResetAll

Spec == Init /\ [][Next]_vars

-----------------------------------------------------------------------------
(***************************************************************************)
(* What is shown and sent of the cascade is always a place with results:   *)
(* no combination of levels that no result has, however facets and choices *)
(* alternate.  Only what has no results is dropped.  And an offered choice *)
(* takes effect, unless a choice made above it is hidden because it has no *)
(* results any more: then the choice below is hidden with it.              *)
(***************************************************************************)
CascadeHasResults ==
    /\ effectiveGeo # NoGeo => \E f \in facets : Matches(f, effectiveGeo, Levels)
    /\ (\E f \in facets : Matches(f, geo, Levels)) => effectiveGeo = geo
    /\ effectiveGeo = geo => \A l \in Levels : \A v \in buildGeoFacetOptions(l) :
                                normalizeGeoSelection(Chosen(l, v))[l] = v
=============================================================================
