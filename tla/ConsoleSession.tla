--------------------------- MODULE ConsoleSession ---------------------------
(***************************************************************************)
(* The signed-in person of the web console, in one tab of one browser: the *)
(* session cookie, the /auth/me query that AuthProvider shows to all pages,*)
(* the cached data of the pages, the requests under way, and the route     *)
(* guards that move the tab between the login page and the others.         *)
(*                                                                         *)
(* A request is answered by the server in one step and its answer reaches  *)
(* the tab in another, in any order.  The browser applies the cookie of an *)
(* answer when it arrives, whatever the tab still wants the answer for.    *)
(* A change of the cached user is rendered in the task that follows it and *)
(* is one step with it here.  A change of the location is not: the router  *)
(* commits it in a transition, after the page it leads to was loaded.      *)
(***************************************************************************)
EXTENDS Integers, FiniteSets

CONSTANTS
    Users,        \* accounts
    Admins,       \* those whose role is admin
    Tokens,       \* session tokens the server can issue (bound)
    Pages,        \* protected pages other than "home" and "users"
    Standalone,   \* those without the sidebar: the approval of an Agent
    Nobody,       \* no account: null
    NoToken,      \* no cookie
    NoPage,       \* a location without state
    MaxRequests,  \* requests under way at once (bound)
    MaxFaults,    \* requests that fail on the server or on the wire (bound)
    MaxChanges    \* sessions that end elsewhere, and refreshes of /auth/me (bound)

ASSUME ConsoleSessionAssumption ==
    /\ Admins \subseteq Users /\ Nobody \notin Users
    /\ NoToken \notin Tokens
    /\ NoPage \notin Pages \cup {"home", "users"}
    /\ "login" \notin Pages /\ Standalone \subseteq Pages
    /\ {MaxRequests, MaxFaults, MaxChanges} \subseteq Nat

Protected == Pages \cup {"home", "users"}
Framed    == Protected \ Standalone
Polling   == Framed \ {"users"}          \* each of them has a query with an interval
Paths     == Protected \cup {"login"}
Cookies   == Tokens \cup {NoToken}

\* A place in the history: a path, and the page the visitor was sent away from.
Location == [path : Paths, from : Protected \cup {NoPage}]
At(path) == [path |-> path, from |-> NoPage]

(***************************************************************************)
(* A request.  live: the tab still wants its answer.  to: where a login    *)
(* leads.  token: the cookie it was sent with, or the one a login brings.  *)
(* who: the account an answer is about, or is for.                         *)
(***************************************************************************)
Request ==
    [kind   : {"me", "data", "login", "logout", "reset"},
     token  : Cookies,
     live   : BOOLEAN,
     to     : Protected \cup {NoPage},
     answer : {"none", "ok", "401", "refused", "failed"},
     who    : Users \cup {Nobody}]

VARIABLES
    sessions,  \* server: the account of each token, Nobody when there is none
    issued,    \* server: the tokens handed out so far
    jar,       \* browser: the session cookie
    requests,  \* browser: requests under way or answered
    pending,   \* tab: /auth/me has not been answered yet
    user,      \* tab: the data of the query ['auth', 'me']
    cache,     \* tab: for whom the cached data of the other queries were read
    loc,       \* tab: the location the pages are rendered for
    next,      \* tab: the location of the last navigation
    renamed,   \* history: a repeated /auth/me changed the person shown
    faults, changes

browser == <<jar, requests>>
tab     == <<pending, user, cache, loc, next>>
vars    == <<sessions, issued, jar, requests, pending, user, cache, loc, next, renamed, faults,
             changes>>

Alive(t)        == t \in Tokens /\ sessions[t] # Nobody
Settled         == loc = next
Mounted(path)   == ~pending /\ user # Nobody /\ Settled /\ loc.path = path
                   /\ (path = "users" => user \in Admins)
Waiting(kind)   == \E r \in requests : r.kind = kind /\ r.live

TypeOK ==
    /\ sessions \in [Tokens -> Users \cup {Nobody}]
    /\ issued \subseteq Tokens
    /\ jar \in Cookies
    /\ requests \subseteq Request
    /\ pending \in BOOLEAN
    /\ user \in Users \cup {Nobody}
    /\ cache \subseteq Users
    /\ loc \in Location /\ next \in Location
    /\ renamed \in BOOLEAN
    /\ faults \in 0 .. MaxFaults /\ changes \in 0 .. MaxChanges

Sent(kind, to) ==
    [kind |-> kind, token |-> jar, live |-> TRUE, to |-> to, answer |-> "none", who |-> Nobody]

Init ==
    /\ sessions = [t \in Tokens |-> Nobody] /\ issued = {} /\ jar = NoToken
    /\ pending = TRUE /\ user = Nobody /\ cache = {}
    /\ requests = {Sent("me", NoPage)}
    /\ \E p \in Paths : loc = At(p) /\ next = At(p)
    /\ renamed = FALSE /\ faults = 0 /\ changes = 0

-----------------------------------------------------------------------------
(***************************************************************************)
(* The server.                                                             *)
(***************************************************************************)

Answered(r, a, w, t) ==
    requests' = (requests \ {r}) \cup {[r EXCEPT !.answer = a, !.who = w, !.token = t]}

\* requireSession, and the handlers behind it.
ServeSession(r) ==
    /\ r.kind # "login"
    /\ IF ~Alive(r.token)
         THEN Answered(r, "401", Nobody, r.token) /\ UNCHANGED sessions
         ELSE /\ Answered(r, "ok", sessions[r.token], r.token)
              /\ sessions' =
                    CASE r.kind = "logout" -> [sessions EXCEPT ![r.token] = Nobody]
                      [] r.kind = "reset"  ->
                           [t \in Tokens |-> IF sessions[t] = sessions[r.token]
                                               THEN Nobody ELSE sessions[t]]
                      [] OTHER             -> sessions
    /\ UNCHANGED issued

\* A login that is granted, or is refused for its password or by the limiter.
ServeLogin(r) ==
    /\ r.kind = "login"
    /\ \/ \E t \in Tokens \ issued, u \in Users :
            /\ sessions' = [sessions EXCEPT ![t] = u]
            /\ issued' = issued \cup {t}
            /\ Answered(r, "ok", u, t)
       \/ Answered(r, "refused", Nobody, r.token) /\ UNCHANGED <<sessions, issued>>

Serve(r) ==
    /\ r.answer = "none"
    /\ ServeSession(r) \/ ServeLogin(r)
    /\ UNCHANGED <<jar, tab, renamed, faults, changes>>

(***************************************************************************)
(* The server fails, or its answer is lost.  A failed look-up of a session *)
(* is answered like a missing session.                                     *)
(***************************************************************************)
Fail(r) ==
    /\ faults < MaxFaults /\ r.answer \in {"none", "ok"}
    /\ \/ Answered(r, "failed", Nobody, r.token)
       \/ r.answer = "none" /\ r.kind # "login" /\ Answered(r, "401", Nobody, r.token)
    /\ faults' = faults + 1
    /\ UNCHANGED <<sessions, issued, jar, tab, renamed, changes>>

\* A session runs out, or an administrator ends it.
EndSession(t) ==
    /\ Alive(t) /\ changes < MaxChanges
    /\ sessions' = [sessions EXCEPT ![t] = Nobody]
    /\ changes' = changes + 1
    /\ UNCHANGED <<issued, browser, tab, renamed, faults>>

-----------------------------------------------------------------------------
(***************************************************************************)
(* The tab sends a request.                                                *)
(***************************************************************************)

Send(kind, to) ==
    /\ Cardinality(requests) < MaxRequests
    /\ ~Waiting(kind)
    /\ requests' = requests \cup {Sent(kind, to)}

Idle == UNCHANGED <<sessions, issued, jar, tab, renamed, faults>>

\* LoginPage: the submit handler holds the location it was rendered for.
Login ==
    /\ ~pending /\ user = Nobody /\ Settled /\ loc.path = "login"
    /\ Send("login", IF loc.from = NoPage THEN "home" ELSE loc.from)
    /\ Idle /\ UNCHANGED changes

Logout ==
    /\ \E p \in Framed : Mounted(p)
    /\ Send("logout", NoPage)
    /\ Idle /\ UNCHANGED changes

\* A query of the page is read for the first time or again.
Fetch ==
    /\ \E p \in Protected : Mounted(p)
    /\ Send("data", NoPage)
    /\ Idle /\ UNCHANGED changes

\* ResetPasswordDialog, for the account that is signed in.
ResetOwnPassword ==
    /\ Mounted("users") /\ Send("reset", NoPage)
    /\ Idle /\ UNCHANGED changes

\* useUpdateUser invalidates ['auth', 'me']; the older answer is not wanted any more.
RefreshMe ==
    /\ Mounted("users") /\ changes < MaxChanges
    /\ Cardinality(requests) < MaxRequests
    /\ changes' = changes + 1
    /\ requests' = {IF r.kind = "me" THEN [r EXCEPT !.live = FALSE] ELSE r : r \in requests}
                   \cup {Sent("me", NoPage)}
    /\ Idle

\* The network is back: a stale query is read again, on the login page too.
Reconnect ==
    /\ ~pending /\ changes < MaxChanges
    /\ changes' = changes + 1
    /\ Send("me", NoPage)
    /\ Idle

-----------------------------------------------------------------------------
(***************************************************************************)
(* An answer arrives.                                                      *)
(***************************************************************************)

\* (mutant) setQueryData(null) alone
SignOut_CacheKept(rest) ==
    /\ user' = Nobody /\ UNCHANGED cache
    /\ requests' = {IF r.kind = "data" THEN [r EXCEPT !.live = FALSE] ELSE r : r \in rest}

\* setQueryData(null) and removeQueries of everything but ['auth', 'me'].
SignOut(rest) ==
    /\ user' = Nobody /\ cache' = {}
    /\ requests' = {IF r.kind = "data" THEN [r EXCEPT !.live = FALSE] ELSE r : r \in rest}

\* (mutant) Only an answer to /auth/me ends the session in the tab.
Unauthorized_MeOnly(r) ==
    /\ r.answer = "401"
    /\ jar' = NoToken
    /\ IF r.kind = "me" THEN SignOut(requests \ {r})
                        ELSE requests' = requests \ {r} /\ UNCHANGED <<user, cache>>
    /\ pending' = (pending /\ ~(r.kind = "me" /\ r.live))
    /\ UNCHANGED <<next, renamed>>

\* What an answer 401 does to the tab: the event cfscan:unauthorized.
Unauthorized(r) ==
    /\ r.answer = "401"
    /\ jar' = NoToken
    /\ SignOut(requests \ {r})
    /\ pending' = (pending /\ ~(r.kind = "me" /\ r.live))
    /\ UNCHANGED <<next, renamed>>

TakeMe(r) ==
    /\ r.kind = "me" /\ r.answer \in {"ok", "failed"}
    /\ requests' = requests \ {r}
    /\ IF r.live THEN pending' = FALSE ELSE UNCHANGED pending
    /\ IF r.live /\ r.answer = "ok"
         THEN user' = r.who /\ renamed' = (renamed \/ (~pending /\ r.who # user))
         ELSE UNCHANGED <<user, renamed>>
    /\ UNCHANGED <<jar, cache, next>>

TakeData(r) ==
    /\ r.kind = "data" /\ r.answer \in {"ok", "failed"}
    /\ requests' = requests \ {r}
    /\ cache' = IF r.live /\ r.answer = "ok" THEN cache \cup {r.who} ELSE cache
    /\ UNCHANGED <<jar, pending, user, next, renamed>>

\* loginMutation.onSuccess, then LoginPage.submit: navigate(target).
TakeLogin(r) ==
    /\ r.kind = "login" /\ r.answer \in {"ok", "refused", "failed"}
    /\ requests' = requests \ {r}
    /\ IF r.answer = "ok"
         THEN /\ jar' = r.token /\ user' = r.who /\ pending' = FALSE
              /\ next' = At(r.to)
         ELSE UNCHANGED <<jar, user, pending, next>>
    /\ UNCHANGED <<cache, renamed>>

\* (mutant) A failed logout forgets the person and keeps the data.
TakeLogout_Failed(r) ==
    /\ r.kind = "logout" /\ r.answer \in {"ok", "failed"}
    /\ IF r.answer = "ok"
         THEN SignOut(requests \ {r}) /\ jar' = NoToken /\ next' = At("login")
         ELSE user' = Nobody /\ requests' = requests \ {r} /\ UNCHANGED <<cache, jar, next>>
    /\ UNCHANGED <<pending, renamed>>

\* logoutMutation.onSettled; AppSidebar navigates only when the logout succeeded.
TakeLogout(r) ==
    /\ r.kind = "logout" /\ r.answer \in {"ok", "failed"}
    /\ SignOut(requests \ {r})
    /\ IF r.answer = "ok" THEN jar' = NoToken /\ next' = At("login")
                          ELSE UNCHANGED <<jar, next>>
    /\ UNCHANGED <<pending, renamed>>

\* The dialog reports its own reset as the end of the session; the cookie stays.
TakeReset(r) ==
    /\ r.kind = "reset" /\ r.answer \in {"ok", "failed"}
    /\ IF r.answer = "ok" THEN SignOut(requests \ {r})
                          ELSE requests' = requests \ {r} /\ UNCHANGED <<user, cache>>
    /\ UNCHANGED <<jar, pending, next, renamed>>

Receive(r) ==
    /\ \/ Unauthorized(r) \/ TakeMe(r) \/ TakeData(r)
       \/ TakeLogin(r) \/ TakeLogout(r) \/ TakeReset(r)
    /\ UNCHANGED <<sessions, issued, loc, faults, changes>>

-----------------------------------------------------------------------------
(***************************************************************************)
(* Routes.                                                                 *)
(***************************************************************************)

Redirect(to) == next # to /\ next' = to

ProtectedRoute ==
    /\ ~pending /\ user = Nobody /\ loc.path \in Protected
    /\ Redirect([path |-> "login", from |-> loc.path])

PublicOnlyRoute ==
    /\ ~pending /\ user # Nobody /\ loc.path = "login"
    /\ Redirect(At("home"))

AdminRoute ==
    /\ ~pending /\ user \in Users \ Admins /\ loc.path = "users"
    /\ Redirect(At("home"))

Guard ==
    /\ ProtectedRoute \/ PublicOnlyRoute \/ AdminRoute
    /\ UNCHANGED <<sessions, issued, browser, pending, user, cache, loc, renamed, faults, changes>>

Commit ==
    /\ ~Settled /\ loc' = next
    /\ UNCHANGED <<sessions, issued, browser, pending, user, cache, next, renamed, faults,
                   changes>>

\* A link of the sidebar.
Navigate(p) ==
    /\ \E q \in Framed : Mounted(q)
    /\ p \in Framed /\ (p = "users" => user \in Admins)
    /\ Redirect(At(p))
    /\ UNCHANGED <<sessions, issued, browser, pending, user, cache, loc, renamed, faults, changes>>

\* The page is loaded again or an address is typed: nothing of the tab remains.
Load(p) ==
    /\ loc' = At(p) /\ next' = At(p)
    /\ pending' = TRUE /\ user' = Nobody /\ cache' = {}
    /\ requests' = {Sent("me", NoPage)}
    /\ renamed' = FALSE
    /\ UNCHANGED <<sessions, issued, jar, faults, changes>>

-----------------------------------------------------------------------------
Act  == Login \/ Logout \/ Fetch \/ ResetOwnPassword \/ RefreshMe \/ Reconnect
        \/ (\E p \in Paths : Navigate(p) \/ Load(p))
Next ==
    \/ Act \/ Guard \/ Commit
    \/ \E r \in requests : Serve(r) \/ Fail(r) \/ Receive(r)
    \/ \E t \in Tokens : EndSession(t)

(***************************************************************************)
(* Answers come, renders and transitions end.  A page that polls reads its *)
(* data when it is mounted and at each interval, so that nobody avoids the *)
(* reading by walking from page to page.  People owe nothing.              *)
(***************************************************************************)
Poll     == (\E p \in Polling : Mounted(p)) /\ Fetch

Fairness ==
    /\ WF_vars(Guard) /\ WF_vars(Commit) /\ SF_vars(Poll)
    /\ \A k \in {"me", "data", "login", "logout", "reset"} :
         WF_vars(\E r \in requests : r.kind = k /\ (Serve(r) \/ Receive(r)))

Spec     == Init /\ [][Next]_vars
FairSpec == Spec /\ Fairness

-----------------------------------------------------------------------------
(***************************************************************************)
(* When nobody is signed in, the tab holds no data of the earlier session, *)
(* however the answers of requests of that session come in.                *)
(***************************************************************************)
SignedOutHoldsNothing == user = Nobody => cache = {}

(***************************************************************************)
(* The data on the pages were read by the person shown in the sidebar, and *)
(* answers sent for an earlier person never join them, unless a repeated   *)
(* /auth/me changed that person behind the back of a login.                *)
(***************************************************************************)
DataOfThePersonShown == ~renamed => cache \subseteq {user}

(***************************************************************************)
(* A person whose session has ended is told so on every page that polls:   *)
(* the console does not go on showing the last data of a dead session.     *)
(***************************************************************************)
Deserted == ~pending /\ user # Nobody /\ ~Alive(jar) /\ loc.path \in Polling
DeadSessionIsNoticed == Deserted ~> ~Deserted
=============================================================================
