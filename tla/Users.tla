-------------------------------- MODULE Users --------------------------------
(***************************************************************************)
(* Accounts and login sessions of the console: the tables app_users and    *)
(* auth_sessions, the first administrator a starting Center creates,       *)
(* logins, and the requests by which administrators create, change, reset  *)
(* and delete accounts, several at a time.                                 *)
(*                                                                         *)
(* A change or a deletion is a transaction of three statements under an    *)
(* advisory lock; the other transactions are one step each.                *)
(***************************************************************************)
EXTENDS Integers, FiniteSets

CONSTANTS
    Users,      \* accounts, each created once (bound)
    Tokens,     \* session tokens
    Centers,    \* Center processes on one database
    Requests,   \* HTTP requests being served
    NoRequest,  \* nobody holds the advisory lock
    NoUser,
    MaxResets   \* how often the password of an account is reset (bound)

ASSUME UsersAssumption ==
    /\ IsFiniteSet(Users) /\ NoUser \notin Users
    /\ NoRequest \notin Requests
    /\ MaxResets \in Nat

Roles == {"admin", "viewer"}

\* The passwords of an account, in the order they are set.
Passwords == 0 .. MaxResets

\* What a request asks for: a login, with the password that was found right, or
\* the change of an account.
Update  == [kind : {"update"}, role : Roles, enabled : BOOLEAN]
Create  == [kind : {"create"}, role : Roles, enabled : {TRUE}]
Login   == [kind : {"login"}, password : Passwords]
Reset   == [kind |-> "reset"]
Delete  == [kind |-> "delete"]
Wants   == Update \cup Create \cup Login \cup {Reset, Delete}

VARIABLES
    role,      \* app_users.role; "none" before the row, "deleted" after it
    enabled,   \* app_users.enabled
    password,  \* app_users.password_hash
    sessions,  \* auth_sessions: the token, the account, and what was granted: below
    center,    \* "down", "bootstrap" (it saw no account), or "serving"
    lock,      \* who holds the advisory lock 687326092
    pc,        \* "idle", "granted", "locked" or "checked"
    target,    \* the account a request is about
    want,      \* what it asks for
    raced      \* logins in progress whose account was reset or disabled meanwhile

(***************************************************************************)
(* Read by no step: the password a session was granted on, and whether its *)
(* account was reset or disabled while the login was being served.         *)
(***************************************************************************)
Session == [token : Tokens, user : Users, password : Passwords, login : {"clean", "raced"}]

requestVars == <<lock, pc, target, want>>
vars == <<role, enabled, password, sessions, center, lock, pc, target, want, raced>>

Exists(u)     == role[u] \in Roles
Accounts      == {u \in Users : Exists(u)}
EnabledAdmins == {u \in Users : role[u] = "admin" /\ enabled[u]}

\* Types, and the foreign key of auth_sessions.
TypeOK ==
    /\ role     \in [Users -> {"none", "deleted"} \cup Roles]
    /\ enabled  \in [Users -> BOOLEAN]
    /\ password \in [Users -> Passwords]
    /\ sessions \subseteq Session
    /\ center   \in [Centers -> {"down", "bootstrap", "serving"}]
    /\ lock     \in Requests \cup {NoRequest}
    /\ pc       \in [Requests -> {"idle", "granted", "locked", "checked"}]
    /\ target   \in [Requests -> Users \cup {NoUser}]
    /\ want     \in [Requests -> Wants]
    /\ raced    \subseteq Requests
    /\ \A s \in sessions : Exists(s.user)

Init ==
    /\ role     = [u \in Users |-> "none"]
    /\ enabled  = [u \in Users |-> FALSE]
    /\ password = [u \in Users |-> 0]
    /\ sessions = {}
    /\ center   = [c \in Centers |-> "down"]
    /\ lock     = NoRequest
    /\ pc       = [q \in Requests |-> "idle"]
    /\ target   = [q \in Requests |-> NoUser]
    /\ want     = [q \in Requests |-> Reset]
    /\ raced    = {}

-----------------------------------------------------------------------------
(***************************************************************************)
(* Centers start and stop.                                                 *)
(***************************************************************************)
StartCenter(c) ==
    /\ center[c] = "down"
    /\ center' = [center EXCEPT ![c] = IF Accounts = {} THEN "bootstrap" ELSE "serving"]
    /\ UNCHANGED <<role, enabled, password, sessions, requestVars, raced>>

\* (mutant) The Center relies on the list it read before.
EnsureBootstrapAdmin_NoRecount(c, u) ==
    /\ center[c] = "bootstrap"
    /\ center' = [center EXCEPT ![c] = "serving"]
    /\ role[u] = "none"
    /\ role'    = [role EXCEPT ![u] = "admin"]
    /\ enabled' = [enabled EXCEPT ![u] = TRUE]
    /\ UNCHANGED <<password, sessions, requestVars, raced>>

\* Counted again under a lock of its own, 687326091.
EnsureBootstrapAdmin(c, u) ==
    /\ center[c] = "bootstrap"
    /\ center' = [center EXCEPT ![c] = "serving"]
    /\ role[u] = "none" \/ Accounts # {}
    /\ role'    = IF Accounts = {} THEN [role EXCEPT ![u] = "admin"] ELSE role
    /\ enabled' = IF Accounts = {} THEN [enabled EXCEPT ![u] = TRUE] ELSE enabled
    /\ UNCHANGED <<password, sessions, requestVars, raced>>

\* It stops, or cannot go on; requests it served fail on their own.
StopCenter(c) ==
    /\ center[c] # "down"
    /\ center' = [center EXCEPT ![c] = "down"]
    /\ UNCHANGED <<role, enabled, password, sessions, requestVars, raced>>

-----------------------------------------------------------------------------
(***************************************************************************)
(* Requests.                                                               *)
(***************************************************************************)
Serving == \E c \in Centers : center[c] = "serving"

Accept(q, u, w) ==
    /\ Serving
    /\ pc[q] = "idle"
    /\ pc'     = [pc EXCEPT ![q] = "granted"]
    /\ target' = [target EXCEPT ![q] = u]
    /\ want'   = [want EXCEPT ![q] = w]
    /\ UNCHANGED <<role, enabled, password, sessions, center, lock, raced>>

\* The answer: the request leaves no trace.
Leave(q) ==
    /\ pc'     = [pc EXCEPT ![q] = "idle"]
    /\ target' = [target EXCEPT ![q] = NoUser]
    /\ want'   = [want EXCEPT ![q] = Reset]
    /\ lock'   = IF lock = q THEN NoRequest ELSE lock

\* Name and password are right and the account is enabled, now.
CheckCredentials(q, u) ==
    /\ Exists(u) /\ enabled[u]
    /\ Accept(q, u, [kind |-> "login", password |-> password[u]])

\* The session is an enabled administrator's, now.  Administrators do not
\* delete themselves or give up their own access.
Authorize(q, s, u, w) ==
    /\ s \in sessions
    /\ s.user \in EnabledAdmins
    /\ w \notin Login
    /\ u = s.user => /\ w # Delete
                     /\ w \in Update => w.role = "admin" /\ w.enabled
    /\ Accept(q, u, w)

\* A change under way holds the row of its account.
RowFree(u) == \A q \in Requests : pc[q] = "checked" => target[q] # u

\* Neither the account nor the password is looked at again; the foreign key
\* keeps out a deleted account.
CreateAuthSession(q, t) ==
    /\ pc[q] = "granted" /\ want[q] \in Login
    /\ Exists(target[q]) /\ RowFree(target[q])
    /\ \A s \in sessions : s.token # t
    /\ sessions' = sessions \cup
           {[token |-> t, user |-> target[q], password |-> want[q].password,
             login |-> IF q \in raced THEN "raced" ELSE "clean"]}
    /\ raced' = raced \ {q}
    /\ Leave(q)
    /\ UNCHANGED <<role, enabled, password, center>>

CreateUser(q) ==
    /\ pc[q] = "granted" /\ want[q] \in Create
    /\ role[target[q]] = "none"
    /\ role'    = [role EXCEPT ![target[q]] = want[q].role]
    /\ enabled' = [enabled EXCEPT ![target[q]] = TRUE]
    /\ Leave(q)
    /\ UNCHANGED <<password, sessions, center, raced>>

Of(u) == {s \in sessions : s.user = u}

\* Logins of u that have been checked and not yet recorded.
Underway(u) == {q \in Requests : pc[q] = "granted" /\ want[q] \in Login /\ target[q] = u}

\* (mutant) A new password leaves the sessions alone.
ResetUserPassword_KeepsSessions(q) ==
    LET u == target[q]
    IN  /\ pc[q] = "granted" /\ want[q] = Reset
        /\ Exists(u) /\ RowFree(u)
        /\ password[u] < MaxResets
        /\ password' = [password EXCEPT ![u] = password[u] + 1]
        /\ raced' = raced \cup Underway(u)
        /\ Leave(q)
        /\ UNCHANGED <<role, enabled, sessions, center>>

ResetUserPassword(q) ==
    LET u == target[q]
    IN  /\ pc[q] = "granted" /\ want[q] = Reset
        /\ Exists(u) /\ RowFree(u)
        /\ password[u] < MaxResets
        /\ password' = [password EXCEPT ![u] = password[u] + 1]
        /\ sessions' = sessions \ Of(u)
        /\ raced' = raced \cup Underway(u)
        /\ Leave(q)
        /\ UNCHANGED <<role, enabled, center>>

\* (mutant) The change does not wait for the other one.
LockAdministrators_NoWait(q) ==
    /\ pc[q] = "granted" /\ want[q] \in Update \cup {Delete}
    /\ pc' = [pc EXCEPT ![q] = "locked"]
    /\ lock' = q
    /\ UNCHANGED <<role, enabled, password, sessions, center, target, want, raced>>

\* pg_advisory_xact_lock(687326092).
LockAdministrators(q) ==
    /\ pc[q] = "granted" /\ want[q] \in Update \cup {Delete}
    /\ lock = NoRequest
    /\ lock' = q
    /\ pc' = [pc EXCEPT ![q] = "locked"]
    /\ UNCHANGED <<role, enabled, password, sessions, center, target, want, raced>>

Removes(w) == w = Delete \/ (w \in Update /\ (w.role # "admin" \/ ~w.enabled))

\* (mutant) The account is read and the administrators are counted without the lock.
CheckAccount_Unlocked(q) ==
    /\ pc[q] = "granted" /\ want[q] \in Update \cup {Delete}
    /\ Exists(target[q])
    /\ (target[q] \in EnabledAdmins /\ Removes(want[q])) => Cardinality(EnabledAdmins) > 1
    /\ pc' = [pc EXCEPT ![q] = "checked"]
    /\ UNCHANGED <<role, enabled, password, sessions, center, lock, target, want, raced>>

\* The account is read FOR UPDATE and, if it is to lose its access as an
\* administrator, the enabled administrators are counted.
CheckAccount(q) ==
    /\ pc[q] = "locked"
    /\ Exists(target[q])
    /\ (target[q] \in EnabledAdmins /\ Removes(want[q])) => Cardinality(EnabledAdmins) > 1
    /\ pc' = [pc EXCEPT ![q] = "checked"]
    /\ UNCHANGED <<role, enabled, password, sessions, center, lock, target, want, raced>>

UpdateUser(q) ==
    LET u == target[q]
    IN  /\ pc[q] = "checked" /\ want[q] \in Update
        /\ role'    = [role EXCEPT ![u] = want[q].role]
        /\ enabled' = [enabled EXCEPT ![u] = want[q].enabled]
        /\ sessions' = IF want[q].enabled THEN sessions ELSE sessions \ Of(u)
        /\ raced'    = IF want[q].enabled THEN raced ELSE raced \cup Underway(u)
        /\ Leave(q)
        /\ UNCHANGED <<password, center>>

\* ON DELETE CASCADE takes the sessions along.
DeleteUser(q) ==
    /\ pc[q] = "checked" /\ want[q] = Delete
    /\ role'     = [role EXCEPT ![target[q]] = "deleted"]
    /\ sessions' = sessions \ Of(target[q])
    /\ Leave(q)
    /\ UNCHANGED <<enabled, password, center, raced>>

\* A request is refused, loses its client or is chosen as a deadlock victim:
\* its transaction is rolled back, its locks are gone.
Fail(q) ==
    /\ pc[q] # "idle"
    /\ raced' = raced \ {q}
    /\ Leave(q)
    /\ UNCHANGED <<role, enabled, password, sessions, center>>

\* A logout, or the end of the session's time.
EndSession(s) ==
    /\ s \in sessions
    /\ sessions' = sessions \ {s}
    /\ UNCHANGED <<role, enabled, password, center, requestVars, raced>>

-----------------------------------------------------------------------------
Start ==
    \E c \in Centers : \/ StartCenter(c)
                       \/ \E u \in Users : EnsureBootstrapAdmin(c, u)
                       \/ StopCenter(c)

Serve(q) ==
    \/ \E u \in Users : CheckCredentials(q, u)
    \/ \E s \in sessions, u \in Users, w \in Wants : Authorize(q, s, u, w)
    \/ \E t \in Tokens : CreateAuthSession(q, t)
    \/ CreateUser(q)
    \/ ResetUserPassword(q)
    \/ LockAdministrators(q)
    \/ CheckAccount(q)
    \/ UpdateUser(q)
    \/ DeleteUser(q)
    \/ Fail(q)

Next ==
    \/ Start
    \/ \E q \in Requests : Serve(q)
    \/ \E s \in sessions : EndSession(s)

Spec == Init /\ [][Next]_vars

-----------------------------------------------------------------------------
\* However administrators disable, demote and delete each other at the same
\* time: once there is an account, and so once a Center serves, one of them
\* is an enabled administrator.
AdminRemains ==
    Accounts # {} \/ Serving => EnabledAdmins # {}

\* A session is of an enabled account and was granted on its current password,
\* except where these were taken away while the login was being served.
SessionsAreRevoked ==
    \A s \in sessions :
        s.login = "raced" \/ (enabled[s.user] /\ s.password = password[s.user])

\* Two Centers that start on an empty table create one administrator.
OneBootstrap == [][Accounts # {} /\ center' # center => Accounts' = Accounts]_vars

Registry == INSTANCE AccountRegistry

\* However the statements of several requests and the starts of Centers interleave:
\* accounts and sessions change as if every request was served at once, at its commit.
\* No change is made on what another one has undone meanwhile.
ImplementsRegistry == Registry!Spec
=============================================================================
