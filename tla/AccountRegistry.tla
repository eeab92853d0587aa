-------------------------- MODULE AccountRegistry --------------------------
(***************************************************************************)
(* What accounts promise to those who use them: every change happens at    *)
(* once, leaves an enabled administrator behind, and takes the sessions    *)
(* along that it ends.  No Centers, requests, statements or locks: Users   *)
(* implements this specification with them.                                *)
(***************************************************************************)
EXTENDS Integers

CONSTANTS Users,      \* accounts
          Tokens,     \* session tokens
          MaxResets   \* how often the password of an account is reset (bound)

VARIABLES role,       \* of each account; "none" before it, "deleted" after it
          enabled,
          password,   \* how often it was set anew
          sessions    \* with the account, the password and the login they stem from

vars == <<role, enabled, password, sessions>>

Roles == {"admin", "viewer"}

Exists(u)     == role[u] \in Roles
Accounts      == {u \in Users : Exists(u)}
EnabledAdmins == {u \in Users : role[u] = "admin" /\ enabled[u]}
Of(u)         == {s \in sessions : s.user = u}

Init ==
    /\ role     = [u \in Users |-> "none"]
    /\ enabled  = [u \in Users |-> FALSE]
    /\ password = [u \in Users |-> 0]
    /\ sessions = {}

-----------------------------------------------------------------------------
\* The first account is an administrator's.
Bootstrap(u) ==
    /\ Accounts = {} /\ role[u] = "none"
    /\ role'    = [role EXCEPT ![u] = "admin"]
    /\ enabled' = [enabled EXCEPT ![u] = TRUE]
    /\ UNCHANGED <<password, sessions>>

\* Asked for by administrators, of whom there is one at that moment: so is a reset.
Create(u, r) ==
    /\ EnabledAdmins # {} /\ role[u] = "none"
    /\ role'    = [role EXCEPT ![u] = r]
    /\ enabled' = [enabled EXCEPT ![u] = TRUE]
    /\ UNCHANGED <<password, sessions>>

\* Role and access are set together; who loses the access is signed out.
Change(u, r, access) ==
    /\ Exists(u)
    /\ role'     = [role EXCEPT ![u] = r]
    /\ enabled'  = [enabled EXCEPT ![u] = access]
    /\ sessions' = IF access THEN sessions ELSE sessions \ Of(u)
    /\ EnabledAdmins' # {}
    /\ UNCHANGED password

Reset(u) ==
    /\ Exists(u) /\ EnabledAdmins # {}
    /\ password[u] < MaxResets
    /\ password' = [password EXCEPT ![u] = password[u] + 1]
    /\ sessions' = sessions \ Of(u)
    /\ UNCHANGED <<role, enabled>>

\* For ever: a deleted account does not come back.  Somebody else administers the others.
Delete(u) ==
    /\ Exists(u)
    /\ EnabledAdmins \ {u} # {}
    /\ role'     = [role EXCEPT ![u] = "deleted"]
    /\ sessions' = sessions \ Of(u)
    /\ UNCHANGED <<enabled, password>>

\* A login that was overtaken by a reset or a disabling may still get its session,
\* with a password the account once had; any other is on what the account is now.
Login(u, t, p, login) ==
    /\ Exists(u)
    /\ login = "clean" => enabled[u] /\ p = password[u]
    /\ \A s \in sessions : s.token # t
    /\ sessions' = sessions \cup {[token |-> t, user |-> u, password |-> p, login |-> login]}
    /\ UNCHANGED <<role, enabled, password>>

Logout(s) ==
    /\ sessions' = sessions \ {s}
    /\ UNCHANGED <<role, enabled, password>>

Next ==
    \/ \E u \in Users :
         \/ Bootstrap(u) \/ Reset(u) \/ Delete(u)
         \/ \E r \in Roles : Create(u, r) \/ \E access \in BOOLEAN : Change(u, r, access)
         \/ \E t \in Tokens, p \in 0 .. password[u], login \in {"clean", "raced"} :
              Login(u, t, p, login)
    \/ \E s \in sessions : Logout(s)

Spec == Init /\ [][Next]_vars

-----------------------------------------------------------------------------
\* What follows for those who use the accounts: nobody is locked out, and a session
\* ends with its account and, unless its login was overtaken, with what it stems from.
Promise ==
    /\ Accounts # {} => EnabledAdmins # {}
    /\ \A s \in sessions :
           /\ Exists(s.user)
           /\ s.login = "clean" => enabled[s.user] /\ s.password = password[s.user]
=============================================================================
