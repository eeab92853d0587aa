----------------------------- MODULE UsersProofs -----------------------------
(***************************************************************************)
(* Theorems about Users, for any number of accounts, sessions, Centers and *)
(* requests.                                                               *)
(***************************************************************************)
EXTENDS Users, FiniteSetTheorems, TLAPS

\* A request that is being served is about an account.
Typed == TypeOK /\ \A q \in Requests : pc[q] # "idle" => target[q] \in Users

\* The advisory lock has one holder, and what it has checked stays true until
\* it commits: there is another enabled administrator than the one it removes.
LockInv ==
    /\ \A q \in Requests : pc[q] \in {"locked", "checked"} => lock = q
    /\ \A q \in Requests : pc[q] = "checked" /\ Removes(want[q])
                               => EnabledAdmins \ {target[q]} # {}

\* A login whose account was not touched meanwhile is for an enabled one
\* and its current password.
LoginInv ==
    \A q \in Requests : pc[q] = "granted" /\ want[q] \in Login /\ q \notin raced =>
        enabled[target[q]] /\ want[q].password = password[target[q]]

\* AdminRemains, and a request is only served once there is an account.
Settled ==
    Accounts # {} \/ Serving \/ (\E q \in Requests : pc[q] # "idle") => EnabledAdmins # {}

Kept == LockInv /\ LoginInv /\ Settled /\ SessionsAreRevoked

IInv == Typed /\ Kept

LEMMA WantsApart ==
  ASSUME NEW w \in Wants
  PROVE  /\ w \in Login => w.password \in Passwords
         /\ w \in Update => w.role \in Roles /\ w.enabled \in BOOLEAN
         /\ w \in Create => w.role \in Roles
         /\ ~Removes(w) /\ w \in Update => w.role = "admin" /\ w.enabled
  BY DEF Wants, Update, Create, Login, Reset, Delete, Removes, Roles

-----------------------------------------------------------------------------
(***************************************************************************)
(* Types.                                                                  *)
(***************************************************************************)
LEMMA InitTyped == Init => Typed
  BY UsersAssumption DEF Init, Typed, TypeOK, Wants, Roles, Passwords

LEMMA LeaveTyped ==
  ASSUME Typed, NEW q \in Requests, Leave(q)
  PROVE  /\ pc'     = [pc EXCEPT ![q] = "idle"] /\ pc' \in [Requests -> {"idle", "granted", "locked", "checked"}]
         /\ target' = [target EXCEPT ![q] = NoUser] /\ target' \in [Requests -> Users \cup {NoUser}]
         /\ want'   = [want EXCEPT ![q] = Reset] /\ want' \in [Requests -> Wants]
         /\ lock' \in Requests \cup {NoRequest} /\ lock' = IF lock = q THEN NoRequest ELSE lock
         /\ \A r \in Requests : pc'[r] # "idle" =>
                r # q /\ pc[r] # "idle" /\ pc'[r] = pc[r] /\ target'[r] = target[r] /\ want'[r] = want[r]
  BY DEF Leave, Typed, TypeOK, Wants

LEMMA Typing == Typed /\ [Next]_vars => Typed'
  <1> SUFFICES ASSUME Typed, [Next]_vars PROVE Typed'
    OBVIOUS
  <1> USE DEF Typed, TypeOK, requestVars
  <1>1. CASE Start
    <2> PICK c \in Centers : \/ StartCenter(c)
                             \/ \E u \in Users : EnsureBootstrapAdmin(c, u)
                             \/ StopCenter(c)
      BY <1>1 DEF Start
    <2>1. CASE StartCenter(c) \/ StopCenter(c)
      BY <2>1 DEF StartCenter, StopCenter, Exists
    <2>2. ASSUME NEW u \in Users, EnsureBootstrapAdmin(c, u) PROVE Typed'
      BY <2>2 DEF EnsureBootstrapAdmin, Exists, Roles
    <2>. QED  BY <2>1, <2>2
  <1>2. ASSUME NEW q \in Requests, Serve(q) PROVE Typed'
    <2>1. ASSUME NEW u \in Users, NEW w \in Wants, Accept(q, u, w) PROVE Typed'
      BY <2>1 DEF Accept, Exists
    <2>2. CASE \E u \in Users : CheckCredentials(q, u)
      <3> PICK u \in Users : Accept(q, u, [kind |-> "login", password |-> password[u]])
        BY <2>2 DEF CheckCredentials
      <3>1. [kind |-> "login", password |-> password[u]] \in Wants
        BY DEF Wants, Login
      <3>. QED  BY <2>1, <3>1
    <2>3. CASE \E s \in sessions, u \in Users, w \in Wants : Authorize(q, s, u, w)
      BY <2>1, <2>3 DEF Authorize
    <2>4. ASSUME NEW t \in Tokens, CreateAuthSession(q, t) PROVE Typed'
      <3>1. target[q] \in Users
        BY <2>4 DEF CreateAuthSession
      <3>2. sessions' \subseteq Session
        <4>1. want[q].password \in Passwords
          BY <2>4, WantsApart DEF CreateAuthSession
        <4>. QED  BY <2>4, <3>1, <4>1 DEF CreateAuthSession, Session
      <3>3. \A s \in sessions' : role'[s.user] \in Roles
        BY <2>4 DEF CreateAuthSession, Exists
      <3>4. Leave(q) /\ UNCHANGED <<role, enabled, password, center>> /\ raced' \subseteq Requests
        BY <2>4 DEF CreateAuthSession
      <3>. QED  BY <3>2, <3>3, <3>4, LeaveTyped DEF Exists
    <2>5. CASE CreateUser(q)
      <3>1. Leave(q) /\ UNCHANGED <<password, sessions, center, raced>> /\ want[q].role \in Roles
        BY <2>5, WantsApart DEF CreateUser
      <3>2. role' \in [Users -> {"none", "deleted"} \cup Roles] /\ enabled' \in [Users -> BOOLEAN]
        BY <2>5, <3>1 DEF CreateUser
      <3>3. \A s \in sessions : role'[s.user] \in Roles
        BY <2>5, <3>1 DEF CreateUser, Exists, Session
      <3>. QED  BY <3>1, <3>2, <3>3, LeaveTyped DEF Exists
    <2>6. CASE ResetUserPassword(q)
      <3>1. Leave(q) /\ UNCHANGED <<role, enabled, center>> /\ raced' \subseteq Requests
            /\ sessions' \subseteq sessions
        BY <2>6 DEF ResetUserPassword, Underway
      <3>2. password' \in [Users -> Passwords]
        <4>1. password[target[q]] + 1 \in Passwords
          BY <2>6, UsersAssumption DEF ResetUserPassword, Passwords
        <4>. QED  BY <2>6, <4>1 DEF ResetUserPassword
      <3>. QED  BY <3>1, <3>2, LeaveTyped DEF Exists
    <2>7. CASE LockAdministrators(q) \/ CheckAccount(q)
      BY <2>7 DEF LockAdministrators, CheckAccount, Exists
    <2>8. CASE UpdateUser(q)
      <3>1. Leave(q) /\ UNCHANGED <<password, center>> /\ want[q].role \in Roles /\ want[q].enabled \in BOOLEAN
        BY <2>8, WantsApart DEF UpdateUser
      <3>2. role' \in [Users -> {"none", "deleted"} \cup Roles] /\ enabled' \in [Users -> BOOLEAN]
        BY <2>8, <3>1 DEF UpdateUser
      <3>3. raced' \subseteq Requests /\ sessions' \subseteq sessions
        BY <2>8 DEF UpdateUser, Underway
      <3>4. \A s \in sessions : role'[s.user] \in Roles
        BY <2>8, <3>1 DEF UpdateUser, Exists, Session
      <3>. QED  BY <3>1, <3>2, <3>3, <3>4, LeaveTyped DEF Exists
    <2>9. CASE DeleteUser(q)
      <3>1. Leave(q) /\ UNCHANGED <<enabled, password, center, raced>> /\ sessions' = sessions \ Of(target[q])
        BY <2>9 DEF DeleteUser
      <3>2. role' \in [Users -> {"none", "deleted"} \cup Roles]
        BY <2>9 DEF DeleteUser
      <3>3. \A s \in sessions' : role'[s.user] \in Roles
        BY <2>9, <3>1 DEF DeleteUser, Exists, Session, Of
      <3>. QED  BY <3>1, <3>2, <3>3, LeaveTyped DEF Exists
    <2>10. CASE Fail(q)
      <3>1. Leave(q) /\ UNCHANGED <<role, enabled, password, sessions, center>> /\ raced' \subseteq Requests
        BY <2>10 DEF Fail
      <3>. QED  BY <3>1, LeaveTyped DEF Exists
    <2>. QED  BY <1>2, <2>2, <2>3, <2>4, <2>5, <2>6, <2>7, <2>8, <2>9, <2>10 DEF Serve
  <1>3. CASE \E s \in sessions : EndSession(s)
    BY <1>3 DEF EndSession, Exists
  <1>4. CASE UNCHANGED vars
    BY <1>4 DEF vars, Exists
  <1>. QED  BY <1>1, <1>2, <1>3, <1>4 DEF Next

\* Every variable keeps its type, and a session belongs to an account.
THEOREM TypeCorrect == Spec => []TypeOK
  <1>1. Typed => TypeOK
    BY DEF Typed
  <1>. QED  BY <1>1, InitTyped, Typing, PTL DEF Spec

-----------------------------------------------------------------------------
(***************************************************************************)
(* The last administrator, and the sessions.                               *)
(***************************************************************************)
LEMMA Another ==
  ASSUME NEW S, IsFiniteSet(S), Cardinality(S) > 1, NEW x
  PROVE  S \ {x} # {}
  <1> SUFFICES ASSUME S \ {x} = {} PROVE FALSE
    OBVIOUS
  <1>1. S = {} \/ S = {x}
    OBVIOUS
  <1>2. Cardinality({}) = 0 /\ Cardinality({x}) = 1
    BY FS_EmptySet, FS_Singleton
  <1>. QED  BY <1>1, <1>2

LEMMA InitInv == Init => IInv
  <1> SUFFICES ASSUME Init PROVE IInv
    OBVIOUS
  <1>1. Typed
    BY InitTyped
  <1>2. LockInv /\ LoginInv
    BY DEF Init, LockInv, LoginInv
  <1>3. Settled /\ SessionsAreRevoked
    BY DEF Init, Settled, SessionsAreRevoked, Accounts, Exists, Roles, Serving
  <1>. QED  BY <1>1, <1>2, <1>3 DEF IInv, Kept

\* A step that takes no administrator's access, gives up no lock but its own
\* and lets nothing new be checked keeps the lock invariant.
LEMMA LockKept ==
  ASSUME LockInv, EnabledAdmins \subseteq EnabledAdmins',
         \A q \in Requests : pc'[q] \in {"locked", "checked"} =>
             pc'[q] = pc[q] /\ lock' = lock /\ want'[q] = want[q] /\ target'[q] = target[q]
  PROVE  LockInv'
  <1>1. ASSUME NEW q \in Requests, pc'[q] \in {"locked", "checked"} PROVE lock' = q
    BY <1>1 DEF LockInv
  <1>2. ASSUME NEW q \in Requests, pc'[q] = "checked", Removes(want'[q])
        PROVE  EnabledAdmins' \ {target'[q]} # {}
    <2>1. pc[q] = "checked" /\ want'[q] = want[q] /\ target'[q] = target[q]
      BY <1>2
    <2>2. Removes(want[q])
      BY <1>2, <2>1
    <2>3. EnabledAdmins \ {target[q]} # {}
      BY <2>1, <2>2 DEF LockInv
    <2>. QED  BY <2>1, <2>3
  <1>. QED  BY <1>1, <1>2 DEF LockInv, Removes

\* A request that ends without taking an administrator's access.
LEMMA LeaveKeepsLock ==
  ASSUME Typed, LockInv, NEW q \in Requests, Leave(q), EnabledAdmins \subseteq EnabledAdmins'
  PROVE  LockInv'
  <1>1. ASSUME NEW r \in Requests, pc'[r] \in {"locked", "checked"}
        PROVE  pc'[r] = pc[r] /\ lock' = lock /\ want'[r] = want[r] /\ target'[r] = target[r]
    <2>1. r # q /\ pc'[r] = pc[r] /\ want'[r] = want[r] /\ target'[r] = target[r]
      BY <1>1, LeaveTyped
    <2>2. lock = r
      BY <1>1, <2>1 DEF LockInv
    <2>. QED  BY <2>1, <2>2, LeaveTyped
  <1>. QED  BY <1>1, LockKept

\* A request that ends leaves the other logins as they are, if it disables no
\* account whose login it does not mark.
LEMMA LeaveKeepsLogins ==
  ASSUME Typed, LoginInv, NEW q \in Requests, Leave(q),
         \A r \in Requests \ {q} : r \in raced => r \in raced',
         \A r \in Requests \ {q} : r \notin raced' /\ pc[r] = "granted" /\ want[r] \in Login =>
             /\ enabled[target[r]] => enabled'[target[r]]
             /\ password'[target[r]] = password[target[r]]
  PROVE  LoginInv'
  BY LeaveTyped DEF LoginInv, Typed

LEMMA StartStep == IInv /\ Start => Kept'
  <1> SUFFICES ASSUME IInv, NEW c \in Centers,
                      \/ StartCenter(c)
                      \/ \E u \in Users : EnsureBootstrapAdmin(c, u)
                      \/ StopCenter(c)
               PROVE  Kept'
    BY DEF Start
  <1> USE DEF IInv, Kept, Typed, TypeOK
  <1>1. CASE StartCenter(c) \/ StopCenter(c)
    <2>1. UNCHANGED <<role, enabled, password, sessions, lock, pc, target, want, raced>>
      BY <1>1 DEF StartCenter, StopCenter, requestVars
    <2>2. EnabledAdmins' = EnabledAdmins /\ Accounts' = Accounts
      BY <2>1 DEF EnabledAdmins, Accounts, Exists
    <2>3. LockInv' /\ LoginInv' /\ SessionsAreRevoked'
      BY <2>1, <2>2 DEF LockInv, LoginInv, SessionsAreRevoked, Removes
    <2>4. Serving' => Serving \/ Accounts # {}
      BY <1>1 DEF StartCenter, StopCenter, Serving
    <2>. QED  BY <2>1, <2>2, <2>3, <2>4 DEF Settled
  <1>2. ASSUME NEW u \in Users, EnsureBootstrapAdmin(c, u)
        PROVE  Kept'
    <2>1. UNCHANGED <<password, sessions, lock, pc, target, want, raced>>
      BY <1>2 DEF EnsureBootstrapAdmin, requestVars
    <2>2. CASE Accounts # {}
      <3>1. role' = role /\ enabled' = enabled
        BY <1>2, <2>2 DEF EnsureBootstrapAdmin
      <3>2. EnabledAdmins' = EnabledAdmins /\ Accounts' = Accounts
        BY <3>1 DEF EnabledAdmins, Accounts, Exists
      <3>3. LockInv' /\ LoginInv' /\ SessionsAreRevoked'
        BY <2>1, <3>1, <3>2 DEF LockInv, LoginInv, SessionsAreRevoked, Removes
      <3>. QED  BY <2>2, <3>2, <3>3 DEF Settled
    <2>3. CASE Accounts = {}
      <3>1. role' = [role EXCEPT ![u] = "admin"] /\ enabled' = [enabled EXCEPT ![u] = TRUE]
        BY <1>2, <2>3 DEF EnsureBootstrapAdmin
      <3>2. u \in EnabledAdmins' /\ EnabledAdmins \subseteq EnabledAdmins'
        BY <3>1 DEF EnabledAdmins
      <3>3. \A v \in Users : enabled[v] => enabled'[v]
        BY <3>1
      <3>4. LockInv'
        BY <2>1, <3>2, LockKept
      <3>5. LoginInv'
        BY <2>1, <3>3 DEF LoginInv
      <3>6. SessionsAreRevoked'
        BY <2>1, <3>3 DEF SessionsAreRevoked, Session
      <3>. QED  BY <3>2, <3>4, <3>5, <3>6 DEF Settled
    <2>. QED  BY <2>2, <2>3
  <1>. QED  BY <1>1, <1>2

\* The steps that leave accounts and sessions alone.
LEMMA QuietStep ==
  ASSUME IInv, NEW q \in Requests, UNCHANGED <<role, enabled, password, sessions, center>>,
         \/ \E u \in Users : CheckCredentials(q, u)
         \/ \E s \in sessions, u \in Users, w \in Wants : Authorize(q, s, u, w)
         \/ LockAdministrators(q)
         \/ CheckAccount(q)
         \/ Fail(q)
  PROVE  Kept'
  <1> USE DEF IInv, Kept, Typed, TypeOK
  <1>1. EnabledAdmins' = EnabledAdmins /\ Accounts' = Accounts /\ (Serving <=> Serving')
    BY DEF EnabledAdmins, Accounts, Exists, Serving
  <1>2. EnabledAdmins # {}
    BY DEF CheckCredentials, Authorize, Accept, LockAdministrators, CheckAccount, Fail, Settled
  <1>8. Settled' /\ SessionsAreRevoked'
    BY <1>1, <1>2 DEF Settled, SessionsAreRevoked
  <1>3. ASSUME NEW u \in Users, CheckCredentials(q, u) PROVE LockInv' /\ LoginInv'
    <2>1. LockInv'
      BY <1>1, <1>3, LockKept DEF CheckCredentials, Accept
    <2>2. LoginInv'
      BY <1>3 DEF CheckCredentials, Accept, LoginInv
    <2>. QED  BY <2>1, <2>2
  <1>4. ASSUME NEW s \in sessions, NEW u \in Users, NEW w \in Wants, Authorize(q, s, u, w)
        PROVE  LockInv' /\ LoginInv'
    <2>1. LockInv'
      BY <1>1, <1>4, LockKept DEF Authorize, Accept
    <2>2. LoginInv'
      BY <1>4 DEF Authorize, Accept, LoginInv
    <2>. QED  BY <2>1, <2>2
  <1>5. CASE LockAdministrators(q)
    <2>1. \A r \in Requests : pc[r] \notin {"locked", "checked"}
      BY <1>5, UsersAssumption DEF LockAdministrators, LockInv
    <2>2. LockInv'
      BY <1>5, <2>1 DEF LockAdministrators, LockInv
    <2>3. LoginInv'
      BY <1>5 DEF LockAdministrators, LoginInv
    <2>. QED  BY <1>8, <2>2, <2>3
  <1>6. CASE CheckAccount(q)
    <2>1. Removes(want[q]) => EnabledAdmins \ {target[q]} # {}
      <3> SUFFICES ASSUME Removes(want[q]) PROVE EnabledAdmins \ {target[q]} # {}
        OBVIOUS
      <3>1. CASE target[q] \in EnabledAdmins
        <4>1. IsFiniteSet(EnabledAdmins)
          BY UsersAssumption, FS_Subset DEF EnabledAdmins
        <4>. QED  BY <1>6, <3>1, <4>1, Another DEF CheckAccount
      <3>2. CASE target[q] \notin EnabledAdmins
        <4>1. target[q] \in Accounts
          BY <1>6 DEF CheckAccount, Accounts
        <4>. QED  BY <3>2, <4>1 DEF Settled
      <3>. QED  BY <3>1, <3>2
    <2>2. UNCHANGED <<target, want, lock, raced>> /\ pc' = [pc EXCEPT ![q] = "checked"] /\ pc[q] = "locked"
      BY <1>6 DEF CheckAccount
    <2>3. LockInv'
      BY <1>1, <2>1, <2>2 DEF LockInv, Removes
    <2>4. LoginInv'
      BY <2>2 DEF LoginInv
    <2>. QED  BY <1>8, <2>3, <2>4
  <1>7. CASE Fail(q)
    <2>1. Leave(q) /\ raced' = raced \ {q}
      BY <1>7 DEF Fail
    <2>2. LockInv'
      BY <1>1, <2>1, LeaveKeepsLock
    <2>3. LoginInv'
      BY <2>1, LeaveKeepsLogins
    <2>. QED  BY <1>8, <2>2, <2>3
  <1>. QED  BY <1>8, <1>3, <1>4, <1>5, <1>6, <1>7

LEMMA CreateStep ==
  ASSUME IInv, NEW q \in Requests, (\E t \in Tokens : CreateAuthSession(q, t)) \/ CreateUser(q)
  PROVE  Kept'
  <1> USE DEF IInv, Kept
  <1>1. ASSUME NEW t \in Tokens, CreateAuthSession(q, t)
        PROVE  Kept'
    <2>1. Leave(q) /\ UNCHANGED <<role, enabled, password, center>> /\ raced' = raced \ {q}
      BY <1>1 DEF CreateAuthSession
    <2>2. EnabledAdmins' = EnabledAdmins /\ Accounts' = Accounts /\ (Serving <=> Serving')
      BY <2>1 DEF EnabledAdmins, Accounts, Exists, Serving
    <2>3. LockInv' /\ LoginInv'
      BY <2>1, <2>2, LeaveKeepsLock, LeaveKeepsLogins
    <2>4. q \notin raced => enabled[target[q]] /\ want[q].password = password[target[q]]
      BY <1>1 DEF CreateAuthSession, LoginInv
    <2>5. SessionsAreRevoked'
      BY <1>1, <2>1, <2>4 DEF CreateAuthSession, SessionsAreRevoked
    <2>6. pc[q] # "idle"
      BY <1>1 DEF CreateAuthSession
    <2>. QED  BY <2>2, <2>3, <2>5, <2>6 DEF Settled
  <1>2. CASE CreateUser(q)
    <2>1. /\ Leave(q) /\ UNCHANGED <<password, sessions, center, raced>> /\ role[target[q]] = "none"
          /\ target[q] \in Users /\ want[q].role \in Roles
          /\ role' = [role EXCEPT ![target[q]] = want[q].role]
          /\ enabled' = [enabled EXCEPT ![target[q]] = TRUE]
      BY <1>2, WantsApart DEF CreateUser, Typed, TypeOK
    <2>2. \A v \in Users : enabled[v] => enabled'[v]
      BY <2>1 DEF Typed, TypeOK
    <2>3. EnabledAdmins \subseteq EnabledAdmins'
      BY <2>1, <2>2 DEF EnabledAdmins, Typed, TypeOK
    <2>4. LockInv'
      BY <2>1, <2>3, LeaveKeepsLock
    <2>5. LoginInv'
      <3>1. \A r \in Requests : pc[r] = "granted" => target[r] \in Users
        BY DEF Typed
      <3>. QED  BY <2>1, <2>2, <3>1, LeaveKeepsLogins
    <2>6. SessionsAreRevoked'
      BY <2>1, <2>2 DEF SessionsAreRevoked, Typed, TypeOK, Session
    <2>7. Settled'
      <3>1. pc[q] # "idle"
        BY <1>2 DEF CreateUser
      <3>. QED  BY <2>3, <3>1 DEF Settled
    <2>. QED  BY <2>4, <2>5, <2>6, <2>7
  <1>. QED  BY <1>1, <1>2
\* Every administrator's access that is taken leaves another one's.
LEMMA ChangeStep ==
  ASSUME IInv, NEW q \in Requests, UpdateUser(q) \/ DeleteUser(q) \/ ResetUserPassword(q)
  PROVE  Kept'
  <1> USE DEF IInv, Kept
  <1> DEFINE u == target[q]
  <1>0. u \in Users /\ Leave(q) /\ center' = center
    BY DEF UpdateUser, DeleteUser, ResetUserPassword, Typed
  <1>1. ASSUME EnabledAdmins' # {} PROVE Settled'
    BY <1>1 DEF Settled
  <1>2. \A r \in Requests \ {q} : pc'[r] \notin {"locked", "checked"} \/ pc[q] \notin {"locked", "checked"}
    <2>1. \A r \in Requests \ {q} : pc'[r] = pc[r]
      BY <1>0 DEF Leave, Typed, TypeOK
    <2>. QED  BY <2>1 DEF LockInv
  <1>3. CASE ResetUserPassword(q)
    <2>1. UNCHANGED <<role, enabled>> /\ raced' = raced \cup Underway(u)
          /\ sessions' = sessions \ Of(u)
      BY <1>3 DEF ResetUserPassword
    <2>6. \A v \in Users \ {u} : password'[v] = password[v]
      BY <1>3 DEF ResetUserPassword, Typed, TypeOK
    <2>7. \A r \in Requests : pc[r] = "granted" => target[r] \in Users
      BY DEF Typed
    <2>2. EnabledAdmins' = EnabledAdmins
      BY <2>1 DEF EnabledAdmins
    <2>3. LockInv' /\ LoginInv'
      <3>1. LockInv'
        BY <1>0, <2>2, LeaveKeepsLock
      <3>2. LoginInv'
        BY <1>0, <2>1, <2>6, <2>7, LeaveKeepsLogins DEF Underway
      <3>. QED  BY <3>1, <3>2
    <2>4. SessionsAreRevoked'
      BY <2>1, <2>6 DEF SessionsAreRevoked, Typed, TypeOK, Session, Of
    <2>5. pc[q] # "idle"
      BY <1>3 DEF ResetUserPassword
    <2>. QED  BY <1>1, <2>2, <2>3, <2>4, <2>5 DEF Settled
  <1>4. ASSUME UpdateUser(q) \/ DeleteUser(q) PROVE LockInv' /\ EnabledAdmins' # {}
    <2>1. pc[q] = "checked"
      BY <1>4 DEF UpdateUser, DeleteUser
    <2>2. LockInv'
      <3>1. \A r \in Requests : pc'[r] \notin {"locked", "checked"}
        BY <1>0, <1>2, <2>1 DEF Leave, Typed, TypeOK
      <3>. QED  BY <3>1 DEF LockInv
    <2>3. \A v \in Users \ {u} : v \in EnabledAdmins => v \in EnabledAdmins'
      BY <1>4 DEF UpdateUser, DeleteUser, EnabledAdmins, Typed, TypeOK
    <2>4. CASE Removes(want[q])
      BY <1>0, <2>1, <2>2, <2>3, <2>4 DEF LockInv, EnabledAdmins
    <2>5. CASE ~Removes(want[q])
      <3>1. UpdateUser(q) /\ want[q].role = "admin" /\ want[q].enabled
        BY <1>4, <2>5, WantsApart DEF UpdateUser, DeleteUser, Removes, Typed, TypeOK
      <3>2. role'[u] = "admin" /\ enabled'[u]
        BY <1>0, <3>1 DEF UpdateUser, Typed, TypeOK
      <3>. QED  BY <1>0, <2>2, <3>2 DEF EnabledAdmins
    <2>. QED  BY <2>4, <2>5, <2>2
  <1>5. CASE UpdateUser(q)
    <2>0. want[q] \in Update /\ want[q].enabled \in BOOLEAN
      BY <1>5, WantsApart DEF UpdateUser, Typed, TypeOK
    <2>1. enabled' = [enabled EXCEPT ![u] = want[q].enabled]
      BY <1>5 DEF UpdateUser
    <2>2. CASE want[q].enabled
      <3>1. sessions' = sessions /\ raced' = raced /\ password' = password
        BY <1>5, <2>2 DEF UpdateUser
      <3>2. \A v \in Users : enabled[v] => enabled'[v]
        BY <2>1, <2>2 DEF Typed, TypeOK
      <3>3. \A r \in Requests : pc[r] = "granted" => target[r] \in Users
        BY DEF Typed
      <3>4. LoginInv'
        BY <1>0, <3>1, <3>2, <3>3, LeaveKeepsLogins
      <3>5. SessionsAreRevoked'
        BY <3>1, <3>2 DEF SessionsAreRevoked, Typed, TypeOK, Session
      <3>. QED  BY <1>1, <1>4, <1>5, <3>4, <3>5
    <2>3. CASE ~want[q].enabled
      <3>1. sessions' = sessions \ Of(u) /\ raced' = raced \cup Underway(u) /\ password' = password
        BY <1>5, <2>3 DEF UpdateUser
      <3>2. \A v \in Users \ {u} : enabled'[v] = enabled[v]
        BY <2>1 DEF Typed, TypeOK
      <3>3. \A r \in Requests : pc[r] = "granted" => target[r] \in Users
        BY DEF Typed
      <3>4. LoginInv'
        BY <1>0, <3>1, <3>2, <3>3, LeaveKeepsLogins DEF Underway
      <3>5. SessionsAreRevoked'
        BY <3>1, <3>2 DEF SessionsAreRevoked, Typed, TypeOK, Session, Of
      <3>. QED  BY <1>1, <1>4, <1>5, <3>4, <3>5
    <2>. QED  BY <2>0, <2>2, <2>3
  <1>6. CASE DeleteUser(q)
    <2>1. enabled' = enabled /\ password' = password /\ raced' = raced /\ sessions' \subseteq sessions
      BY <1>6 DEF DeleteUser
    <2>2. LoginInv'
      BY <1>0, <2>1, LeaveKeepsLogins
    <2>3. SessionsAreRevoked'
      BY <2>1 DEF SessionsAreRevoked
    <2>. QED  BY <1>1, <1>4, <1>6, <2>2, <2>3
  <1>. QED  BY <1>3, <1>5, <1>6

LEMMA Inductive == IInv /\ [Next]_vars => IInv'
  <1> SUFFICES ASSUME IInv, [Next]_vars PROVE IInv'
    OBVIOUS
  <1>1. Typed'
    BY Typing DEF IInv
  <1>2. ASSUME NEW q \in Requests, Serve(q) PROVE Kept'
    <2>1. CASE \/ \E u \in Users : CheckCredentials(q, u)
               \/ \E s \in sessions, u \in Users, w \in Wants : Authorize(q, s, u, w)
               \/ LockAdministrators(q)
               \/ CheckAccount(q)
               \/ Fail(q)
      <3>1. UNCHANGED <<role, enabled, password, sessions, center>>
        BY <2>1 DEF CheckCredentials, Authorize, Accept, LockAdministrators, CheckAccount, Fail
      <3>. QED  BY <2>1, <3>1, QuietStep
    <2>. QED  BY <1>2, <2>1, CreateStep, ChangeStep DEF Serve
  <1>3. ASSUME NEW s \in sessions, EndSession(s) PROVE Kept'
    BY <1>3 DEF EndSession, requestVars, IInv, Kept, LockInv, LoginInv, Settled, SessionsAreRevoked,
                EnabledAdmins, Accounts, Exists, Serving, Removes
  <1>4. ASSUME UNCHANGED vars PROVE Kept'
    <2>1. EnabledAdmins' = EnabledAdmins /\ Accounts' = Accounts /\ (Serving <=> Serving')
      BY <1>4 DEF vars, EnabledAdmins, Accounts, Exists, Serving
    <2>2. LockInv' /\ LoginInv'
      BY <1>4, <2>1 DEF vars, IInv, Kept, LockInv, LoginInv, Removes
    <2>3. Settled' /\ SessionsAreRevoked'
      BY <1>4, <2>1 DEF vars, IInv, Kept, Settled, SessionsAreRevoked
    <2>. QED  BY <2>2, <2>3 DEF Kept
  <1>5. Kept'
    <2>1. Start => Kept'
      BY StartStep
    <2>2. CASE Start
      BY <2>1, <2>2
    <2>3. CASE \E q \in Requests : Serve(q)
      BY <1>2, <2>3
    <2>4. CASE \E s \in sessions : EndSession(s)
      BY <1>3, <2>4
    <2>. QED  BY <1>4, <2>2, <2>3, <2>4 DEF Next
  <1>. QED  BY <1>1, <1>5 DEF IInv

\* However many administrators disable, demote and delete each other at the
\* same time, one enabled administrator remains.
THEOREM AdministratorStays == Spec => []AdminRemains
  <1>1. IInv => AdminRemains
    BY DEF IInv, Kept, Settled, AdminRemains
  <1>. QED  BY <1>1, InitInv, Inductive, PTL DEF Spec

\* Every session of a disabled account, and every one granted on a password
\* that was reset, stems from a login that was being served at that time.
THEOREM Revoked == Spec => []SessionsAreRevoked
  <1>1. IInv => SessionsAreRevoked
    BY DEF IInv, Kept
  <1>. QED  BY <1>1, InitInv, Inductive, PTL DEF Spec

\* Whichever Centers start or stop, and in whatever order: once there is an account, no start
\* of a Center creates another one.
THEOREM BootstrapOnce == Spec => OneBootstrap
  <1>1. ASSUME [Next]_vars, Accounts # {}, center' # center
        PROVE  Accounts' = Accounts
    <2>1. CASE Start
      <3>1. role' = role
        BY <1>1, <2>1 DEF Start, StartCenter, EnsureBootstrapAdmin, StopCenter
      <3>. QED  BY <3>1 DEF Accounts, Exists
    <2>2. CASE \E q \in Requests : Serve(q)
      BY <1>1, <2>2 DEF Serve, CheckCredentials, Authorize, Accept, CreateAuthSession, CreateUser,
                        ResetUserPassword, LockAdministrators, CheckAccount, UpdateUser,
                        DeleteUser, Fail
    <2>3. CASE \E s \in sessions : EndSession(s)
      BY <1>1, <2>3 DEF EndSession
    <2>4. CASE UNCHANGED vars
      BY <1>1, <2>4 DEF vars
    <2>. QED  BY <1>1, <2>1, <2>2, <2>3, <2>4 DEF Next
  <1>2. [Next]_vars => [Accounts # {} /\ center' # center => Accounts' = Accounts]_vars
    BY <1>1
  <1>. QED  BY <1>2, PTL DEF Spec, OneBootstrap

-----------------------------------------------------------------------------
(***************************************************************************)
(* Users implements the account registry.                                  *)
(***************************************************************************)
\* What a request was granted on is not taken back while it is served: the account whose
\* row it has locked exists, and the password of a login is one the account had.
HeldInv ==
    /\ \A q \in Requests : pc[q] = "checked" => Exists(target[q])
    /\ \A q \in Requests : pc[q] = "granted" /\ want[q] \in Login =>
                               want[q].password <= password[target[q]]

LEMMA InitHeld == Init => HeldInv
  BY DEF Init, HeldInv

\* A step of request q, or of none, that takes back nothing of what the others hold.
LEMMA HeldKept ==
  ASSUME Typed, HeldInv, NEW Others \in SUBSET Requests,
         \A r \in Others : pc'[r] # "idle" =>
             pc'[r] = pc[r] /\ target'[r] = target[r] /\ want'[r] = want[r],
         \A u \in Users : password[u] <= password'[u],
         \A r \in Others : pc[r] = "checked" /\ pc'[r] = "checked" => role'[target[r]] \in Roles,
         password' \in [Users -> Passwords]
  PROVE  \A r \in Others : /\ pc'[r] = "checked" => role'[target'[r]] \in Roles
                          /\ pc'[r] = "granted" /\ want'[r] \in Login =>
                                 want'[r].password <= password'[target'[r]]
  <1> SUFFICES ASSUME NEW r \in Others, pc'[r] # "idle"
               PROVE  /\ pc'[r] = "checked" => role'[target'[r]] \in Roles
                      /\ pc'[r] = "granted" /\ want'[r] \in Login =>
                             want'[r].password <= password'[target'[r]]
    OBVIOUS
  <1>1. r \in Requests /\ pc'[r] = pc[r] /\ target'[r] = target[r] /\ want'[r] = want[r]
    OBVIOUS
  <1>2. target[r] \in Users /\ want[r] \in Wants
    BY <1>1 DEF Typed, TypeOK
  <1>3. ASSUME pc[r] = "granted", want[r] \in Login
        PROVE  want[r].password <= password'[target[r]]
    <2>1. want[r].password \in Nat /\ password[target[r]] \in Nat /\ password'[target[r]] \in Nat
      BY <1>2, <1>3, WantsApart, UsersAssumption DEF Passwords, Typed, TypeOK
    <2>2. want[r].password <= password[target[r]] /\ password[target[r]] <= password'[target[r]]
      BY <1>1, <1>2, <1>3 DEF HeldInv
    <2>. QED  BY <2>1, <2>2
  <1>. QED  BY <1>1, <1>3

LEMMA HeldStep == IInv /\ HeldInv /\ [Next]_vars => HeldInv'
  <1> SUFFICES ASSUME IInv, HeldInv, [Next]_vars PROVE HeldInv'
    OBVIOUS
  <1>0. Typed /\ Typed' /\ LockInv /\ TypeOK /\ TypeOK' /\ password' \in [Users -> Passwords]
    BY Typing DEF IInv, Kept, Typed, TypeOK
  <1>1. \A u \in Users : password[u] \in Int /\ password[u] + 1 \in Int
    BY <1>0, UsersAssumption DEF TypeOK, Passwords
  <1>2. CASE UNCHANGED <<role, password, pc, target, want>>
    BY <1>2 DEF HeldInv, Exists
  <1>3. ASSUME NEW c \in Centers, NEW u \in Users, EnsureBootstrapAdmin(c, u) PROVE HeldInv'
    <2>1. UNCHANGED <<password, pc, target, want>>
          /\ \A v \in Users : role[v] \in Roles => role'[v] \in Roles
      BY <1>0, <1>3 DEF EnsureBootstrapAdmin, requestVars, TypeOK, Roles
    <2>. QED  BY <1>0, <2>1 DEF HeldInv, Exists, Typed
  <1>4. ASSUME NEW q \in Requests, Serve(q) PROVE HeldInv'
    <2> DEFINE Others == Requests \ {q}
               Rest == /\ \A r \in Others : pc'[r] # "idle" =>
                              pc'[r] = pc[r] /\ target'[r] = target[r] /\ want'[r] = want[r]
                       /\ \A u \in Users : password[u] <= password'[u]
                       /\ \A r \in Others : pc[r] = "checked" /\ pc'[r] = "checked" =>
                              role'[target[r]] \in Roles
    <2>1. ASSUME Rest,
                 pc'[q] = "checked" => role'[target'[q]] \in Roles,
                 pc'[q] = "granted" /\ want'[q] \in Login =>
                     want'[q].password <= password'[target'[q]]
          PROVE  HeldInv'
      <3>1. \A r \in Others : /\ pc'[r] = "checked" => role'[target'[r]] \in Roles
                              /\ pc'[r] = "granted" /\ want'[r] \in Login =>
                                     want'[r].password <= password'[target'[r]]
        BY <1>0, <2>1, HeldKept
      <3>. QED  BY <2>1, <3>1 DEF HeldInv, Exists
    <2>2. ASSUME UNCHANGED <<role, password>>,
                 \A r \in Others : pc'[r] # "idle" =>
                     pc'[r] = pc[r] /\ target'[r] = target[r] /\ want'[r] = want[r]
          PROVE  Rest
      BY <1>1, <2>2 DEF HeldInv, Exists
    <2>3. ASSUME Leave(q), \A u \in Users : password[u] <= password'[u],
                 \A r \in Others : pc[r] = "checked" => role'[target[r]] \in Roles
          PROVE  HeldInv'
      <3>1. pc'[q] = "idle" /\ \A r \in Requests : pc'[r] # "idle" =>
                pc'[r] = pc[r] /\ target'[r] = target[r] /\ want'[r] = want[r]
        BY <1>0, <2>3, LeaveTyped DEF TypeOK
      <3>. QED  BY <2>1, <2>3, <3>1
    <2>4. ASSUME NEW u \in Users, NEW w, Accept(q, u, w), w \in Login => w.password <= password[u]
          PROVE  HeldInv'
      <3>1. /\ pc' = [pc EXCEPT ![q] = "granted"] /\ target' = [target EXCEPT ![q] = u]
            /\ want' = [want EXCEPT ![q] = w] /\ UNCHANGED <<role, password>>
        BY <2>4 DEF Accept
      <3>2. pc'[q] = "granted" /\ target'[q] = u /\ want'[q] = w
        BY <1>0, <3>1 DEF TypeOK
      <3>3. Rest
        BY <1>0, <2>2, <3>1 DEF TypeOK
      <3>. QED  BY <2>1, <2>4, <3>1, <3>2, <3>3
    <2>5. ASSUME NEW u \in Users, CheckCredentials(q, u) PROVE HeldInv'
      BY <1>1, <2>4, <2>5 DEF CheckCredentials
    <2>6. ASSUME NEW s \in sessions, NEW u \in Users, NEW w \in Wants, Authorize(q, s, u, w)
          PROVE  HeldInv'
      BY <2>4, <2>6 DEF Authorize
    <2>7. CASE (\E t \in Tokens : CreateAuthSession(q, t)) \/ Fail(q)
      <3>1. Leave(q) /\ UNCHANGED <<role, password>>
        BY <2>7 DEF CreateAuthSession, Fail
      <3>. QED  BY <1>1, <2>3, <3>1 DEF HeldInv, Exists
    <2>8. CASE CreateUser(q)
      <3>1. /\ Leave(q) /\ password' = password /\ want[q].role \in Roles
            /\ role' = [role EXCEPT ![target[q]] = want[q].role]
        BY <1>0, <2>8, WantsApart DEF CreateUser, TypeOK
      <3>2. \A v \in Users : role[v] \in Roles => role'[v] \in Roles
        BY <1>0, <3>1 DEF TypeOK
      <3>3. \A r \in Others : pc[r] = "checked" => target[r] \in Users /\ role[target[r]] \in Roles
        BY <1>0 DEF HeldInv, Exists, Typed
      <3>. QED  BY <1>1, <2>3, <3>1, <3>2, <3>3
    <2>9. CASE ResetUserPassword(q)
      <3>1. /\ Leave(q) /\ role' = role /\ target[q] \in Users
            /\ password' = [password EXCEPT ![target[q]] = password[target[q]] + 1]
        BY <1>0, <2>9 DEF ResetUserPassword, Typed
      <3>2. \A u \in Users : password[u] <= password'[u]
        BY <1>0, <1>1, <3>1 DEF TypeOK
      <3>. QED  BY <2>3, <3>1, <3>2 DEF HeldInv, Exists
    <2>10. CASE LockAdministrators(q)
      <3>1. /\ UNCHANGED <<role, password, target, want>> /\ pc' = [pc EXCEPT ![q] = "locked"]
        BY <2>10 DEF LockAdministrators
      <3>2. pc'[q] = "locked" /\ Rest
        BY <1>0, <2>2, <3>1 DEF TypeOK
      <3>. QED  BY <2>1, <3>2
    <2>11. CASE CheckAccount(q)
      <3>1. /\ UNCHANGED <<role, password, target, want>> /\ pc' = [pc EXCEPT ![q] = "checked"]
            /\ role[target[q]] \in Roles
        BY <2>11 DEF CheckAccount, Exists
      <3>2. pc'[q] = "checked" /\ Rest
        BY <1>0, <2>2, <3>1 DEF TypeOK
      <3>. QED  BY <2>1, <3>1, <3>2
    <2>12. CASE UpdateUser(q) \/ DeleteUser(q)
      <3>1. Leave(q) /\ password' = password /\ pc[q] = "checked"
        BY <2>12 DEF UpdateUser, DeleteUser
      <3>2. \A r \in Others : pc[r] # "checked"
        BY <1>0, <3>1 DEF LockInv
      <3>. QED  BY <1>1, <2>3, <3>1, <3>2
    <2>. QED  BY <1>4, <2>5, <2>6, <2>7, <2>8, <2>9, <2>10, <2>11, <2>12 DEF Serve
  <1>5. CASE Start
    <2>1. PICK c \in Centers : \/ StartCenter(c)
                               \/ \E u \in Users : EnsureBootstrapAdmin(c, u)
                               \/ StopCenter(c)
      BY <1>5 DEF Start
    <2>. QED  BY <1>2, <1>3, <2>1 DEF StartCenter, StopCenter, requestVars
  <1>6. CASE (\E s \in sessions : EndSession(s)) \/ UNCHANGED vars
    BY <1>2, <1>6 DEF EndSession, requestVars, vars
  <1>. QED  BY <1>4, <1>5, <1>6 DEF Next

\* What the registry sees of the accounts.
LEMMA SameSets ==
  /\ Registry!Accounts = Accounts /\ Registry!EnabledAdmins = EnabledAdmins
  /\ \A u : Registry!Exists(u) <=> Exists(u)
  /\ \A u : Registry!Of(u) = Of(u)
  BY DEF Registry!Accounts, Registry!EnabledAdmins, Registry!Exists, Registry!Of, Registry!Roles,
         Accounts, EnabledAdmins, Exists, Of, Roles

LEMMA InitRegistry == Init => Registry!Init
  BY DEF Init, Registry!Init

LEMMA StartRegistry == Start => Registry!Next \/ UNCHANGED Registry!vars
  <1> SUFFICES ASSUME NEW c \in Centers,
                      \/ StartCenter(c)
                      \/ \E u \in Users : EnsureBootstrapAdmin(c, u)
                      \/ StopCenter(c)
               PROVE  Registry!Next \/ UNCHANGED Registry!vars
    BY DEF Start
  <1>1. CASE StartCenter(c) \/ StopCenter(c)
    BY <1>1 DEF StartCenter, StopCenter, Registry!vars
  <1>2. ASSUME NEW u \in Users, EnsureBootstrapAdmin(c, u)
        PROVE  Registry!Next \/ UNCHANGED Registry!vars
    <2>1. CASE Accounts = {}
      <3>1. Registry!Bootstrap(u)
        BY <1>2, <2>1, SameSets DEF EnsureBootstrapAdmin, Registry!Bootstrap
      <3>. QED  BY <3>1 DEF Registry!Next
    <2>2. CASE Accounts # {}
      BY <1>2, <2>2 DEF EnsureBootstrapAdmin, Registry!vars
    <2>. QED  BY <2>1, <2>2
  <1>. QED  BY <1>1, <1>2

\* Whoever is served, there is an enabled administrator.
LEMMA ServedSettled ==
  ASSUME IInv, NEW q \in Requests, pc[q] # "idle"
  PROVE  target[q] \in Users /\ EnabledAdmins # {}
  BY DEF IInv, Kept, Typed, Settled

LEMMA LoginRegistry ==
  ASSUME IInv, HeldInv, NEW q \in Requests, NEW t \in Tokens, CreateAuthSession(q, t)
  PROVE  Registry!Next
  <1> DEFINE u     == target[q]
             p     == want[q].password
             login == IF q \in raced THEN "raced" ELSE "clean"
  <1>1. /\ pc[q] = "granted" /\ want[q] \in Login /\ Exists(u) /\ u \in Users
        /\ \A s \in sessions : s.token # t
        /\ sessions' = sessions \cup {[token |-> t, user |-> u, password |-> p, login |-> login]}
        /\ UNCHANGED <<role, enabled, password>>
    BY ServedSettled DEF CreateAuthSession
  <1>2. p \in 0 .. password[u]
    <2>1. p \in Nat /\ password[u] \in Nat /\ p <= password[u]
      BY <1>1, WantsApart, UsersAssumption DEF HeldInv, IInv, Typed, TypeOK, Passwords
    <2>. QED  BY <2>1
  <1>3. login = "clean" => enabled[u] /\ p = password[u]
    BY <1>1 DEF IInv, Kept, LoginInv
  <1>4. Registry!Login(u, t, p, login)
    BY <1>1, <1>3, SameSets DEF Registry!Login
  <1>5. login \in {"clean", "raced"}
    OBVIOUS
  <1> HIDE DEF u, p, login
  <1>. QED  BY <1>1, <1>2, <1>4, <1>5 DEF Registry!Next

LEMMA CreateRegistry ==
  ASSUME IInv, NEW q \in Requests, CreateUser(q)
  PROVE  Registry!Next
  <1>1. target[q] \in Users /\ EnabledAdmins # {} /\ want[q].role \in Roles
    BY ServedSettled, WantsApart DEF CreateUser, IInv, Typed, TypeOK
  <1>2. Registry!Create(target[q], want[q].role)
    BY <1>1, SameSets DEF CreateUser, Registry!Create
  <1>. QED  BY <1>1, <1>2 DEF Registry!Next, Registry!Roles, Roles

LEMMA ResetRegistry ==
  ASSUME IInv, NEW q \in Requests, ResetUserPassword(q)
  PROVE  Registry!Next
  <1>1. target[q] \in Users /\ EnabledAdmins # {}
    BY ServedSettled DEF ResetUserPassword
  <1>2. Registry!Reset(target[q])
    BY <1>1, SameSets DEF ResetUserPassword, Registry!Reset
  <1>. QED  BY <1>1, <1>2 DEF Registry!Next

\* The account was read under the lock and is there; an administrator remains after it.
LEMMA UpdateRegistry ==
  ASSUME IInv, IInv', HeldInv, NEW q \in Requests, UpdateUser(q)
  PROVE  Registry!Next
  <1> DEFINE u == target[q]
  <1>1. /\ u \in Users /\ Exists(u)
        /\ want[q].role \in Roles /\ want[q].enabled \in BOOLEAN
    BY ServedSettled, WantsApart DEF UpdateUser, HeldInv, IInv, Typed, TypeOK
  <1>2. EnabledAdmins' # {}
    <2>1. role' = [role EXCEPT ![u] = want[q].role]
      BY DEF UpdateUser
    <2>2. u \in Accounts'
      BY <1>1, <2>1 DEF Accounts, Exists, IInv, Typed, TypeOK
    <2>. QED  BY <2>2 DEF IInv, Kept, Settled
  <1>3. Registry!EnabledAdmins' # {}
    BY <1>2 DEF Registry!EnabledAdmins, EnabledAdmins
  <1>4. Registry!Change(u, want[q].role, want[q].enabled)
    BY <1>1, <1>3, SameSets DEF UpdateUser, Registry!Change
  <1>. QED  BY <1>1, <1>4 DEF Registry!Next, Registry!Roles, Roles

LEMMA DeleteRegistry ==
  ASSUME IInv, HeldInv, NEW q \in Requests, DeleteUser(q)
  PROVE  Registry!Next
  <1> DEFINE u == target[q]
  <1>1. u \in Users /\ Exists(u)
    BY ServedSettled DEF DeleteUser, HeldInv
  <1>2. EnabledAdmins \ {u} # {}
    BY DEF DeleteUser, Removes, IInv, Kept, LockInv
  <1>3. Registry!Delete(u)
    BY <1>1, <1>2, SameSets DEF DeleteUser, Registry!Delete
  <1>. QED  BY <1>1, <1>3 DEF Registry!Next

LEMMA StepRegistry ==
  ASSUME IInv, IInv', HeldInv, [Next]_vars
  PROVE  [Registry!Next]_(Registry!vars)
  <1>1. ASSUME NEW q \in Requests, Serve(q) PROVE Registry!Next \/ UNCHANGED Registry!vars
    <2>1. CASE \/ \E u \in Users : CheckCredentials(q, u)
               \/ \E s \in sessions, u \in Users, w \in Wants : Authorize(q, s, u, w)
               \/ LockAdministrators(q) \/ CheckAccount(q) \/ Fail(q)
      BY <2>1 DEF CheckCredentials, Authorize, Accept, LockAdministrators, CheckAccount, Fail,
                  Registry!vars
    <2>. QED  BY <1>1, <2>1, LoginRegistry, CreateRegistry, ResetRegistry, UpdateRegistry,
                 DeleteRegistry DEF Serve
  <1>2. ASSUME NEW s \in sessions, EndSession(s) PROVE Registry!Next
    <2>1. Registry!Logout(s)
      BY <1>2 DEF EndSession, Registry!Logout
    <2>. QED  BY <2>1 DEF Registry!Next
  <1>3. UNCHANGED vars => UNCHANGED Registry!vars
    BY DEF vars, Registry!vars
  <1>. QED  BY <1>1, <1>2, <1>3, StartRegistry DEF Next

\* However the statements of several requests and the starts of Centers interleave: accounts
\* and sessions change as if every request was served at once, at its commit.
THEOREM RegistryImplemented == Spec => ImplementsRegistry
  <1>1. Spec => [](IInv /\ HeldInv)
    <2>1. IInv /\ HeldInv /\ [Next]_vars => IInv' /\ HeldInv'
      BY Inductive, HeldStep
    <2>. QED  BY <2>1, InitInv, InitHeld, PTL DEF Spec
  <1>2. IInv /\ IInv' /\ HeldInv /\ [Next]_vars => [Registry!Next]_(Registry!vars)
    BY StepRegistry
  <1>. QED  BY <1>1, <1>2, InitRegistry, PTL DEF Spec, ImplementsRegistry, Registry!Spec

\* What follows from the registry alone, for whatever implements it: nobody is locked out,
\* and a session ends with its account and, unless its login was overtaken, with the access
\* and the password it was granted on.
THEOREM RegistryPromise == Registry!Spec => []Registry!Promise
  <1> DEFINE T == /\ role \in [Users -> {"none", "deleted"} \cup Roles]
                  /\ enabled \in [Users -> BOOLEAN]
                  /\ DOMAIN password = Users
                  /\ \A s \in sessions : s.user \in Users
             P == Registry!Promise
  <1>1. Registry!Init => T /\ P
    BY DEF Registry!Init, Registry!Promise, Registry!Accounts, Registry!Exists, Registry!Roles
  <1>2. T /\ P /\ [Registry!Next]_(Registry!vars) => T' /\ P'
    <2> SUFFICES ASSUME T, P, [Registry!Next]_(Registry!vars) PROVE T' /\ P'
      OBVIOUS
    <2> USE DEF Registry!Promise, Registry!Accounts, Registry!EnabledAdmins, Registry!Exists,
                Registry!Roles, Roles
    <2>1. ASSUME NEW u \in Users, Registry!Bootstrap(u) PROVE T' /\ P'
      BY <2>1 DEF Registry!Bootstrap
    <2>2. ASSUME NEW u \in Users, NEW r \in Roles, Registry!Create(u, r) PROVE T' /\ P'
      BY <2>2 DEF Registry!Create
    <2>3. ASSUME NEW u \in Users, NEW r \in Roles, NEW access \in BOOLEAN,
                 Registry!Change(u, r, access)
          PROVE  T' /\ P'
      BY <2>3 DEF Registry!Change, Registry!Of
    <2>4. ASSUME NEW u \in Users, Registry!Reset(u) PROVE T' /\ P'
      BY <2>4 DEF Registry!Reset, Registry!Of
    <2>5. ASSUME NEW u \in Users, Registry!Delete(u) PROVE T' /\ P'
      BY <2>5 DEF Registry!Delete, Registry!Of
    <2>6. ASSUME NEW u \in Users, NEW t \in Tokens, NEW p, NEW login,
                 Registry!Login(u, t, p, login)
          PROVE  T' /\ P'
      BY <2>6 DEF Registry!Login
    <2>7. ASSUME NEW s \in sessions, Registry!Logout(s) PROVE T' /\ P'
      BY <2>7 DEF Registry!Logout
    <2>8. CASE UNCHANGED Registry!vars
      BY <2>8 DEF Registry!vars
    <2>. QED  BY <2>1, <2>2, <2>3, <2>4, <2>5, <2>6, <2>7, <2>8 DEF Registry!Next
  <1>3. T /\ P => Registry!Promise
    OBVIOUS
  <1>. QED  BY <1>1, <1>2, <1>3, PTL DEF Registry!Spec
=============================================================================
