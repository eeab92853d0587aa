------------------------ MODULE ConsoleSessionProofs ------------------------
(***************************************************************************)
(* What holds of ConsoleSession for every number of accounts, tokens,      *)
(* requests and faults.                                                    *)
(*                                                                         *)
(* The data in the cache are those of the person shown because the live    *)
(* requests for data were sent with a session of that person, and they     *)
(* were because the cookie is a session of that person, and it is because  *)
(* a login is under way only while nobody is signed in.                    *)
(***************************************************************************)
EXTENDS ConsoleSession, TLAPS

Held       == issued \cup {NoToken}
Owner(t, u) == Alive(t) => sessions[t] = u

\* Cookies are of tokens handed out, so that a new session is never an old cookie's.
TokensAreOld == jar \in Held /\ \A r \in requests : r.token \in Held

\* One login at a time, which is waited for and leads to a page.
OneLogin ==
    /\ \A r \in requests : r.kind = "login" => r.live /\ r.to \in Protected
    /\ \A r, s \in requests : r.kind = "login" /\ s.kind = "login" => r = s

AnswersNameOwners ==
    \A r \in requests : r.answer = "ok" /\ r.kind \in {"me", "login", "data"} =>
        r.who \in Users /\ Owner(r.token, r.who)

StartsAnonymous ==
    pending => /\ user = Nobody
               /\ \A r \in requests : r.kind = "me" /\ r.live /\ r.token = jar

LiveDataIsForSomebody == \A r \in requests : r.kind = "data" /\ r.live => user # Nobody

OfThePersonShown ==
    ~renamed =>
        /\ user # Nobody => Owner(jar, user)
        /\ \A r \in requests :
             /\ r.kind = "data" /\ r.live =>
                    Owner(r.token, user) /\ (r.answer = "ok" => r.who = user)
             /\ r.kind = "login" => user = Nobody

Inv ==
    /\ TokensAreOld /\ OneLogin /\ AnswersNameOwners /\ StartsAnonymous
    /\ LiveDataIsForSomebody /\ OfThePersonShown
    /\ SignedOutHoldsNothing /\ DataOfThePersonShown

-----------------------------------------------------------------------------
(***************************************************************************)
(* Types.                                                                  *)
(***************************************************************************)
LEMMA SentTyped ==
  ASSUME TypeOK, NEW k \in {"me", "data", "login", "logout", "reset"},
         NEW to \in Protected \cup {NoPage}
  PROVE  Sent(k, to) \in Request
  BY DEF TypeOK, Sent, Request

LEMMA AnsweredTyped ==
  ASSUME TypeOK, NEW r \in requests, NEW a \in {"none", "ok", "401", "refused", "failed"},
         NEW w \in Users \cup {Nobody}, NEW t \in Cookies, Answered(r, a, w, t)
  PROVE  requests' \subseteq Request
  BY DEF TypeOK, Answered, Request

LEMMA AnsweredOne ==
  ASSUME TypeOK, NEW r \in requests, NEW a \in {"none", "ok", "401", "refused", "failed"},
         NEW w \in Users \cup {Nobody}, NEW t \in Cookies, Answered(r, a, w, t)
  PROVE  \E n \in Request :
            /\ requests' = (requests \ {r}) \cup {n}
            /\ n.kind = r.kind /\ n.live = r.live /\ n.to = r.to
            /\ n.token = t /\ n.answer = a /\ n.who = w
  <1> DEFINE n == [r EXCEPT !.answer = a, !.who = w, !.token = t]
  <1>1. r \in Request
    BY DEF TypeOK
  <1>2. /\ n \in Request /\ n.kind = r.kind /\ n.live = r.live /\ n.to = r.to
        /\ n.token = t /\ n.answer = a /\ n.who = w
    BY <1>1 DEF Request
  <1>3. requests' = (requests \ {r}) \cup {n}
    BY DEF Answered
  <1> QED
    BY <1>2, <1>3

LEMMA SignOutTyped ==
  ASSUME TypeOK, NEW rest, rest \subseteq requests, SignOut(rest)
  PROVE  /\ user' \in Users \cup {Nobody} /\ cache' \subseteq Users
         /\ requests' \subseteq Request
  <1>1. ASSUME NEW x \in requests' PROVE x \in Request
    <2>1. PICK r \in rest : x = IF r.kind = "data" THEN [r EXCEPT !.live = FALSE] ELSE r
      BY <1>1 DEF SignOut
    <2>2. r \in Request
      BY DEF TypeOK
    <2>3. [r EXCEPT !.live = FALSE] \in Request
      BY <2>2 DEF Request
    <2> QED
      BY <2>1, <2>2, <2>3
  <1> QED
    BY <1>1 DEF SignOut

LEMMA InitTyped == Init => TypeOK
  <1> SUFFICES ASSUME Init PROVE TypeOK
    OBVIOUS
  <1>1. Sent("me", NoPage) \in Request
    BY DEF Init, Sent, Request, Cookies
  <1>2. \A p \in Paths : At(p) \in Location
    BY DEF At, Location
  <1>3. 0 \in 0 .. MaxFaults /\ 0 \in 0 .. MaxChanges
    BY ConsoleSessionAssumption
  <1>4. loc \in Location /\ next \in Location
    BY <1>2 DEF Init
  <1> QED
    BY <1>1, <1>3, <1>4 DEF Init, TypeOK, Cookies

LEMMA ServeTyped ==
  ASSUME TypeOK, NEW r \in requests, Serve(r)
  PROVE  TypeOK'
  <1> USE DEF TypeOK, tab
  <1>0. r \in Request
    OBVIOUS
  <1>1. CASE ServeSession(r)
    <2>1. CASE ~Alive(r.token)
      BY <1>0, <1>1, <2>1, AnsweredTyped DEF Serve, ServeSession, Request
    <2>2. CASE Alive(r.token)
      <3>1. sessions[r.token] \in Users /\ r.token \in Tokens
        BY <2>2 DEF Alive
      <3>2. requests' \subseteq Request
        BY <1>0, <1>1, <2>2, <3>1, AnsweredTyped DEF ServeSession, Request
      <3>3. sessions' \in [Tokens -> Users \cup {Nobody}]
        BY <1>1, <2>2, <3>1 DEF ServeSession
      <3> QED
        BY <1>1, <3>2, <3>3 DEF Serve, ServeSession
    <2> QED
      BY <2>1, <2>2
  <1>2. CASE ServeLogin(r)
    <2>1. requests' \subseteq Request
      BY <1>0, <1>2, AnsweredTyped DEF ServeLogin, Request, Cookies
    <2>2. sessions' \in [Tokens -> Users \cup {Nobody}] /\ issued' \subseteq Tokens
      BY <1>2 DEF ServeLogin
    <2> QED
      BY <2>1, <2>2 DEF Serve
  <1> QED
    BY <1>1, <1>2 DEF Serve

LEMMA ReceiveTyped ==
  ASSUME TypeOK, AnswersNameOwners, OneLogin, NEW r \in requests, Receive(r)
  PROVE  TypeOK'
  <1> USE DEF TypeOK
  <1>0. r \in Request /\ requests \ {r} \subseteq requests
    OBVIOUS
  <1>1. CASE Unauthorized(r)
    BY <1>0, <1>1, SignOutTyped DEF Receive, Unauthorized, Cookies
  <1>2. CASE TakeMe(r)
    BY <1>0, <1>2 DEF Receive, TakeMe, Request
  <1>3. CASE TakeData(r)
    <2>1. cache' \subseteq Users
      BY <1>3 DEF TakeData, AnswersNameOwners
    <2> QED
      BY <1>3, <2>1 DEF Receive, TakeData
  <1>4. CASE TakeLogin(r)
    <2>1. At(r.to) \in Location
      BY <1>4 DEF TakeLogin, OneLogin, At, Location, Paths
    <2>2. r.token \in Cookies /\ r.who \in Users \cup {Nobody}
      BY <1>0 DEF Request
    <2>3. /\ jar' \in Cookies /\ user' \in Users \cup {Nobody} /\ pending' \in BOOLEAN
          /\ next' \in Location /\ requests' \subseteq Request
      BY <1>4, <2>1, <2>2 DEF TakeLogin
    <2> QED
      BY <1>4, <2>3 DEF Receive, TakeLogin
  <1>5. CASE TakeLogout(r)
    BY <1>0, <1>5, SignOutTyped DEF Receive, TakeLogout, Cookies, At, Location, Paths
  <1>6. CASE TakeReset(r)
    BY <1>0, <1>6, SignOutTyped DEF Receive, TakeReset
  <1> QED
    BY <1>1, <1>2, <1>3, <1>4, <1>5, <1>6 DEF Receive

LEMMA Typing == TypeOK /\ AnswersNameOwners /\ OneLogin /\ [Next]_vars => TypeOK'
  <1> SUFFICES ASSUME TypeOK, AnswersNameOwners, OneLogin, [Next]_vars PROVE TypeOK'
    OBVIOUS
  <1> USE DEF TypeOK
  <1>1. ASSUME NEW k \in {"me", "data", "login", "logout", "reset"},
               NEW to \in Protected \cup {NoPage}, Send(k, to) \/ requests' = requests \cup {Sent(k, to)}
        PROVE  requests' \subseteq Request
    BY <1>1, SentTyped DEF Send
  <1>2. CASE Login
    <2>1. (IF loc.from = NoPage THEN "home" ELSE loc.from) \in Protected \cup {NoPage}
      BY DEF Location, Protected
    <2> QED
      BY <1>1, <1>2, <2>1 DEF Login, Idle, tab
  <1>3. CASE Logout
    BY <1>1, <1>3 DEF Logout, Idle, tab
  <1>4. CASE Fetch
    BY <1>1, <1>4 DEF Fetch, Idle, tab
  <1>5. CASE ResetOwnPassword
    BY <1>1, <1>5 DEF ResetOwnPassword, Idle, tab
  <1>6. CASE RefreshMe
    <2>1. ASSUME NEW x \in requests' PROVE x \in Request
      <3>1. x = Sent("me", NoPage)
            \/ \E r \in requests : x = IF r.kind = "me" THEN [r EXCEPT !.live = FALSE] ELSE r
        BY <1>6, <2>1 DEF RefreshMe
      <3>2. ASSUME NEW r \in requests PROVE r \in Request /\ [r EXCEPT !.live = FALSE] \in Request
        BY DEF Request
      <3> QED
        BY <3>1, <3>2, SentTyped
    <2>2. changes' \in 0 .. MaxChanges
      BY <1>6, ConsoleSessionAssumption DEF RefreshMe
    <2> QED
      BY <1>6, <2>1, <2>2 DEF RefreshMe, Idle, tab
  <1>7. CASE Reconnect
    <2>1. changes' \in 0 .. MaxChanges
      BY <1>7, ConsoleSessionAssumption DEF Reconnect
    <2> QED
      BY <1>1, <1>7, <2>1 DEF Reconnect, Idle, tab
  <1>8. ASSUME NEW p \in Paths, Navigate(p) PROVE TypeOK'
    <2>1. At(p) \in Location
      BY DEF At, Location
    <2> QED
      BY <1>8, <2>1 DEF Navigate, Redirect, browser
  <1>9. ASSUME NEW p \in Paths, Load(p) PROVE TypeOK'
    <2>1. At(p) \in Location /\ Sent("me", NoPage) \in Request
      BY SentTyped DEF At, Location
    <2> QED
      BY <1>9, <2>1 DEF Load
  <1>10. CASE Guard
    <2>1. next' \in Location
      BY <1>10 DEF Guard, ProtectedRoute, PublicOnlyRoute, AdminRoute, Redirect, At, Location,
                   Paths, Protected
    <2> QED
      BY <1>10, <2>1 DEF Guard, browser
  <1>11. CASE Commit
    BY <1>11 DEF Commit, browser
  <1>12. ASSUME NEW r \in requests, Serve(r) PROVE TypeOK'
    BY <1>12, ServeTyped
  <1>13. ASSUME NEW r \in requests, Fail(r) PROVE TypeOK'
    <2>1. r.token \in Cookies
      BY DEF Request
    <2>2. requests' \subseteq Request
      BY <1>13, <2>1, AnsweredTyped DEF Fail
    <2>3. faults' \in 0 .. MaxFaults
      BY <1>13, ConsoleSessionAssumption DEF Fail
    <2> QED
      BY <1>13, <2>2, <2>3 DEF Fail, tab
  <1>14. ASSUME NEW r \in requests, Receive(r) PROVE TypeOK'
    BY <1>14, ReceiveTyped
  <1>15. ASSUME NEW t \in Tokens, EndSession(t) PROVE TypeOK'
    <2>1. changes' \in 0 .. MaxChanges
      BY <1>15, ConsoleSessionAssumption DEF EndSession
    <2> QED
      BY <1>15, <2>1 DEF EndSession, browser, tab
  <1>16. CASE UNCHANGED vars
    BY <1>16 DEF vars
  <1> QED
    BY <1>2, <1>3, <1>4, <1>5, <1>6, <1>7, <1>8, <1>9, <1>10, <1>11, <1>12, <1>13, <1>14, <1>15,
       <1>16 DEF Next, Act

-----------------------------------------------------------------------------
(***************************************************************************)
(* Whose data the cache holds.                                             *)
(***************************************************************************)
LEMMA InitInv == Init => Inv
  BY DEF Init, Inv, TokensAreOld, Held, OneLogin, AnswersNameOwners, StartsAnonymous,
         LiveDataIsForSomebody, OfThePersonShown, SignedOutHoldsNothing, DataOfThePersonShown, Sent

\* Routes change nothing of it.
LEMMA QuietKeeps ==
  ASSUME Inv, UNCHANGED <<sessions, issued, jar, requests, pending, user, cache, renamed>>
  PROVE  Inv'
  BY DEF Inv, TokensAreOld, Held, OneLogin, AnswersNameOwners, StartsAnonymous, Owner, Alive,
         LiveDataIsForSomebody, OfThePersonShown, SignedOutHoldsNothing, DataOfThePersonShown

\* A request is sent with the cookie of the moment.
LEMMA SendKeeps ==
  ASSUME TypeOK, Inv, ~pending,
         NEW k \in {"me", "data", "login", "logout", "reset"}, NEW to, Send(k, to),
         k = "login" => user = Nobody /\ to \in Protected,
         k = "data" => user # Nobody,
         UNCHANGED <<sessions, issued, jar, pending, user, cache, renamed>>
  PROVE  Inv'
  <1> DEFINE new == Sent(k, to)
  <1>1. /\ requests' = requests \cup {new} /\ new.kind = k /\ new.answer = "none" /\ new.token = jar
        /\ new.live = TRUE /\ new.to = to
    BY DEF Send, Sent
  <1>2. k = "login" => \A r \in requests : r.kind # "login"
    BY DEF Send, Waiting, Inv, OneLogin
  <1> HIDE DEF new
  <1> QED
    BY <1>1, <1>2 DEF Inv, TokensAreOld, Held, OneLogin, AnswersNameOwners, StartsAnonymous, Owner,
         Alive, LiveDataIsForSomebody, OfThePersonShown, SignedOutHoldsNothing, DataOfThePersonShown

\* The tab forgets the person: whatever happens to the cookie.
LEMMA SignOutKeeps ==
  ASSUME TypeOK, Inv, NEW r \in requests, SignOut(requests \ {r}),
         jar' \in {jar, NoToken}, pending' \in BOOLEAN,
         pending' => pending /\ jar' = jar,
         UNCHANGED <<sessions, issued, renamed>>
  PROVE  Inv'
  <1>1. \A x \in requests' : \E s \in requests :
            /\ x.kind = s.kind /\ x.token = s.token /\ x.answer = s.answer /\ x.who = s.who
            /\ x.to = s.to /\ (s.kind # "data" => x = s)
            /\ s.kind = "data" => x.live = FALSE
    BY DEF SignOut, TypeOK, Request
  <1>2. user' = Nobody /\ cache' = {}
    BY DEF SignOut
  <1> QED
    BY <1>1, <1>2 DEF Inv, TokensAreOld, Held, OneLogin, AnswersNameOwners, StartsAnonymous, Owner,
         Alive, LiveDataIsForSomebody, OfThePersonShown, SignedOutHoldsNothing, DataOfThePersonShown

LEMMA ServeKeeps ==
  ASSUME TypeOK, Inv, NEW r \in requests, Serve(r)
  PROVE  Inv'
  <1>0. r \in Request /\ r.answer = "none" /\ UNCHANGED <<jar, pending, user, cache, renamed>>
    BY DEF TypeOK, Serve, tab
  <1>1. CASE ServeSession(r)
    <2>1. PICK a \in {"401", "ok"}, w \in Users \cup {Nobody} :
            /\ Answered(r, a, w, r.token)
            /\ a = "ok" => Alive(r.token) /\ w = sessions[r.token] /\ w \in Users
      BY <1>0, <1>1 DEF ServeSession, Alive, TypeOK
    <2>2. \A t \in Tokens : sessions'[t] \in {sessions[t], Nobody}
      BY <1>1 DEF ServeSession, Alive, TypeOK
    <2>3. \A t, u : Owner(t, u) => Owner(t, u)'
      BY <2>2, ConsoleSessionAssumption DEF Owner, Alive
    <2>4. Owner(r.token, w)' \/ a # "ok"
      BY <2>1, <2>3 DEF Owner
    <2>5. issued' = issued /\ r.kind # "login"
      BY <1>1 DEF ServeSession
    <2>6. PICK n \in Request :
            /\ requests' = (requests \ {r}) \cup {n}
            /\ n.kind = r.kind /\ n.live = r.live /\ n.to = r.to /\ n.token = r.token
            /\ n.answer = a /\ n.who = w
      <3>1. r.token \in Cookies
        BY <1>0 DEF Request
      <3> QED
        BY <2>1, <3>1, AnsweredOne
    <2>7. TokensAreOld' /\ OneLogin' /\ StartsAnonymous' /\ LiveDataIsForSomebody'
          /\ SignedOutHoldsNothing' /\ DataOfThePersonShown'
      BY <1>0, <2>5, <2>6 DEF Inv, TokensAreOld, Held, OneLogin, StartsAnonymous,
           LiveDataIsForSomebody, SignedOutHoldsNothing, DataOfThePersonShown
    <2>8. AnswersNameOwners'
      BY <2>1, <2>3, <2>4, <2>6 DEF Inv, AnswersNameOwners
    <2>9. a = "ok" /\ Owner(r.token, user) => w = user
      BY <2>1 DEF Owner
    <2>10. OfThePersonShown'
      BY <1>0, <2>3, <2>5, <2>6, <2>9 DEF Inv, OfThePersonShown
    <2> QED
      BY <2>7, <2>8, <2>10 DEF Inv
  <1>2. CASE ServeLogin(r)
    <2>1. CASE Answered(r, "refused", Nobody, r.token) /\ UNCHANGED <<sessions, issued>>
      <3>1. PICK n \in Request :
              /\ requests' = (requests \ {r}) \cup {n}
              /\ n.kind = r.kind /\ n.live = r.live /\ n.to = r.to /\ n.token = r.token
              /\ n.answer = "refused"
        <4>1. r.token \in Cookies
          BY <1>0 DEF Request
        <4> QED
          BY <2>1, <4>1, AnsweredOne
      <3> QED
        BY <1>0, <1>2, <2>1, <3>1 DEF Inv, TokensAreOld, Held, OneLogin, AnswersNameOwners,
             StartsAnonymous, Owner, Alive, LiveDataIsForSomebody, OfThePersonShown,
             SignedOutHoldsNothing, DataOfThePersonShown
    <2>2. ASSUME NEW t \in Tokens \ issued, NEW u \in Users,
                 sessions' = [sessions EXCEPT ![t] = u], issued' = issued \cup {t},
                 Answered(r, "ok", u, t)
          PROVE  Inv'
      <3>1. PICK n \in Request :
              /\ requests' = (requests \ {r}) \cup {n}
              /\ n.kind = r.kind /\ n.live = r.live /\ n.to = r.to /\ n.token = t
              /\ n.answer = "ok" /\ n.who = u
        BY <2>2, AnsweredOne DEF Cookies
      <3>2. r.kind = "login" /\ r.live
        BY <1>2 DEF ServeLogin, Inv, OneLogin
      <3>3. sessions'[t] = u /\ Owner(t, u)'
        BY <2>2 DEF Owner, Alive, TypeOK
      <3>4. \A v \in Held : \A w : Owner(v, w) => Owner(v, w)'
        BY <2>2, ConsoleSessionAssumption DEF Held, Owner, Alive, TypeOK
      <3>5. TokensAreOld'
        BY <1>0, <2>2, <3>1 DEF Inv, TokensAreOld, Held
      <3>6. OneLogin' /\ StartsAnonymous' /\ LiveDataIsForSomebody'
            /\ SignedOutHoldsNothing' /\ DataOfThePersonShown'
        BY <1>0, <3>1, <3>2 DEF Inv, OneLogin, StartsAnonymous,
             LiveDataIsForSomebody, SignedOutHoldsNothing, DataOfThePersonShown
      <3>7. AnswersNameOwners'
        BY <3>1, <3>3, <3>4 DEF Inv, AnswersNameOwners, TokensAreOld
      <3>8. OfThePersonShown'
        BY <1>0, <3>1, <3>2, <3>4 DEF Inv, OfThePersonShown, TokensAreOld
      <3> QED
        BY <3>5, <3>6, <3>7, <3>8 DEF Inv
    <2> QED
      BY <1>2, <2>1, <2>2 DEF ServeLogin
  <1> QED
    BY <1>1, <1>2 DEF Serve

LEMMA FailKeeps ==
  ASSUME TypeOK, Inv, NEW r \in requests, Fail(r)
  PROVE  Inv'
  <1>1. r \in Request /\ UNCHANGED <<sessions, issued, jar, pending, user, cache, renamed>>
    BY DEF TypeOK, Fail, tab
  <1>2. PICK n \in Request :
          /\ requests' = (requests \ {r}) \cup {n}
          /\ n.kind = r.kind /\ n.live = r.live /\ n.to = r.to /\ n.token = r.token
          /\ n.answer # "ok"
    <2>1. r.token \in Cookies
      BY <1>1 DEF Request
    <2>2. PICK a \in {"401", "failed"} : Answered(r, a, Nobody, r.token)
      BY DEF Fail
    <2> QED
      BY <2>1, <2>2, AnsweredOne
  <1> QED
    BY <1>1, <1>2 DEF Inv, TokensAreOld, Held, OneLogin, AnswersNameOwners, StartsAnonymous, Owner,
         Alive, LiveDataIsForSomebody, OfThePersonShown, SignedOutHoldsNothing, DataOfThePersonShown

LEMMA EndSessionKeeps ==
  ASSUME TypeOK, Inv, NEW t \in Tokens, EndSession(t)
  PROVE  Inv'
  <1>1. UNCHANGED <<issued, jar, requests, pending, user, cache, renamed>>
    BY DEF EndSession, browser, tab
  <1>2. \A v, u : Owner(v, u) => Owner(v, u)'
    BY ConsoleSessionAssumption DEF EndSession, Owner, Alive, TypeOK
  <1> QED
    BY <1>1, <1>2 DEF Inv, TokensAreOld, Held, OneLogin, AnswersNameOwners, StartsAnonymous,
         LiveDataIsForSomebody, OfThePersonShown, SignedOutHoldsNothing, DataOfThePersonShown

LEMMA ReceiveKeeps ==
  ASSUME TypeOK, Inv, NEW r \in requests, Receive(r)
  PROVE  Inv'
  <1>0. UNCHANGED <<sessions, issued>> /\ r \in Request
    BY DEF Receive, TypeOK
  <1> USE DEF Held, Owner, Alive
  <1>1. CASE Unauthorized(r)
    <2>1. pending' \in BOOLEAN /\ (pending' => pending /\ jar' = jar)
      BY <1>1 DEF Unauthorized, Inv, StartsAnonymous, TypeOK
    <2> QED
      BY <1>0, <1>1, <2>1, SignOutKeeps DEF Unauthorized
  <1>2. CASE TakeMe(r)
    <2>1. requests' = requests \ {r} /\ UNCHANGED <<jar, cache>>
      BY <1>2 DEF TakeMe
    <2>2. CASE r.live /\ r.answer = "ok"
      <3>1. /\ user' = r.who /\ pending' = FALSE
            /\ renamed' = (renamed \/ (~pending /\ r.who # user))
        BY <1>2, <2>2 DEF TakeMe
      <3>2. r.who \in Users /\ Owner(r.token, r.who)
        BY <1>2, <2>2 DEF TakeMe, Inv, AnswersNameOwners
      <3>3. TokensAreOld' /\ OneLogin' /\ AnswersNameOwners' /\ StartsAnonymous'
        BY <1>0, <2>1, <3>1 DEF Inv, TokensAreOld, OneLogin, AnswersNameOwners, StartsAnonymous
      <3>4. LiveDataIsForSomebody' /\ SignedOutHoldsNothing'
        BY <3>1, <3>2, ConsoleSessionAssumption DEF LiveDataIsForSomebody, SignedOutHoldsNothing
      <3>5. CASE pending
        BY <1>0, <2>1, <3>1, <3>2, <3>3, <3>4, <3>5 DEF Inv, StartsAnonymous, OfThePersonShown,
           SignedOutHoldsNothing, DataOfThePersonShown
      <3>6. CASE ~pending
        BY <1>0, <2>1, <3>1, <3>2, <3>3, <3>4, <3>6 DEF Inv, OfThePersonShown, DataOfThePersonShown
      <3> QED
        BY <3>5, <3>6 DEF TypeOK
    <2>3. CASE ~(r.live /\ r.answer = "ok")
      <3>1. UNCHANGED <<user, renamed>> /\ (pending' => pending)
        BY <1>2, <2>3 DEF TakeMe
      <3> QED
        BY <1>0, <2>1, <3>1 DEF Inv, TokensAreOld, OneLogin, AnswersNameOwners, StartsAnonymous,
           LiveDataIsForSomebody, OfThePersonShown, SignedOutHoldsNothing, DataOfThePersonShown
    <2> QED
      BY <2>2, <2>3
  <1>3. CASE TakeData(r)
    <2>1. requests' = requests \ {r} /\ UNCHANGED <<jar, pending, user, renamed>>
      BY <1>3 DEF TakeData
    <2>2. TokensAreOld' /\ OneLogin' /\ AnswersNameOwners' /\ StartsAnonymous'
          /\ LiveDataIsForSomebody' /\ OfThePersonShown'
      BY <1>0, <2>1 DEF Inv, TokensAreOld, OneLogin, AnswersNameOwners, StartsAnonymous,
         LiveDataIsForSomebody, OfThePersonShown
    <2>3. SignedOutHoldsNothing' /\ DataOfThePersonShown'
      BY <1>3, <2>1 DEF TakeData, Inv, LiveDataIsForSomebody, OfThePersonShown,
         SignedOutHoldsNothing, DataOfThePersonShown
    <2> QED
      BY <2>2, <2>3 DEF Inv
  <1>4. CASE TakeLogin(r)
    <2>1. requests' = requests \ {r} /\ UNCHANGED <<cache, renamed>> /\ r.kind = "login"
      BY <1>4 DEF TakeLogin
    <2>2. CASE r.answer = "ok"
      <3>1. jar' = r.token /\ user' = r.who /\ pending' = FALSE
        BY <1>4, <2>2 DEF TakeLogin
      <3>2. r.who \in Users /\ Owner(r.token, r.who) /\ r.token \in Held
        BY <2>1, <2>2 DEF Inv, AnswersNameOwners, TokensAreOld
      <3>3. TokensAreOld' /\ OneLogin' /\ AnswersNameOwners' /\ StartsAnonymous'
        BY <1>0, <2>1, <3>1, <3>2 DEF Inv, TokensAreOld, OneLogin, AnswersNameOwners, StartsAnonymous
      <3>4. LiveDataIsForSomebody' /\ SignedOutHoldsNothing'
        BY <3>1, <3>2, ConsoleSessionAssumption DEF LiveDataIsForSomebody, SignedOutHoldsNothing
      <3>5. ~renamed => user = Nobody /\ cache = {}
        BY <2>1 DEF Inv, OfThePersonShown, SignedOutHoldsNothing
      <3>6. ~renamed => \A s \in requests' : ~(s.kind = "data" /\ s.live) /\ s.kind # "login"
        BY <2>1, <3>5 DEF Inv, LiveDataIsForSomebody, OneLogin
      <3>7. OfThePersonShown' /\ DataOfThePersonShown'
        BY <1>0, <2>1, <3>1, <3>2, <3>5, <3>6 DEF OfThePersonShown, DataOfThePersonShown
      <3> QED
        BY <3>3, <3>4, <3>7 DEF Inv
    <2>3. CASE r.answer # "ok"
      <3>1. UNCHANGED <<jar, user, pending>>
        BY <1>4, <2>3 DEF TakeLogin
      <3> QED
        BY <1>0, <2>1, <3>1 DEF Inv, TokensAreOld, OneLogin, AnswersNameOwners, StartsAnonymous,
           LiveDataIsForSomebody, OfThePersonShown, SignedOutHoldsNothing, DataOfThePersonShown
    <2> QED
      BY <2>2, <2>3
  <1>5. CASE TakeLogout(r)
    <2>1. ~pending
      BY <1>5 DEF TakeLogout, Inv, StartsAnonymous
    <2>2. SignOut(requests \ {r}) /\ jar' \in {jar, NoToken} /\ UNCHANGED <<pending, renamed>>
      BY <1>5 DEF TakeLogout
    <2> QED
      BY <1>0, <2>1, <2>2, SignOutKeeps DEF TypeOK
  <1>6. CASE TakeReset(r)
    <2>1. UNCHANGED <<jar, pending, renamed>>
      BY <1>6 DEF TakeReset
    <2>2. CASE r.answer = "ok"
      BY <1>0, <1>6, <2>1, <2>2, SignOutKeeps DEF TakeReset, TypeOK
    <2>3. CASE r.answer # "ok"
      <3>1. requests' = requests \ {r} /\ UNCHANGED <<user, cache>>
        BY <1>6, <2>3 DEF TakeReset
      <3> QED
        BY <1>0, <2>1, <3>1 DEF Inv, TokensAreOld, OneLogin, AnswersNameOwners, StartsAnonymous,
           LiveDataIsForSomebody, OfThePersonShown, SignedOutHoldsNothing, DataOfThePersonShown
    <2> QED
      BY <2>2, <2>3
  <1> QED
    BY <1>1, <1>2, <1>3, <1>4, <1>5, <1>6 DEF Receive

\* The older question is not wanted any more; no answer to it counts.
LEMMA RefreshMeKeeps ==
  ASSUME TypeOK, Inv, RefreshMe
  PROVE  Inv'
  <1>1. UNCHANGED <<sessions, issued, jar, pending, user, cache, renamed>> /\ ~pending
    BY DEF RefreshMe, Idle, tab, Mounted
  <1>2. \A x \in requests' : \/ x.kind = "me" /\ x.answer = "none" /\ x.token = jar
                             \/ \E s \in requests :
                                  /\ x.kind = s.kind /\ x.token = s.token /\ x.answer = s.answer
                                  /\ x.who = s.who /\ (s.kind # "me" => x = s)
    <2>1. \A s \in requests : s \in Request
      BY DEF TypeOK
    <2> QED
      BY <2>1 DEF RefreshMe, Sent, Request
  <1> QED
    BY <1>1, <1>2 DEF Inv, TokensAreOld, Held, OneLogin, AnswersNameOwners, StartsAnonymous, Owner,
         Alive, LiveDataIsForSomebody, OfThePersonShown, SignedOutHoldsNothing, DataOfThePersonShown

LEMMA LoadKeeps ==
  ASSUME TypeOK, Inv, NEW p \in Paths, Load(p)
  PROVE  Inv'
  BY DEF Load, Sent, Inv, TokensAreOld, Held, OneLogin, AnswersNameOwners, StartsAnonymous, Owner,
         Alive, LiveDataIsForSomebody, OfThePersonShown, SignedOutHoldsNothing, DataOfThePersonShown

LEMMA Step == TypeOK /\ Inv /\ [Next]_vars => Inv'
  <1> SUFFICES ASSUME TypeOK, Inv, [Next]_vars PROVE Inv'
    OBVIOUS
  <1>1. CASE Login
    <2>1. (IF loc.from = NoPage THEN "home" ELSE loc.from) \in Protected
      BY DEF TypeOK, Location, Protected
    <2> QED
      BY <1>1, <2>1, SendKeeps DEF Login, Idle, tab
  <1>2. CASE Logout
    BY <1>2, SendKeeps DEF Logout, Idle, tab, Mounted
  <1>3. CASE Fetch
    BY <1>3, SendKeeps DEF Fetch, Idle, tab, Mounted
  <1>4. CASE ResetOwnPassword
    BY <1>4, SendKeeps DEF ResetOwnPassword, Idle, tab, Mounted
  <1>5. CASE RefreshMe
    BY <1>5, RefreshMeKeeps
  <1>6. CASE Reconnect
    BY <1>6, SendKeeps DEF Reconnect, Idle, tab
  <1>7. ASSUME NEW p \in Paths, Navigate(p) PROVE Inv'
    BY <1>7, QuietKeeps DEF Navigate, browser
  <1>8. ASSUME NEW p \in Paths, Load(p) PROVE Inv'
    BY <1>8, LoadKeeps
  <1>9. CASE Guard
    BY <1>9, QuietKeeps DEF Guard, browser
  <1>10. CASE Commit
    BY <1>10, QuietKeeps DEF Commit, browser
  <1>11. ASSUME NEW r \in requests, Serve(r) \/ Fail(r) \/ Receive(r) PROVE Inv'
    BY <1>11, ServeKeeps, FailKeeps, ReceiveKeeps
  <1>12. ASSUME NEW t \in Tokens, EndSession(t) PROVE Inv'
    BY <1>12, EndSessionKeeps
  <1>13. CASE UNCHANGED vars
    BY <1>13, QuietKeeps DEF vars
  <1> QED
    BY <1>1, <1>2, <1>3, <1>4, <1>5, <1>6, <1>7, <1>8, <1>9, <1>10, <1>11, <1>12, <1>13
    DEF Next, Act

LEMMA Inductive == Spec => [](TypeOK /\ Inv)
  <1>1. Init => TypeOK /\ Inv
    BY InitTyped, InitInv
  <1>2. TypeOK /\ Inv /\ [Next]_vars => (TypeOK /\ Inv)'
    <2>1. Inv => AnswersNameOwners /\ OneLogin
      BY DEF Inv
    <2> QED
      BY <2>1, Typing, Step
  <1> QED
    BY <1>1, <1>2, PTL DEF Spec

-----------------------------------------------------------------------------
\* Every variable of the tab, the browser and the server keeps its type.
THEOREM TypeCorrect == Spec => []TypeOK
  BY Inductive, PTL

(***************************************************************************)
(* The tab of a signed-out visitor holds no data, for any number of        *)
(* sessions and of requests answered late, twice or not at all.            *)
(***************************************************************************)
THEOREM NothingRemains == Spec => []SignedOutHoldsNothing
  <1>1. Inv => SignedOutHoldsNothing
    BY DEF Inv
  <1> QED
    BY <1>1, Inductive, PTL

(***************************************************************************)
(* The cached data are those of the person shown, unless a repeated        *)
(* /auth/me changed that person.                                           *)
(***************************************************************************)
THEOREM OwnData == Spec => []DataOfThePersonShown
  <1>1. Inv => DataOfThePersonShown
    BY DEF Inv
  <1> QED
    BY <1>1, Inductive, PTL
=============================================================================
