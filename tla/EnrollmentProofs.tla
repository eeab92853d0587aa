-------------------------- MODULE EnrollmentProofs --------------------------
(***************************************************************************)
(* Theorems about Enrollment, for every set of hosts, enrollments,         *)
(* credentials and names.  The inductive invariant is IInv: the tables     *)
(* agree with each other (TableInv), and every credential belongs to one   *)
(* host and one pairing token (UseInv).                                    *)
(***************************************************************************)
EXTENDS Enrollment, TLAPS

\* The tables agree.
TableInv ==
    /\ \A e \in Enrollments : status[e] = "claimed" <=> owner[e] # NoName
    /\ \A e \in Enrollments : status[e] = "claimed" => owner[e] = name[e] /\ owner[e] \in agents
    /\ \A e \in Enrollments : status[e] = "approved" => name[e] \in Names
    /\ \A e \in Enrollments : e \in expired => status[e] # "none"
    /\ \A e, f \in Enrollments :
           status[e] = "claimed" /\ status[f] = "claimed" /\ owner[e] = owner[f] => e = f
    /\ \A a \in agents : \E e \in Enrollments : status[e] = "claimed" /\ owner[e] = a
    /\ \A a \in agents : \E c \in Credentials : holder[c] = a
    /\ \A c \in Credentials : holder[c] # NoName => holder[c] \in agents
    /\ \A c, d \in Credentials : holder[c] # NoName /\ holder[c] = holder[d] => c = d

Live(h) == process[h] \in {"waiting", "claimed"}

\* c was accepted for e, or not at all.
Settled(e, c) == holder[c] # NoName => status[e] = "claimed" /\ owner[e] = holder[c]

SettledNext(e, c) ==
    holder'[c] # NoName => status'[e] = "claimed" /\ owner'[e] = holder'[c]

\* A credential is used by one process, with one token, and known to no other
\* host; what it was accepted for is what it is used for.
UseInv ==
    /\ \A h \in Hosts : Live(h) \/ credential[h] = NoCredential
    /\ \A h, k \in Hosts : Live(h) /\ Live(k) /\ credential[h] = credential[k] => h = k
    /\ \A h \in Hosts : Live(h) => identity[h] = NoIdentity
    /\ \A r \in late, h \in Hosts :
           Live(h) /\ r.credential = credential[h] => r.token = token[h]
    /\ \A r, s \in late : r.credential = s.credential => r.token = s.token
    /\ \A h \in Hosts : Live(h) => Settled(token[h], credential[h])
    /\ \A r \in late : Settled(r.token, r.credential)
    /\ \A h \in Hosts : process[h] = "claimed" => holder[credential[h]] = answer[h]
    /\ \A h \in Hosts : identity[h] # NoIdentity =>
           holder[identity[h].credential] = identity[h].agent
    /\ \A h, k \in Hosts : identity[h] # NoIdentity /\ Live(k) =>
           identity[h].credential # credential[k]
    /\ \A h, k \in Hosts : identity[h] # NoIdentity /\ identity[k] # NoIdentity /\
           identity[h].credential = identity[k].credential => h = k

IInv == TypeOK /\ TableInv /\ UseInv

-----------------------------------------------------------------------------
\* The types hold at first and every step keeps them.
LEMMA TypeInit == Init => TypeOK
BY EnrollmentAssumption DEF Init, TypeOK, Status, Claim

LEMMA ClaimTypes ==
    ASSUME TypeOK, NEW e \in Enrollments, NEW c \in Credentials,
           ClaimAgentEnrollment(e, c), TableInv
    PROVE  /\ status' \in [Enrollments -> Status]
           /\ expired' \subseteq Enrollments
           /\ name' \in [Enrollments -> Names \cup {NoName}]
           /\ owner' \in [Enrollments -> Names \cup {NoName}]
           /\ agents' \subseteq Names
           /\ holder' \in [Credentials -> Names \cup {NoName}]
<1>1. CASE Admits(e, c)
  <2>1. name[e] \in Names
    BY <1>1 DEF Admits, TableInv
  <2> QED BY <1>1, <2>1 DEF ClaimAgentEnrollment, TypeOK, Status
<1>2. CASE ~Admits(e, c)
  BY <1>2 DEF ClaimAgentEnrollment, TypeOK, tableVars
<1> QED BY <1>1, <1>2

LEMMA TypeStep == TypeOK /\ TableInv /\ [Next]_vars => TypeOK'
<1> SUFFICES ASSUME TypeOK, TableInv, [Next]_vars PROVE TypeOK'
  OBVIOUS
<1> USE DEF Status, Claim
<1>1. ASSUME NEW e \in Enrollments, NEW n \in Names, Preauthorize(e, n) PROVE TypeOK'
  BY <1>1 DEF TypeOK, Preauthorize, CreateAgentEnrollment, processVars
<1>2. ASSUME NEW e \in Enrollments, NEW n \in Names, ApproveAgentEnrollment(e, n) PROVE TypeOK'
  BY <1>2 DEF TypeOK, ApproveAgentEnrollment, processVars
<1>3. ASSUME NEW e \in Enrollments, RejectAgentEnrollment(e) PROVE TypeOK'
  BY <1>3 DEF TypeOK, RejectAgentEnrollment, processVars
<1>4. ASSUME NEW e \in Enrollments, Expire(e) PROVE TypeOK'
  BY <1>4 DEF TypeOK, Expire, processVars
<1>5. ASSUME NEW h \in Hosts, NEW e \in Enrollments, ConnectFails(h, e) PROVE TypeOK'
  BY <1>5 DEF TypeOK, ConnectFails, CreateAgentEnrollment, processVars
<1>6. ASSUME NEW h \in Hosts, NEW e \in Enrollments, NEW c \in Credentials, Connect(h, e, c)
      PROVE  TypeOK'
  BY <1>6 DEF TypeOK, Connect, CreateAgentEnrollment, Wait
<1>7. ASSUME NEW h \in Hosts, NEW e \in Enrollments, NEW c \in Credentials, Join(h, e, c)
      PROVE  TypeOK'
  BY <1>7 DEF TypeOK, Join, Wait, tableVars
<1>8. ASSUME NEW h \in Hosts, Resume(h) PROVE TypeOK'
  BY <1>8 DEF TypeOK, Resume, tableVars
<1>9. ASSUME NEW h \in Hosts, ClaimAnswered(h) PROVE TypeOK'
  <2> DEFINE e == token[h]
             c == credential[h]
  <2>1. process[h] = "waiting" /\ e \in Enrollments /\ c \in Credentials
    BY <1>9 DEF ClaimAnswered, TypeOK
  <2>2. ClaimAgentEnrollment(e, c) /\ (Admits(e, c) \/ Repeats(e, c))
    BY <1>9 DEF ClaimAnswered
  <2>3. name[e] \in Names
    BY <2>1, <2>2 DEF Admits, Repeats, TableInv, TypeOK
  <2> HIDE DEF e, c
  <2>4. /\ status' \in [Enrollments -> Status]
        /\ expired' \subseteq Enrollments
        /\ name' \in [Enrollments -> Names \cup {NoName}]
        /\ owner' \in [Enrollments -> Names \cup {NoName}]
        /\ agents' \subseteq Names
        /\ holder' \in [Credentials -> Names \cup {NoName}]
    BY <2>1, <2>2, ClaimTypes
  <2>5. /\ process' = [process EXCEPT ![h] = "claimed"]
        /\ answer' = [answer EXCEPT ![h] = name[e]]
        /\ UNCHANGED <<token, credential, late, identity>>
    BY <1>9 DEF ClaimAnswered, e
  <2> QED BY <2>1, <2>3, <2>4, <2>5 DEF TypeOK
<1>10. ASSUME NEW h \in Hosts, ClaimRefused(h) PROVE TypeOK'
  BY <1>10 DEF TypeOK, ClaimRefused, Exit, tableVars
<1>11. ASSUME NEW h \in Hosts, ClaimTimesOut(h) PROVE TypeOK'
  BY <1>11 DEF TypeOK, ClaimTimesOut, tableVars, processVars
<1>12. ASSUME NEW h \in Hosts, SaveIdentity(h) PROVE TypeOK'
  BY <1>12 DEF TypeOK, SaveIdentity, Exit, tableVars
<1>13. ASSUME NEW h \in Hosts, Crash(h) PROVE TypeOK'
  BY <1>13 DEF TypeOK, Crash, Exit, tableVars
<1>14. ASSUME NEW r \in late, LateClaim(r) PROVE TypeOK'
  <2>1. r.token \in Enrollments /\ r.credential \in Credentials
    BY DEF TypeOK
  <2>2. /\ status' \in [Enrollments -> Status]
        /\ expired' \subseteq Enrollments
        /\ name' \in [Enrollments -> Names \cup {NoName}]
        /\ owner' \in [Enrollments -> Names \cup {NoName}]
        /\ agents' \subseteq Names
        /\ holder' \in [Credentials -> Names \cup {NoName}]
    <3>1. CASE ClaimAgentEnrollment(r.token, r.credential)
      BY <3>1, <2>1, ClaimTypes
    <3>2. CASE UNCHANGED tableVars
      BY <3>2 DEF TypeOK, tableVars
    <3> QED BY <3>1, <3>2, <1>14 DEF LateClaim
  <2>3. late' \subseteq late /\ UNCHANGED <<processVars, identity>>
    BY <1>14 DEF LateClaim
  <2> QED BY <2>2, <2>3 DEF TypeOK, processVars
<1>15. CASE UNCHANGED vars
  BY <1>15 DEF TypeOK, vars, tableVars, processVars
<1> QED
  BY <1>1, <1>2, <1>3, <1>4, <1>5, <1>6, <1>7, <1>8, <1>9, <1>10, <1>11, <1>12, <1>13,
     <1>14, <1>15 DEF Next, Administer, Start, Pair

-----------------------------------------------------------------------------
\* A claim leaves the tables in agreement.
LEMMA ClaimTables ==
    ASSUME TypeOK, TableInv, NEW e \in Enrollments, NEW c \in Credentials,
           ClaimAgentEnrollment(e, c)
    PROVE  TableInv'
<1>1. CASE Admits(e, c)
  <2>1. /\ status[e] = "approved" /\ name[e] \in Names /\ name[e] \notin agents
        /\ holder[c] = NoName /\ e \notin expired
    BY <1>1 DEF Admits, TableInv
  <2>2. name[e] # NoName
    BY <2>1, EnrollmentAssumption
  <2>3. /\ agents' = agents \cup {name[e]}
        /\ holder' = [holder EXCEPT ![c] = name[e]]
        /\ owner'  = [owner EXCEPT ![e] = name[e]]
        /\ status' = [status EXCEPT ![e] = "claimed"]
        /\ expired' = expired /\ name' = name
    BY <1>1 DEF ClaimAgentEnrollment
  <2>4. \A f \in Enrollments : status'[f] = "claimed" <=> owner'[f] # NoName
    BY <2>2, <2>3 DEF TypeOK, TableInv
  <2>5. \A f \in Enrollments : status'[f] = "claimed" => owner'[f] = name'[f] /\ owner'[f] \in agents'
    BY <2>3 DEF TypeOK, TableInv
  <2>6. \A f \in Enrollments : status'[f] = "approved" => name'[f] \in Names
    BY <2>3 DEF TypeOK, TableInv
  <2>7. \A f \in Enrollments : f \in expired' => status'[f] # "none"
    BY <2>3 DEF TypeOK, TableInv
  <2>8. \A f, g \in Enrollments :
          status'[f] = "claimed" /\ status'[g] = "claimed" /\ owner'[f] = owner'[g] => f = g
    BY <2>1, <2>3 DEF TypeOK, TableInv
  <2>9. \A a \in agents' : \E f \in Enrollments : status'[f] = "claimed" /\ owner'[f] = a
    <3> TAKE a \in agents'
    <3>1. CASE a = name[e]
      BY <3>1, <2>3 DEF TypeOK
    <3>2. CASE a \in agents
      <4>1. PICK f \in Enrollments : status[f] = "claimed" /\ owner[f] = a
        BY <3>2 DEF TableInv
      <4> QED BY <4>1, <2>1, <2>3 DEF TypeOK
    <3> QED BY <3>1, <3>2, <2>3
  <2>10. \A a \in agents' : \E d \in Credentials : holder'[d] = a
    <3> TAKE a \in agents'
    <3>1. CASE a = name[e]
      BY <3>1, <2>3 DEF TypeOK
    <3>2. CASE a \in agents
      <4>1. PICK d \in Credentials : holder[d] = a
        BY <3>2 DEF TableInv
      <4>2. a # NoName
        BY <3>2, EnrollmentAssumption DEF TypeOK
      <4> QED BY <4>1, <4>2, <2>1, <2>3 DEF TypeOK
    <3> QED BY <3>1, <3>2, <2>3
  <2>11. \A d \in Credentials : holder'[d] # NoName => holder'[d] \in agents'
    BY <2>3 DEF TypeOK, TableInv
  <2>12. \A d, g \in Credentials : holder'[d] # NoName /\ holder'[d] = holder'[g] => d = g
    BY <2>1, <2>3 DEF TypeOK, TableInv
  <2> QED BY <2>4, <2>5, <2>6, <2>7, <2>8, <2>9, <2>10, <2>11, <2>12 DEF TableInv
<1>2. CASE ~Admits(e, c)
  BY <1>2 DEF ClaimAgentEnrollment, TableInv, tableVars
<1> QED BY <1>1, <1>2

\* A new row is nobody's.
LEMMA CreateTables ==
    ASSUME TypeOK, TableInv, NEW e \in Enrollments, NEW s, NEW n,
           CreateAgentEnrollment(e, s, n),
           (s = "pending") \/ (s = "approved" /\ n \in Names)
    PROVE  TableInv'
<1>1. /\ status[e] = "none"
      /\ status' = [status EXCEPT ![e] = s] /\ name' = [name EXCEPT ![e] = n]
      /\ expired' = expired /\ owner' = owner /\ agents' = agents /\ holder' = holder
  BY DEF CreateAgentEnrollment
<1>2. \A f \in Enrollments : status'[f] = "claimed" <=> status[f] = "claimed"
  BY <1>1 DEF TypeOK
<1>3. \A f \in Enrollments : status[f] = "claimed" => name'[f] = name[f]
  BY <1>1 DEF TypeOK
<1>4. \A f \in Enrollments : status'[f] = "approved" => name'[f] \in Names
  BY <1>1 DEF TypeOK, TableInv
<1>5. \A f \in Enrollments : f \in expired' => status'[f] # "none"
  BY <1>1 DEF TypeOK, TableInv
<1> QED BY <1>1, <1>2, <1>3, <1>4, <1>5 DEF TableInv

LEMMA TableStep == TypeOK /\ TableInv /\ [Next]_vars => TableInv'
<1> SUFFICES ASSUME TypeOK, TableInv, [Next]_vars PROVE TableInv'
  OBVIOUS
<1>1. ASSUME NEW e \in Enrollments, NEW n \in Names, Preauthorize(e, n) PROVE TableInv'
  BY <1>1, CreateTables DEF Preauthorize
<1>2. ASSUME NEW e \in Enrollments, NEW n \in Names, ApproveAgentEnrollment(e, n) PROVE TableInv'
  <2>1. /\ status[e] = "pending"
        /\ status' = [status EXCEPT ![e] = "approved"] /\ name' = [name EXCEPT ![e] = n]
        /\ expired' = expired /\ owner' = owner /\ agents' = agents /\ holder' = holder
    BY <1>2 DEF ApproveAgentEnrollment
  <2>2. \A f \in Enrollments : status'[f] = "claimed" <=> status[f] = "claimed"
    BY <2>1 DEF TypeOK
  <2>3. \A f \in Enrollments : status[f] = "claimed" => name'[f] = name[f]
    BY <2>1 DEF TypeOK
  <2>4. \A f \in Enrollments : status'[f] = "approved" => name'[f] \in Names
    BY <2>1 DEF TypeOK, TableInv
  <2>5. \A f \in Enrollments : f \in expired' => status'[f] # "none"
    BY <2>1 DEF TypeOK, TableInv
  <2> QED BY <2>1, <2>2, <2>3, <2>4, <2>5 DEF TableInv
<1>3. ASSUME NEW e \in Enrollments, RejectAgentEnrollment(e) PROVE TableInv'
  <2>1. /\ status[e] = "pending" /\ status' = [status EXCEPT ![e] = "rejected"]
        /\ expired' = expired /\ owner' = owner /\ agents' = agents /\ holder' = holder
        /\ name' = name
    BY <1>3 DEF RejectAgentEnrollment
  <2>2. \A f \in Enrollments : status'[f] = "claimed" <=> status[f] = "claimed"
    BY <2>1 DEF TypeOK
  <2>3. \A f \in Enrollments : /\ status'[f] = "approved" => status[f] = "approved"
                              /\ status'[f] = "none" => status[f] = "none"
    BY <2>1 DEF TypeOK
  <2> QED BY <2>1, <2>2, <2>3 DEF TableInv
<1>4. ASSUME NEW e \in Enrollments, Expire(e) PROVE TableInv'
  BY <1>4 DEF Expire, TableInv
<1>5. ASSUME NEW h \in Hosts, NEW e \in Enrollments, ConnectFails(h, e) PROVE TableInv'
  BY <1>5, CreateTables DEF ConnectFails
<1>6. ASSUME NEW h \in Hosts, NEW e \in Enrollments, NEW c \in Credentials, Connect(h, e, c)
      PROVE  TableInv'
  BY <1>6, CreateTables DEF Connect
<1>7. ASSUME NEW h \in Hosts, ClaimAnswered(h) PROVE TableInv'
  <2>1. token[h] \in Enrollments /\ credential[h] \in Credentials
    BY <1>7 DEF ClaimAnswered, TypeOK
  <2>2. ClaimAgentEnrollment(token[h], credential[h])
    BY <1>7 DEF ClaimAnswered
  <2> QED BY <2>1, <2>2, ClaimTables
<1>8. ASSUME UNCHANGED tableVars PROVE TableInv'
  BY <1>8 DEF TableInv, tableVars
<1>9. ASSUME NEW r \in late, LateClaim(r) PROVE TableInv'
  <2>1. r.token \in Enrollments /\ r.credential \in Credentials
    BY DEF TypeOK, Claim
  <2>2. CASE ClaimAgentEnrollment(r.token, r.credential)
    BY <2>1, <2>2, ClaimTables
  <2> QED BY <2>2, <1>8, <1>9 DEF LateClaim
<1>10. ASSUME NEW h \in Hosts,
              \/ \E e \in Enrollments, c \in Credentials : Join(h, e, c)
              \/ Resume(h) \/ ClaimRefused(h) \/ ClaimTimesOut(h) \/ SaveIdentity(h) \/ Crash(h)
       PROVE  TableInv'
  BY <1>8, <1>10 DEF Join, Resume, ClaimRefused, ClaimTimesOut, SaveIdentity, Crash
<1>11. CASE UNCHANGED vars
  BY <1>8, <1>11 DEF vars
<1> QED
  BY <1>1, <1>2, <1>3, <1>4, <1>5, <1>6, <1>7, <1>9, <1>10, <1>11
  DEF Next, Administer, Start, Pair

-----------------------------------------------------------------------------
\* A claim keeps what was accepted before.
LEMMA ClaimKeeps ==
    ASSUME TypeOK, NEW e \in Enrollments, NEW c \in Credentials,
           ClaimAgentEnrollment(e, c), NEW d \in Credentials, holder[d] # NoName
    PROVE  holder'[d] = holder[d]
<1>1. CASE Admits(e, c)
  BY <1>1 DEF ClaimAgentEnrollment, Admits, TypeOK
<1>2. CASE ~Admits(e, c)
  BY <1>2 DEF ClaimAgentEnrollment, tableVars
<1> QED BY <1>1, <1>2

LEMMA ClaimSettles ==
    ASSUME TypeOK, NEW e \in Enrollments, NEW c \in Credentials,
           ClaimAgentEnrollment(e, c),
           NEW f \in Enrollments, NEW d \in Credentials, Settled(f, d), d = c => f = e
    PROVE  SettledNext(f, d)
<1>1. CASE Admits(e, c)
  <2>1. /\ status[e] = "approved" /\ holder[c] = NoName
        /\ holder' = [holder EXCEPT ![c] = name[e]]
        /\ owner'  = [owner EXCEPT ![e] = name[e]]
        /\ status' = [status EXCEPT ![e] = "claimed"]
    BY <1>1 DEF ClaimAgentEnrollment, Admits
  <2>2. CASE d = c
    BY <2>1, <2>2 DEF Settled, SettledNext, TypeOK
  <2>3. CASE d # c
    BY <2>1, <2>3 DEF Settled, SettledNext, TypeOK
  <2> QED BY <2>2, <2>3
<1>2. CASE ~Admits(e, c)
  BY <1>2 DEF ClaimAgentEnrollment, tableVars, Settled, SettledNext
<1> QED BY <1>1, <1>2

\* What the credential of a live process and those of late requests are.
LEMMA UseTypes ==
    TypeOK => /\ \A h \in Hosts : Live(h) => token[h] \in Enrollments /\ credential[h] \in Credentials
              /\ \A r \in late : r.token \in Enrollments /\ r.credential \in Credentials
BY DEF TypeOK, Live, Claim

\* The tables moved without a claim.
LEMMA UseTables ==
    ASSUME TypeOK, UseInv, holder' = holder,
           \A f \in Enrollments : status[f] = "claimed" => status'[f] = "claimed" /\ owner'[f] = owner[f],
           UNCHANGED <<processVars, late, identity>>
    PROVE  UseInv'
<1>1. token' = token /\ credential' = credential /\ process' = process /\ answer' = answer
      /\ late' = late /\ identity' = identity
  BY DEF processVars
<1>2. \A h \in Hosts : Live(h)' <=> Live(h)
  BY <1>1 DEF Live
<1>3. \A f \in Enrollments, d \in Credentials : Settled(f, d) => SettledNext(f, d)
  BY DEF Settled, SettledNext
<1>4. \A h \in Hosts : Live(h)' => SettledNext(token'[h], credential'[h])
  BY <1>1, <1>2, <1>3, UseTypes DEF UseInv
<1>5. \A r \in late : SettledNext(r.token, r.credential)
  BY <1>3, UseTypes DEF UseInv
<1> QED BY <1>1, <1>2, <1>4, <1>5 DEF UseInv, Settled, SettledNext

\* A process begins to wait with a new credential.
LEMMA UseWait ==
    ASSUME TypeOK, UseInv, holder' = holder,
           \A f \in Enrollments : status[f] = "claimed" => status'[f] = "claimed" /\ owner'[f] = owner[f],
           NEW h \in Hosts, NEW e \in Enrollments, NEW c \in Credentials, Wait(h, e, c)
    PROVE  UseInv'
<1>1. /\ identity[h] = NoIdentity /\ Fresh(c) /\ ~Live(h)
      /\ process'    = [process EXCEPT ![h] = "waiting"]
      /\ token'      = [token EXCEPT ![h] = e]
      /\ credential' = [credential EXCEPT ![h] = c]
      /\ answer' = answer /\ late' = late /\ identity' = identity
  BY DEF Wait, Stopped, Live
<1>2. \A k \in Hosts : Live(k)' <=> (k = h \/ Live(k))
  BY <1>1 DEF Live, TypeOK
<1>3. /\ token'[h] = e /\ credential'[h] = c /\ process'[h] = "waiting"
      /\ \A k \in Hosts : k # h => /\ token'[k] = token[k] /\ credential'[k] = credential[k]
                                  /\ process'[k] = process[k]
  BY <1>1 DEF TypeOK
<1>4. \A f \in Enrollments, d \in Credentials : Settled(f, d) => SettledNext(f, d)
  BY DEF Settled, SettledNext
<1>5. holder[c] = NoName /\ (\A k \in Hosts : credential[k] # c) /\ (\A r \in late : r.credential # c)
  BY <1>1 DEF Fresh
<1>6. \A k \in Hosts : Live(k)' => SettledNext(token'[k], credential'[k])
  <2> SUFFICES ASSUME NEW k \in Hosts, Live(k)' PROVE SettledNext(token'[k], credential'[k])
    OBVIOUS
  <2>1. CASE k = h
    BY <2>1, <1>3, <1>5 DEF Settled, SettledNext
  <2>2. CASE k # h
    <3>1. Live(k) /\ token'[k] = token[k] /\ credential'[k] = credential[k]
      BY <2>2, <1>2, <1>3
    <3>2. SettledNext(token[k], credential[k])
      BY <3>1, <1>4, UseTypes DEF UseInv
    <3> QED BY <3>1, <3>2 DEF Settled, SettledNext
  <2> QED BY <2>1, <2>2
<1>7. \A r \in late : SettledNext(r.token, r.credential)
  BY <1>4, UseTypes DEF UseInv
<1>8. \A k \in Hosts : Live(k)' \/ credential'[k] = NoCredential
  BY <1>2, <1>3 DEF UseInv
<1>9. \A k, l \in Hosts : Live(k)' /\ Live(l)' /\ credential'[k] = credential'[l] => k = l
  BY <1>2, <1>3, <1>5 DEF UseInv
<1>10. \A k \in Hosts : Live(k)' => identity'[k] = NoIdentity
  BY <1>1, <1>2 DEF UseInv
<1>11. \A r \in late', k \in Hosts :
           Live(k)' /\ r.credential = credential'[k] => r.token = token'[k]
  BY <1>1, <1>2, <1>3, <1>5 DEF UseInv
<1>12. \A k \in Hosts : process'[k] = "claimed" => holder'[credential'[k]] = answer'[k]
  BY <1>1, <1>3 DEF UseInv
<1>13. \A k \in Hosts : identity[k] # NoIdentity =>
           identity[k] \in [agent : Names, credential : Credentials]
  BY DEF TypeOK
<1>14. \A k \in Hosts : identity[k] # NoIdentity => identity[k].credential # c
  BY <1>13, <1>5, EnrollmentAssumption DEF UseInv
<1>15. \A k, l \in Hosts : identity'[k] # NoIdentity /\ Live(l)' =>
           identity'[k].credential # credential'[l]
  BY <1>1, <1>2, <1>3, <1>14 DEF UseInv
<1>16. /\ \A r, s \in late' : r.credential = s.credential => r.token = s.token
       /\ \A k \in Hosts : identity'[k] # NoIdentity =>
             holder'[identity'[k].credential] = identity'[k].agent
       /\ \A k, l \in Hosts : identity'[k] # NoIdentity /\ identity'[l] # NoIdentity /\
             identity'[k].credential = identity'[l].credential => k = l
  BY <1>1 DEF UseInv
<1> QED BY <1>1, <1>6, <1>7, <1>8, <1>9, <1>10, <1>11, <1>12, <1>15, <1>16 DEF UseInv, Settled, SettledNext

\* A claim with a token and a credential that are in use together.
LEMMA UseClaim ==
    ASSUME TypeOK, UseInv, NEW e \in Enrollments, NEW c \in Credentials,
           ClaimAgentEnrollment(e, c),
           \A k \in Hosts : Live(k) /\ credential[k] = c => token[k] = e,
           \A r \in late : r.credential = c => r.token = e,
           UNCHANGED <<token, credential, identity>>, late' \subseteq late,
           \A k \in Hosts : Live(k)' <=> Live(k),
           \A k \in Hosts : process'[k] = "claimed" => holder'[credential[k]] = answer'[k]
    PROVE  UseInv'
<1>1. \A k \in Hosts : Live(k)' => SettledNext(token'[k], credential'[k])
  <2> SUFFICES ASSUME NEW k \in Hosts, Live(k) PROVE SettledNext(token[k], credential[k])
    OBVIOUS
  <2>1. /\ token[k] \in Enrollments /\ credential[k] \in Credentials
        /\ Settled(token[k], credential[k])
        /\ credential[k] = c => token[k] = e
    BY UseTypes DEF UseInv
  <2> QED BY <2>1, ClaimSettles
<1>2. \A r \in late' : SettledNext(r.token, r.credential)
  <2> SUFFICES ASSUME NEW r \in late PROVE SettledNext(r.token, r.credential)
    OBVIOUS
  <2>1. /\ r.token \in Enrollments /\ r.credential \in Credentials
        /\ Settled(r.token, r.credential)
        /\ r.credential = c => r.token = e
    BY UseTypes DEF UseInv
  <2> QED BY <2>1, ClaimSettles
<1>3. \A k \in Hosts : identity[k] # NoIdentity =>
          holder'[identity[k].credential] = identity[k].agent
  <2> SUFFICES ASSUME NEW k \in Hosts, identity[k] # NoIdentity
               PROVE  holder'[identity[k].credential] = identity[k].agent
    OBVIOUS
  <2>1. identity[k].credential \in Credentials /\ identity[k].agent \in Names
    BY DEF TypeOK
  <2>2. holder[identity[k].credential] = identity[k].agent
    BY DEF UseInv
  <2>3. holder[identity[k].credential] # NoName
    BY <2>1, <2>2, EnrollmentAssumption
  <2> QED BY <2>1, <2>2, <2>3, ClaimKeeps
<1> QED BY <1>1, <1>2, <1>3 DEF UseInv, Settled, SettledNext

\* A process ends, or goes on to run.
LEMMA UseExit ==
    ASSUME TypeOK, UseInv, NEW h \in Hosts, NEW s \in {"down", "refused", "running"}, Exit(h, s),
           UNCHANGED <<tableVars, late, identity>>
    PROVE  UseInv'
<1>1. /\ process'    = [process EXCEPT ![h] = s]
      /\ token'      = [token EXCEPT ![h] = NoEnrollment]
      /\ credential' = [credential EXCEPT ![h] = NoCredential]
      /\ answer'     = [answer EXCEPT ![h] = NoName]
      /\ status' = status /\ owner' = owner /\ holder' = holder
      /\ late' = late /\ identity' = identity
  BY DEF Exit, tableVars
<1>2. \A k \in Hosts : Live(k)' <=> (k # h /\ Live(k))
  BY <1>1 DEF Live, TypeOK
<1>3. /\ credential'[h] = NoCredential /\ process'[h] # "claimed"
      /\ \A k \in Hosts : k # h => /\ token'[k] = token[k] /\ credential'[k] = credential[k]
                                  /\ process'[k] = process[k] /\ answer'[k] = answer[k]
  BY <1>1 DEF TypeOK
<1> QED BY <1>1, <1>2, <1>3 DEF UseInv, Settled

\* The identity is saved: its credential leaves the process.
LEMMA UseSave ==
    ASSUME TypeOK, UseInv, NEW h \in Hosts, SaveIdentity(h)
    PROVE  UseInv'
<1>1. PICK s \in {"running", "down"} : Exit(h, s)
  BY DEF SaveIdentity
<1>2. /\ process[h] = "claimed" /\ Live(h)
      /\ identity' = [identity EXCEPT ![h] = [agent |-> answer[h], credential |-> credential[h]]]
      /\ status' = status /\ owner' = owner /\ holder' = holder /\ late' = late
  BY DEF SaveIdentity, tableVars, Live
<1>3. \A k \in Hosts : Live(k)' <=> (k # h /\ Live(k))
  BY <1>1 DEF Live, TypeOK, Exit
<1>4. /\ credential'[h] = NoCredential /\ process'[h] # "claimed"
      /\ \A k \in Hosts : k # h => /\ token'[k] = token[k] /\ credential'[k] = credential[k]
                                  /\ process'[k] = process[k] /\ answer'[k] = answer[k]
  BY <1>1 DEF TypeOK, Exit
<1>5. /\ identity'[h].agent = answer[h] /\ identity'[h].credential = credential[h]
      /\ \A k \in Hosts : k # h => identity'[k] = identity[k]
  BY <1>2 DEF TypeOK
<1>6. holder[credential[h]] = answer[h]
  BY <1>2 DEF UseInv
<1>7. \A k \in Hosts : identity'[k] # NoIdentity =>
          holder'[identity'[k].credential] = identity'[k].agent
  BY <1>2, <1>5, <1>6 DEF UseInv
<1>8. \A k, l \in Hosts : identity'[k] # NoIdentity /\ Live(l)' =>
          identity'[k].credential # credential'[l]
  BY <1>2, <1>3, <1>4, <1>5 DEF UseInv
<1>9. \A k, l \in Hosts : identity'[k] # NoIdentity /\ identity'[l] # NoIdentity /\
          identity'[k].credential = identity'[l].credential => k = l
  BY <1>2, <1>5 DEF UseInv
<1>10. \A k \in Hosts : Live(k)' => identity'[k] = NoIdentity
  BY <1>3, <1>5 DEF UseInv
<1> QED BY <1>2, <1>3, <1>4, <1>7, <1>8, <1>9, <1>10 DEF UseInv, Settled

LEMMA UseStep == TypeOK /\ TableInv /\ UseInv /\ [Next]_vars => UseInv'
<1> SUFFICES ASSUME TypeOK, TableInv, UseInv, [Next]_vars PROVE UseInv'
  OBVIOUS
<1>1. ASSUME NEW e \in Enrollments, NEW n \in Names,
             Preauthorize(e, n) \/ ApproveAgentEnrollment(e, n)
      PROVE  UseInv'
  <2>1. holder' = holder /\ UNCHANGED <<processVars, late, identity>>
    BY <1>1 DEF Preauthorize, CreateAgentEnrollment, ApproveAgentEnrollment
  <2>2. \A f \in Enrollments : status[f] = "claimed" => status'[f] = "claimed" /\ owner'[f] = owner[f]
    BY <1>1 DEF Preauthorize, CreateAgentEnrollment, ApproveAgentEnrollment, TypeOK
  <2> QED BY <2>1, <2>2, UseTables
<1>2. ASSUME NEW e \in Enrollments, RejectAgentEnrollment(e) \/ Expire(e) PROVE UseInv'
  <2>1. holder' = holder /\ UNCHANGED <<processVars, late, identity>>
    BY <1>2 DEF RejectAgentEnrollment, Expire
  <2>2. \A f \in Enrollments : status[f] = "claimed" => status'[f] = "claimed" /\ owner'[f] = owner[f]
    BY <1>2 DEF RejectAgentEnrollment, Expire, TypeOK
  <2> QED BY <2>1, <2>2, UseTables
<1>3. ASSUME NEW h \in Hosts, NEW e \in Enrollments, ConnectFails(h, e) PROVE UseInv'
  <2>1. holder' = holder /\ UNCHANGED <<processVars, late, identity>>
    BY <1>3 DEF ConnectFails, CreateAgentEnrollment
  <2>2. \A f \in Enrollments : status[f] = "claimed" => status'[f] = "claimed" /\ owner'[f] = owner[f]
    BY <1>3 DEF ConnectFails, CreateAgentEnrollment, TypeOK
  <2> QED BY <2>1, <2>2, UseTables
<1>4. ASSUME NEW h \in Hosts, NEW e \in Enrollments, NEW c \in Credentials,
             Connect(h, e, c) \/ Join(h, e, c)
      PROVE  UseInv'
  <2>1. holder' = holder /\ Wait(h, e, c)
    BY <1>4 DEF Connect, Join, CreateAgentEnrollment, tableVars
  <2>2. \A f \in Enrollments : status[f] = "claimed" => status'[f] = "claimed" /\ owner'[f] = owner[f]
    BY <1>4 DEF Connect, Join, CreateAgentEnrollment, tableVars, TypeOK
  <2> QED BY <2>1, <2>2, UseWait
<1>5. ASSUME NEW h \in Hosts, Resume(h) PROVE UseInv'
  <2>1. \A k \in Hosts : Live(k)' <=> Live(k)
    BY <1>5 DEF Resume, Stopped, Live, TypeOK
  <2>2. \A k \in Hosts : process'[k] = "claimed" => process[k] = "claimed"
    BY <1>5 DEF Resume, TypeOK
  <2>3. /\ status' = status /\ owner' = owner /\ holder' = holder /\ late' = late
        /\ token' = token /\ credential' = credential /\ answer' = answer /\ identity' = identity
    BY <1>5 DEF Resume, tableVars
  <2> QED BY <2>1, <2>2, <2>3 DEF UseInv, Settled
<1>6. ASSUME NEW h \in Hosts, ClaimAnswered(h) PROVE UseInv'
  <2> DEFINE e == token[h]
             c == credential[h]
  <2>1. /\ process[h] = "waiting" /\ Live(h) /\ e \in Enrollments /\ c \in Credentials
        /\ ClaimAgentEnrollment(e, c) /\ (Admits(e, c) \/ Repeats(e, c))
        /\ process' = [process EXCEPT ![h] = "claimed"]
        /\ answer'  = [answer EXCEPT ![h] = name[e]]
        /\ UNCHANGED <<token, credential, late, identity>>
    BY <1>6 DEF ClaimAnswered, TypeOK, Live
  <2>2. /\ \A k \in Hosts : Live(k) /\ credential[k] = c => token[k] = e
        /\ \A r \in late : r.credential = c => r.token = e
    BY <2>1 DEF UseInv
  <2>3. \A k \in Hosts : Live(k)' <=> Live(k)
    BY <2>1 DEF Live, TypeOK
  <2>4. holder'[c] = name[e]
    <3>1. CASE Admits(e, c)
      BY <2>1, <3>1 DEF ClaimAgentEnrollment, TypeOK
    <3>2. CASE Repeats(e, c)
      <4>1. holder[c] = name[e] /\ holder[c] # NoName
        BY <2>1, <3>2 DEF Repeats, TableInv
      <4> QED BY <4>1, <2>1, ClaimKeeps
    <3> QED BY <2>1, <3>1, <3>2
  <2>5. \A k \in Hosts : process'[k] = "claimed" => holder'[credential[k]] = answer'[k]
    <3> SUFFICES ASSUME NEW k \in Hosts, process'[k] = "claimed"
                 PROVE  holder'[credential[k]] = answer'[k]
      OBVIOUS
    <3>1. CASE k = h
      BY <3>1, <2>1, <2>4 DEF TypeOK
    <3>2. CASE k # h
      <4>1. /\ process[k] = "claimed" /\ answer'[k] = answer[k]
            /\ credential[k] \in Credentials /\ answer[k] \in Names
        BY <3>2, <2>1 DEF TypeOK
      <4>2. holder[credential[k]] = answer[k] /\ answer[k] # NoName
        BY <4>1, EnrollmentAssumption DEF UseInv
      <4> QED BY <4>1, <4>2, <2>1, ClaimKeeps
    <3> QED BY <3>1, <3>2
  <2>6. late' \subseteq late /\ UNCHANGED <<token, credential, identity>>
    BY <2>1
  <2> HIDE DEF e, c
  <2> QED BY <2>1, <2>2, <2>3, <2>5, <2>6, UseClaim
<1>7. ASSUME NEW h \in Hosts, ClaimRefused(h) \/ Crash(h) PROVE UseInv'
  BY <1>7, UseExit DEF ClaimRefused, Crash
<1>8. ASSUME NEW h \in Hosts, ClaimTimesOut(h) PROVE UseInv'
  <2> DEFINE new == [token |-> token[h], credential |-> credential[h]]
  <2>1. /\ Live(h) /\ late' = late \cup {new}
        /\ status' = status /\ owner' = owner /\ holder' = holder
        /\ process' = process /\ token' = token /\ credential' = credential
        /\ answer' = answer /\ identity' = identity
    BY <1>8 DEF ClaimTimesOut, Live, tableVars, processVars
  <2>2. new.token = token[h] /\ new.credential = credential[h]
    OBVIOUS
  <2> HIDE DEF new
  <2>3. \A k \in Hosts : Live(k)' <=> Live(k)
    BY <2>1 DEF Live
  <2>4. \A r \in late', k \in Hosts : Live(k)' /\ r.credential = credential'[k] => r.token = token'[k]
    BY <2>1, <2>2, <2>3 DEF UseInv
  <2>5. \A r, s \in late' : r.credential = s.credential => r.token = s.token
    BY <2>1, <2>2 DEF UseInv
  <2>6. \A r \in late' : Settled(r.token, r.credential)
    BY <2>1, <2>2 DEF UseInv
  <2> QED BY <2>1, <2>3, <2>4, <2>5, <2>6 DEF UseInv, Settled
<1>9. ASSUME NEW h \in Hosts, SaveIdentity(h) PROVE UseInv'
  BY <1>9, UseSave
<1>10. ASSUME NEW r \in late, LateClaim(r) PROVE UseInv'
  <2>1. /\ late' \subseteq late /\ UNCHANGED <<processVars, identity>>
        /\ r.token \in Enrollments /\ r.credential \in Credentials
    BY <1>10, UseTypes DEF LateClaim
  <2>2. \A k \in Hosts : Live(k)' <=> Live(k)
    BY <2>1 DEF Live, processVars
  <2>3. CASE ClaimAgentEnrollment(r.token, r.credential)
    <3>1. /\ \A k \in Hosts : Live(k) /\ credential[k] = r.credential => token[k] = r.token
          /\ \A s \in late : s.credential = r.credential => s.token = r.token
      BY DEF UseInv
    <3>2. \A k \in Hosts : process'[k] = "claimed" => holder'[credential[k]] = answer'[k]
      <4> SUFFICES ASSUME NEW k \in Hosts, process[k] = "claimed"
                   PROVE  holder'[credential[k]] = answer[k]
        BY <2>1 DEF processVars
      <4>1. credential[k] \in Credentials /\ answer[k] \in Names
        BY DEF TypeOK
      <4>2. holder[credential[k]] = answer[k] /\ answer[k] # NoName
        BY <4>1, EnrollmentAssumption DEF UseInv
      <4> QED BY <4>1, <4>2, <2>1, <2>3, ClaimKeeps
    <3>3. UNCHANGED <<token, credential, identity>>
      BY <2>1 DEF processVars
    <3> QED BY <2>1, <2>2, <2>3, <3>1, <3>2, <3>3, UseClaim
  <2>4. CASE UNCHANGED tableVars
    <3>1. /\ status' = status /\ owner' = owner /\ holder' = holder
          /\ process' = process /\ token' = token /\ credential' = credential
          /\ answer' = answer /\ identity' = identity
      BY <2>1, <2>4 DEF tableVars, processVars
    <3> QED BY <2>1, <2>2, <3>1 DEF UseInv, Settled
  <2> QED BY <2>3, <2>4, <1>10 DEF LateClaim
<1>11. CASE UNCHANGED vars
  <2>1. holder' = holder /\ status' = status /\ owner' = owner
        /\ UNCHANGED <<processVars, late, identity>>
    BY <1>11 DEF vars, tableVars
  <2> QED BY <2>1, UseTables
<1> QED
  BY <1>1, <1>2, <1>3, <1>4, <1>5, <1>6, <1>7, <1>8, <1>9, <1>10, <1>11
  DEF Next, Administer, Start, Pair

-----------------------------------------------------------------------------
LEMMA Inductive == Spec => []IInv
<1>1. Init => IInv
  <2>1. Init => TableInv
    BY DEF Init, TableInv
  <2>2. Init => UseInv
    BY DEF Init, UseInv, Live, Settled
  <2> QED BY <2>1, <2>2, TypeInit DEF IInv
<1>2. IInv /\ [Next]_vars => IInv'
  BY TypeStep, TableStep, UseStep DEF IInv
<1> QED BY <1>1, <1>2, PTL DEF Spec

\* Every variable of the enrollments and the hosts keeps its type.
THEOREM TypeCorrect == Spec => []TypeOK
<1>1. IInv => TypeOK
  BY DEF IInv
<1> QED BY <1>1, Inductive, PTL

\* However claims are repeated, delayed or made twice with one token: one
\* Agent for each claimed enrollment and one credential for each Agent.
THEOREM OneAgent == Spec => []OneAgentPerEnrollment
<1>1. IInv => OneAgentPerEnrollment
  <2> SUFFICES ASSUME IInv PROVE OneAgentPerEnrollment
    OBVIOUS
  <2> USE DEF IInv
  <2>1. agents = {owner[e] : e \in {f \in Enrollments : status[f] = "claimed"}}
    BY DEF TableInv
  <2> QED BY <2>1 DEF OneAgentPerEnrollment, TableInv
<1> QED BY <1>1, Inductive, PTL

\* Every saved identity authenticates as its Agent and is on one host only.
THEOREM Identities == Spec => []IdentitiesAuthenticate
<1>1. IInv => IdentitiesAuthenticate
  <2> SUFFICES ASSUME IInv PROVE IdentitiesAuthenticate
    OBVIOUS
  <2> USE DEF IInv
  <2>1. ASSUME NEW h \in Hosts, NEW k \in Hosts,
               identity[h] # NoIdentity, identity[k] # NoIdentity,
               identity[h].agent = identity[k].agent
        PROVE  h = k
    <3>1. /\ identity[h].agent \in Names /\ identity[h].credential \in Credentials
          /\ identity[k].credential \in Credentials
      BY <2>1 DEF TypeOK
    <3>2. /\ holder[identity[h].credential] = identity[h].agent
          /\ holder[identity[k].credential] = identity[h].agent
      BY <2>1 DEF UseInv
    <3>3. identity[h].credential = identity[k].credential
      BY <3>1, <3>2, EnrollmentAssumption DEF TableInv
    <3> QED BY <2>1, <3>3 DEF UseInv
  <2> QED BY <2>1 DEF IdentitiesAuthenticate, UseInv
<1> QED BY <1>1, Inductive, PTL

\* A process whose claim was executed is never refused when it asks again.
THEOREM Retry == Spec => []RetryIsAccepted
<1>1. IInv => RetryIsAccepted
  <2> SUFFICES ASSUME IInv, NEW h \in Hosts, process[h] = "waiting", holder[credential[h]] # NoName
               PROVE  ~Refuses(token[h], credential[h])
    BY DEF RetryIsAccepted
  <2>1. status[token[h]] = "claimed" /\ owner[token[h]] = holder[credential[h]]
    BY DEF IInv, UseInv, Live, Settled
  <2> QED BY <2>1 DEF Refuses, Repeats
<1> QED BY <1>1, Inductive, PTL

\* A claim moves approved, unexpired enrollments only.
LEMMA ClaimFinal ==
    ASSUME TypeOK, NEW e \in Enrollments, NEW c \in Credentials,
           ClaimAgentEnrollment(e, c) \/ UNCHANGED tableVars,
           NEW f \in Enrollments, status[f] \in {"rejected", "claimed"} \/ f \in expired
    PROVE  status'[f] = status[f] /\ owner'[f] = owner[f] /\ name'[f] = name[f]
BY DEF ClaimAgentEnrollment, Admits, TypeOK, tableVars

\* No step moves an enrollment that was rejected, has expired or was used.
THEOREM DeadTokens == Spec => DeadTokensStayDead
<1>1. IInv /\ [Next]_vars =>
          \A e \in Enrollments :
              status[e] \in {"rejected", "claimed"} \/ e \in expired =>
                  status'[e] = status[e] /\ owner'[e] = owner[e] /\ name'[e] = name[e]
  <2> DEFINE Same(f) == status'[f] = status[f] /\ owner'[f] = owner[f] /\ name'[f] = name[f]
  <2> SUFFICES ASSUME IInv, [Next]_vars, NEW f \in Enrollments,
                      status[f] \in {"rejected", "claimed"} \/ f \in expired
               PROVE  Same(f)
    OBVIOUS
  <2>0. TypeOK /\ status[f] # "none"
    BY DEF IInv, TableInv
  <2>1. ASSUME NEW e \in Enrollments, Administer(e) \/ Expire(e) PROVE Same(f)
    BY <2>0, <2>1 DEF Administer, Preauthorize, CreateAgentEnrollment, ApproveAgentEnrollment,
                      RejectAgentEnrollment, Expire, TypeOK
  <2>2. ASSUME NEW h \in Hosts, NEW e \in Enrollments, ConnectFails(h, e) PROVE Same(f)
    BY <2>0, <2>2 DEF ConnectFails, CreateAgentEnrollment, TypeOK
  <2>3. ASSUME NEW h \in Hosts, NEW e \in Enrollments, NEW c \in Credentials,
               Connect(h, e, c) \/ Join(h, e, c)
        PROVE  Same(f)
    BY <2>0, <2>3 DEF Connect, Join, CreateAgentEnrollment, TypeOK, tableVars
  <2>4. ASSUME NEW h \in Hosts, ClaimAnswered(h) PROVE Same(f)
    <3>1. /\ token[h] \in Enrollments /\ credential[h] \in Credentials
          /\ ClaimAgentEnrollment(token[h], credential[h])
      BY <2>0, <2>4 DEF ClaimAnswered, TypeOK
    <3> QED BY <3>1, <2>0, ClaimFinal
  <2>5. ASSUME NEW h \in Hosts,
               Resume(h) \/ ClaimRefused(h) \/ ClaimTimesOut(h) \/ SaveIdentity(h) \/ Crash(h)
        PROVE  Same(f)
    BY <2>5 DEF Resume, ClaimRefused, ClaimTimesOut, SaveIdentity, Crash, tableVars
  <2>6. ASSUME NEW r \in late, LateClaim(r) PROVE Same(f)
    <3>1. r.token \in Enrollments /\ r.credential \in Credentials
      BY <2>0, UseTypes
    <3> QED BY <3>1, <2>0, <2>6, ClaimFinal DEF LateClaim
  <2>7. CASE UNCHANGED vars
    BY <2>7 DEF vars, tableVars
  <2> HIDE DEF Same
  <2> QED BY <2>1, <2>2, <2>3, <2>4, <2>5, <2>6, <2>7 DEF Next, Start, Pair
<1> QED BY <1>1, Inductive, PTL DEF Spec, DeadTokensStayDead

-----------------------------------------------------------------------------
(***************************************************************************)
(* Enrollment implements Pairing.                                          *)
(***************************************************************************)
\* An enrollment nobody asked for has no name.
NameInv == \A e \in Enrollments : status[e] = "none" => name[e] = NoName

LEMMA NameStep == TypeOK /\ TableInv /\ NameInv /\ [Next]_vars => NameInv'
<1> SUFFICES ASSUME TypeOK, TableInv, NameInv, [Next]_vars PROVE NameInv'
  OBVIOUS
<1>1. ASSUME NEW e \in Enrollments, NEW s \in {"pending", "approved"}, NEW n,
             CreateAgentEnrollment(e, s, n)
      PROVE  NameInv'
  BY <1>1 DEF CreateAgentEnrollment, TypeOK, NameInv
<1>2. ASSUME NEW e \in Enrollments, Administer(e) \/ Expire(e) PROVE NameInv'
  BY <1>1, <1>2 DEF Administer, Preauthorize, ApproveAgentEnrollment, RejectAgentEnrollment, Expire,
                    TypeOK, NameInv
<1>3. ASSUME NEW h \in Hosts, Start(h) PROVE NameInv'
  BY <1>1, <1>3 DEF Start, ConnectFails, Connect, Join, Resume, tableVars, NameInv
<1>4. ASSUME NEW e \in Enrollments, NEW c \in Credentials,
             ClaimAgentEnrollment(e, c) \/ UNCHANGED tableVars
      PROVE  NameInv'
  BY <1>4 DEF ClaimAgentEnrollment, tableVars, TypeOK, NameInv
<1>5. ASSUME NEW h \in Hosts, Pair(h) PROVE NameInv'
  <2>1. CASE ClaimAnswered(h)
    <3>1. /\ token[h] \in Enrollments /\ credential[h] \in Credentials
          /\ ClaimAgentEnrollment(token[h], credential[h])
      BY <2>1 DEF ClaimAnswered, TypeOK
    <3> QED BY <3>1, <1>4
  <2>2. CASE ClaimRefused(h) \/ ClaimTimesOut(h) \/ SaveIdentity(h) \/ Crash(h)
    BY <2>2 DEF ClaimRefused, ClaimTimesOut, SaveIdentity, Crash, tableVars, NameInv
  <2> QED BY <1>5, <2>1, <2>2 DEF Pair
<1>6. ASSUME NEW r \in late, LateClaim(r) PROVE NameInv'
  BY <1>4, <1>6, UseTypes DEF LateClaim
<1>7. CASE UNCHANGED vars
  BY <1>7 DEF vars, tableVars, NameInv
<1> QED BY <1>2, <1>3, <1>5, <1>6, <1>7 DEF Next

LEMMA InitPairing == Init => Lifecycle!Init
BY EnrollmentAssumption DEF Init, Lifecycle!Init, Stage, KeysOf, HomeOf

\* The values the mapping gives.
LEMMA StageOf ==
    ASSUME NEW e \in Enrollments
    PROVE  Stage[e] = IF status[e] \in {"pending", "approved"} /\ e \in expired
                      THEN "expired" ELSE status[e]
BY DEF Stage

\* A step that concerns the row of one enrollment.
LEMMA StageChanges ==
    ASSUME TypeOK, NEW e \in Enrollments, NEW s,
           \A f \in Enrollments \ {e} : /\ status'[f] = status[f]
                                        /\ f \in expired' <=> f \in expired,
           s = IF status'[e] \in {"pending", "approved"} /\ e \in expired'
               THEN "expired" ELSE status'[e]
    PROVE  Stage' = [Stage EXCEPT ![e] = s]
BY DEF Stage

LEMMA SameKeys == holder' = holder => KeysOf' = KeysOf
BY DEF KeysOf

LEMMA SameHome == identity' = identity => HomeOf' = HomeOf
BY DEF HomeOf

LEMMA SameTables ==
    UNCHANGED tableVars => Stage' = Stage /\ name' = name /\ KeysOf' = KeysOf
BY SameKeys DEF tableVars, Stage

LEMMA AskPairing ==
    ASSUME IInv, NameInv, NEW e \in Enrollments, CreateAgentEnrollment(e, "pending", NoName),
           identity' = identity
    PROVE  Lifecycle!Next
<1>1. /\ status[e] = "none" /\ status' = [status EXCEPT ![e] = "pending"]
      /\ name' = [name EXCEPT ![e] = NoName] /\ expired' = expired /\ holder' = holder
  BY DEF CreateAgentEnrollment
<1>2. e \notin expired /\ name[e] = NoName
  BY <1>1 DEF IInv, TableInv, NameInv
<1>3. Stage[e] = "none" /\ Stage' = [Stage EXCEPT ![e] = "pending"]
  BY <1>1, <1>2, StageOf, StageChanges DEF IInv, TypeOK
<1>4. name' = name
  BY <1>1, <1>2 DEF IInv, TypeOK
<1>5. Lifecycle!Ask(e)
  BY <1>1, <1>3, <1>4, SameKeys, SameHome DEF Lifecycle!Ask
<1> QED BY <1>5 DEF Lifecycle!Next

LEMMA ApprovePairing ==
    ASSUME IInv, NEW e \in Enrollments, NEW n \in Names,
           Preauthorize(e, n) \/ ApproveAgentEnrollment(e, n)
    PROVE  Lifecycle!Next
<1>1. /\ status[e] \in {"none", "pending"} /\ status' = [status EXCEPT ![e] = "approved"]
      /\ name' = [name EXCEPT ![e] = n] /\ expired' = expired /\ holder' = holder
      /\ identity' = identity
  BY DEF Preauthorize, CreateAgentEnrollment, ApproveAgentEnrollment
<1>2. e \notin expired
  BY <1>1 DEF Preauthorize, CreateAgentEnrollment, ApproveAgentEnrollment, IInv, TableInv
<1>3. Stage[e] \in {"none", "pending"} /\ Stage' = [Stage EXCEPT ![e] = "approved"]
  BY <1>1, <1>2, StageOf, StageChanges DEF IInv, TypeOK
<1>4. Lifecycle!Approve(e, n)
  BY <1>1, <1>3, SameKeys, SameHome DEF Lifecycle!Approve
<1> QED BY <1>4 DEF Lifecycle!Next

LEMMA RejectPairing ==
    ASSUME IInv, NEW e \in Enrollments, RejectAgentEnrollment(e)
    PROVE  Lifecycle!Next
<1>1. /\ status[e] = "pending" /\ e \notin expired /\ status' = [status EXCEPT ![e] = "rejected"]
      /\ UNCHANGED <<name, expired, holder, identity>>
  BY DEF RejectAgentEnrollment
<1>2. Stage[e] = "pending" /\ Stage' = [Stage EXCEPT ![e] = "rejected"]
  BY <1>1, StageOf, StageChanges DEF IInv, TypeOK
<1>3. Lifecycle!Reject(e)
  BY <1>1, <1>2, SameKeys, SameHome DEF Lifecycle!Reject
<1> QED BY <1>3 DEF Lifecycle!Next

\* Time takes an enrollment out of use that was open.
LEMMA ExpirePairing ==
    ASSUME IInv, NEW e \in Enrollments, Expire(e)
    PROVE  Lifecycle!Next \/ UNCHANGED Lifecycle!vars
<1>1. /\ status[e] # "none" /\ e \notin expired /\ expired' = expired \cup {e}
      /\ UNCHANGED <<status, name, holder, identity>>
  BY DEF Expire
<1>2. CASE status[e] \in {"pending", "approved"}
  <2>1. Stage[e] = status[e] /\ Stage' = [Stage EXCEPT ![e] = "expired"]
    BY <1>1, <1>2, StageOf, StageChanges DEF IInv
  <2>2. Lifecycle!Expire(e)
    BY <1>1, <1>2, <2>1, SameKeys, SameHome DEF Lifecycle!Expire, Lifecycle!Open
  <2> QED BY <2>2 DEF Lifecycle!Next
<1>3. CASE status[e] \notin {"pending", "approved"}
  <2>1. Stage' = Stage
    BY <1>1, <1>3 DEF Stage
  <2> QED BY <1>1, <2>1, SameKeys, SameHome DEF Lifecycle!vars
<1> QED BY <1>2, <1>3

LEMMA ClaimPairing ==
    ASSUME IInv, NEW e \in Enrollments, NEW c \in Credentials, ClaimAgentEnrollment(e, c),
           identity' = identity
    PROVE  Lifecycle!Next \/ UNCHANGED Lifecycle!vars
<1> DEFINE a == name[e]
<1>1. CASE Admits(e, c)
  <2>1. /\ status[e] = "approved" /\ e \notin expired /\ a \in Names /\ a \notin agents
        /\ holder[c] = NoName /\ holder' = [holder EXCEPT ![c] = a]
        /\ status' = [status EXCEPT ![e] = "claimed"] /\ expired' = expired /\ name' = name
    BY <1>1 DEF Admits, ClaimAgentEnrollment, IInv, TableInv
  <2>2. Stage[e] = "approved" /\ Stage' = [Stage EXCEPT ![e] = "claimed"]
    BY <2>1, StageOf, StageChanges DEF IInv, TypeOK
  <2>3. NoName \notin Names /\ \A d \in Credentials : holder[d] # a
    BY <2>1, EnrollmentAssumption DEF IInv, TableInv
  <2>4. KeysOf[a] = {} /\ \A n \in Names : c \notin KeysOf[n]
    BY <2>1, <2>3 DEF KeysOf
  <2>5. KeysOf' = [KeysOf EXCEPT ![a] = {c}]
    <3>1. \A d \in Credentials : holder'[d] = IF d = c THEN a ELSE holder[d]
      BY <2>1 DEF IInv, TypeOK
    <3>2. \A n \in Names : {d \in Credentials : holder'[d] = n} = IF n = a THEN {c} ELSE KeysOf[n]
      BY <2>1, <2>3, <3>1 DEF KeysOf
    <3> QED BY <2>1, <3>2 DEF KeysOf
  <2>6. Lifecycle!Claim(e, c)
    BY <2>1, <2>2, <2>4, <2>5, SameHome DEF Lifecycle!Claim
  <2> QED BY <2>6 DEF Lifecycle!Next
<1>2. CASE ~Admits(e, c)
  BY <1>2, SameTables, SameHome DEF ClaimAgentEnrollment, Lifecycle!vars
<1> QED BY <1>1, <1>2

\* The credential that was claimed with is in no other machine's file, and so is no other
\* credential of that Agent.
LEMMA SettlePairing ==
    ASSUME IInv, NEW h \in Hosts, SaveIdentity(h)
    PROVE  Lifecycle!Next
<1> DEFINE n == answer[h]
           c == credential[h]
<1>1. /\ n \in Names /\ c \in Credentials /\ holder[c] = n /\ Live(h) /\ identity[h] = NoIdentity
      /\ identity' = [identity EXCEPT ![h] = [agent |-> n, credential |-> c]]
      /\ UNCHANGED tableVars
  BY DEF SaveIdentity, Live, IInv, TypeOK, UseInv
<1>2. \A k \in Hosts : ~(identity[k] # NoIdentity /\ identity[k].agent = n)
  <2> SUFFICES ASSUME NEW k \in Hosts, identity[k] # NoIdentity, identity[k].agent = n PROVE FALSE
    OBVIOUS
  <2>1. identity[k].credential \in Credentials
    BY DEF IInv, TypeOK
  <2>2. holder[identity[k].credential] = n /\ identity[k].credential # c
    BY <1>1 DEF IInv, UseInv
  <2> QED BY <1>1, <2>1, <2>2, EnrollmentAssumption DEF IInv, TableInv
<1>3. [agent |-> n, credential |-> c] # NoIdentity
  BY <1>1, EnrollmentAssumption
<1>4. \A k \in Hosts : identity'[k] = IF k = h THEN [agent |-> n, credential |-> c] ELSE identity[k]
  BY <1>1 DEF IInv, TypeOK
<1>5. KeysOf[n] # {} /\ HomeOf[n] = {} /\ \A o \in Names : h \notin HomeOf[o]
  BY <1>1, <1>2 DEF KeysOf, HomeOf
<1>6. HomeOf' = [HomeOf EXCEPT ![n] = {h}]
  <2>1. \A o \in Names : {k \in Hosts : identity'[k] # NoIdentity /\ identity'[k].agent = o}
                          = IF o = n THEN {h} ELSE HomeOf[o]
    BY <1>1, <1>2, <1>3, <1>4 DEF HomeOf
  <2> QED BY <1>1, <2>1 DEF HomeOf
<1>7. Lifecycle!Settle(n, h)
  BY <1>1, <1>5, <1>6, SameTables DEF Lifecycle!Settle
<1> QED BY <1>1, <1>7 DEF Lifecycle!Next

LEMMA StepPairing ==
    ASSUME IInv, NameInv, [Next]_vars
    PROVE  [Lifecycle!Next]_(Lifecycle!vars)
<1>1. ASSUME NEW e \in Enrollments, Administer(e) \/ Expire(e)
      PROVE  Lifecycle!Next \/ UNCHANGED Lifecycle!vars
  BY <1>1, ApprovePairing, RejectPairing, ExpirePairing DEF Administer
<1>2. UNCHANGED <<tableVars, identity>> => UNCHANGED Lifecycle!vars
  BY SameTables, SameHome DEF Lifecycle!vars
<1>3. ASSUME NEW h \in Hosts, Start(h) PROVE Lifecycle!Next \/ UNCHANGED Lifecycle!vars
  BY <1>2, <1>3, AskPairing DEF Start, ConnectFails, Connect, Wait, Join, Resume
<1>4. ASSUME NEW h \in Hosts, Pair(h) PROVE Lifecycle!Next \/ UNCHANGED Lifecycle!vars
  <2>1. CASE ClaimAnswered(h)
    <3>1. /\ token[h] \in Enrollments /\ credential[h] \in Credentials
          /\ ClaimAgentEnrollment(token[h], credential[h]) /\ identity' = identity
      BY <2>1 DEF ClaimAnswered, IInv, TypeOK
    <3> QED BY <3>1, ClaimPairing
  <2>2. CASE ClaimRefused(h) \/ ClaimTimesOut(h) \/ Crash(h)
    BY <1>2, <2>2 DEF ClaimRefused, ClaimTimesOut, Crash
  <2> QED BY <1>4, <2>1, <2>2, SettlePairing DEF Pair
<1>5. ASSUME NEW r \in late, LateClaim(r) PROVE Lifecycle!Next \/ UNCHANGED Lifecycle!vars
  <2>1. r.token \in Enrollments /\ r.credential \in Credentials
    BY UseTypes DEF IInv
  <2> QED BY <1>2, <1>5, <2>1, ClaimPairing DEF LateClaim
<1>6. UNCHANGED vars => UNCHANGED <<tableVars, identity>>
  BY DEF vars
<1> QED BY <1>1, <1>2, <1>3, <1>4, <1>5, <1>6 DEF Next

\* Lost answers, late and repeated claims, shared tokens and crashes change nothing of the
\* way from a request to an Agent on its machine.
THEOREM PairingImplemented == Spec => ImplementsPairing
<1>1. Init => NameInv
  BY DEF Init, NameInv
<1>2. IInv /\ NameInv /\ [Next]_vars => NameInv'
  BY NameStep DEF IInv
<1>3. IInv /\ NameInv /\ [Next]_vars => [Lifecycle!Next]_(Lifecycle!vars)
  BY StepPairing
<1> QED
  BY <1>1, <1>2, <1>3, InitPairing, Inductive, PTL DEF Spec, ImplementsPairing, Lifecycle!Spec

\* What follows from Pairing alone, for whatever implements it: an Agent is that of one
\* claimed enrollment, has one key, which is its own, and at most one machine; and what is
\* decided, stays.
THEOREM PairingPromise == Lifecycle!Spec => []Lifecycle!Promise /\ Lifecycle!Lasting
<1> DEFINE T == /\ Stage  \in [Enrollments -> {"none"} \cup Lifecycle!Open \cup Lifecycle!Final]
                /\ name   \in [Enrollments -> Names \cup {NoName}]
                /\ KeysOf \in [Names -> SUBSET Credentials]
                /\ HomeOf \in [Names -> SUBSET Hosts]
                /\ \A e \in Enrollments : Stage[e] \in {"approved", "claimed"} => name[e] \in Names
                /\ \A e \in Enrollments : Stage[e] = "claimed" => KeysOf[name[e]] # {}
           P == Lifecycle!Promise
           Stays == /\ \A e \in Enrollments : Stage[e] \in Lifecycle!Final =>
                           Stage'[e] = Stage[e] /\ name'[e] = name[e]
                    /\ \A n \in Names : /\ KeysOf[n] # {} => KeysOf'[n] = KeysOf[n]
                                        /\ HomeOf[n] # {} => HomeOf'[n] = HomeOf[n]
<1>1. Lifecycle!Init => T /\ P
  BY DEF Lifecycle!Init, Lifecycle!Promise, Lifecycle!Open, Lifecycle!Final
<1>2. T /\ P /\ [Lifecycle!Next]_(Lifecycle!vars) => T' /\ P' /\ Stays
  <2> SUFFICES ASSUME T, P, [Lifecycle!Next]_(Lifecycle!vars) PROVE T' /\ P' /\ Stays
    OBVIOUS
  <2> USE DEF Lifecycle!Promise, Lifecycle!Open, Lifecycle!Final
  <2>1. ASSUME NEW e \in Enrollments, Lifecycle!Ask(e) PROVE T' /\ P' /\ Stays
    BY <2>1 DEF Lifecycle!Ask
  <2>2. ASSUME NEW e \in Enrollments, NEW n \in Names, Lifecycle!Approve(e, n)
        PROVE  T' /\ P' /\ Stays
    BY <2>2 DEF Lifecycle!Approve
  <2>3. ASSUME NEW e \in Enrollments, Lifecycle!Reject(e) PROVE T' /\ P' /\ Stays
    BY <2>3 DEF Lifecycle!Reject
  <2>4. ASSUME NEW e \in Enrollments, Lifecycle!Expire(e) PROVE T' /\ P' /\ Stays
    BY <2>4 DEF Lifecycle!Expire
  <2>5. ASSUME NEW e \in Enrollments, NEW k \in Credentials, Lifecycle!Claim(e, k)
        PROVE  T' /\ P' /\ Stays
    <3>1. name[e] \in Names /\ KeysOf' = [KeysOf EXCEPT ![name[e]] = {k}]
      BY <2>5 DEF Lifecycle!Claim
    <3>2. T' /\ P'
      BY <2>5, <3>1 DEF Lifecycle!Claim
    <3>3. Stays
      BY <2>5, <3>1 DEF Lifecycle!Claim
    <3> QED BY <3>2, <3>3
  <2>6. ASSUME NEW n \in Names, NEW m \in Hosts, Lifecycle!Settle(n, m)
        PROVE  T' /\ P' /\ Stays
    BY <2>6 DEF Lifecycle!Settle
  <2>7. CASE UNCHANGED Lifecycle!vars
    BY <2>7 DEF Lifecycle!vars
  <2> QED BY <2>1, <2>2, <2>3, <2>4, <2>5, <2>6, <2>7 DEF Lifecycle!Next
<1>3. Lifecycle!Spec => [](T /\ P)
  BY <1>1, <1>2, PTL DEF Lifecycle!Spec
<1>4. T /\ P => Lifecycle!Promise
  OBVIOUS
<1>5. T /\ P /\ [Lifecycle!Next]_(Lifecycle!vars) =>
          [/\ \A e \in Enrollments : Stage[e] \in Lifecycle!Final =>
                  Stage'[e] = Stage[e] /\ name'[e] = name[e]
           /\ \A n \in Names : /\ KeysOf[n] # {} => KeysOf'[n] = KeysOf[n]
                               /\ HomeOf[n] # {} => HomeOf'[n] = HomeOf[n]]_(Lifecycle!vars)
  BY <1>2
<1> QED BY <1>3, <1>4, <1>5, PTL DEF Lifecycle!Spec, Lifecycle!Lasting
==============================================================================
