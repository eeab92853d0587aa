----------------------------- MODULE Enrollment -----------------------------
(***************************************************************************)
(* How a machine becomes an Agent: the tables agent_enrollments, agents    *)
(* and agent_credentials, the administrators who approve, reject or        *)
(* preauthorize enrollments, and the `connect` and `join` commands that    *)
(* wait for an approval, claim it with a credential of their own making    *)
(* and store the identity they got in a file.                              *)
(*                                                                         *)
(* A transaction is one step: each of them works under the row lock of     *)
(* one enrollment, and the names of Agents are UNIQUE.                     *)
(***************************************************************************)
EXTENDS Naturals, FiniteSets

CONSTANTS
    Hosts,         \* machines, each with one identity file
    Enrollments,   \* enrollments with their pairing tokens, each used once (bound)
    Credentials,   \* credentials that hosts generate
    Names,         \* names of Agents; an Agent is identified by its name
    NoEnrollment, NoCredential, NoName, NoIdentity

ASSUME EnrollmentAssumption ==
    /\ NoEnrollment \notin Enrollments
    /\ NoCredential \notin Credentials
    /\ NoName \notin Names
    /\ NoIdentity \notin [agent : Names, credential : Credentials]

VARIABLES
    status,      \* agent_enrollments.status; "none" before the row
    expired,     \* enrollments whose expires_at has passed
    name,        \* agent_enrollments.name, given with the approval
    owner,       \* agent_enrollments.agent_id
    agents,      \* rows of agents
    holder,      \* agent_credentials: the Agent of each stored credential
    process,     \* "down", "waiting", "claimed", "running", or "refused": gave up
    token,       \* the pairing token a process works with
    credential,  \* the credential it has generated
    answer,      \* the Agent its claim was answered with
    late,        \* claim requests given up by their process and not yet executed
    identity     \* identity.json

tableVars   == <<status, expired, name, owner, agents, holder>>
processVars == <<process, token, credential, answer>>
vars == <<tableVars, processVars, late, identity>>

Status  == {"none", "pending", "approved", "claimed", "rejected"}
Claim   == [token : Enrollments, credential : Credentials]

TypeOK ==
    /\ status     \in [Enrollments -> Status]
    /\ expired    \subseteq Enrollments
    /\ name       \in [Enrollments -> Names \cup {NoName}]
    /\ owner      \in [Enrollments -> Names \cup {NoName}]
    /\ agents     \subseteq Names
    /\ holder     \in [Credentials -> Names \cup {NoName}]
    /\ process    \in [Hosts -> {"down", "waiting", "claimed", "running", "refused"}]
    /\ token      \in [Hosts -> Enrollments \cup {NoEnrollment}]
    /\ credential \in [Hosts -> Credentials \cup {NoCredential}]
    /\ answer     \in [Hosts -> Names \cup {NoName}]
    /\ late       \subseteq Claim
    /\ identity   \in [Hosts -> [agent : Names, credential : Credentials] \cup {NoIdentity}]
    /\ \A h \in Hosts : /\ process[h] \in {"waiting", "claimed"} => token[h] \in Enrollments
                        /\ process[h] \in {"waiting", "claimed"} => credential[h] \in Credentials
                        /\ process[h] = "claimed" => answer[h] \in Names

Init ==
    /\ status     = [e \in Enrollments |-> "none"]
    /\ expired    = {}
    /\ name       = [e \in Enrollments |-> NoName]
    /\ owner      = [e \in Enrollments |-> NoName]
    /\ agents     = {}
    /\ holder     = [c \in Credentials |-> NoName]
    /\ process    = [h \in Hosts |-> "down"]
    /\ token      = [h \in Hosts |-> NoEnrollment]
    /\ credential = [h \in Hosts |-> NoCredential]
    /\ answer     = [h \in Hosts |-> NoName]
    /\ late       = {}
    /\ identity   = [h \in Hosts |-> NoIdentity]

-----------------------------------------------------------------------------
(***************************************************************************)
(* Enrollments and administrators.                                         *)
(***************************************************************************)
CreateAgentEnrollment(e, s, n) ==
    /\ status[e] = "none"
    /\ status' = [status EXCEPT ![e] = s]
    /\ name'   = [name EXCEPT ![e] = n]
    /\ UNCHANGED <<expired, owner, agents, holder>>

\* A token that administrators hand out together with the command to run.
Preauthorize(e, n) ==
    /\ CreateAgentEnrollment(e, "approved", n)
    /\ UNCHANGED <<processVars, late, identity>>

ApproveAgentEnrollment(e, n) ==
    /\ status[e] = "pending" /\ e \notin expired
    /\ status' = [status EXCEPT ![e] = "approved"]
    /\ name'   = [name EXCEPT ![e] = n]
    /\ UNCHANGED <<expired, owner, agents, holder, processVars, late, identity>>

RejectAgentEnrollment(e) ==
    /\ status[e] = "pending" /\ e \notin expired
    /\ status' = [status EXCEPT ![e] = "rejected"]
    /\ UNCHANGED <<expired, name, owner, agents, holder, processVars, late, identity>>

Expire(e) ==
    /\ status[e] # "none" /\ e \notin expired
    /\ expired' = expired \cup {e}
    /\ UNCHANGED <<status, name, owner, agents, holder, processVars, late, identity>>

-----------------------------------------------------------------------------
(***************************************************************************)
(* The claim of enrollment e with credential c.                            *)
(***************************************************************************)
\* (mutant) A claimed enrollment is refused without a look at the credential.
Repeats_Never(e, c) == FALSE

\* (mutant) A claimed enrollment is answered without a look at the credential.
Repeats_AnyCredential(e, c) == status[e] = "claimed"

\* It was this credential that claimed e.
Repeats(e, c) ==
    /\ status[e] = "claimed"
    /\ holder[c] # NoName
    /\ holder[c] = owner[e]

\* (mutant) Expiry is left to the list that administrators see.
Admits_Expired(e, c) ==
    /\ status[e] = "approved"
    /\ name[e] \notin agents
    /\ holder[c] = NoName

\* e can be claimed now; the name and the credential's id are UNIQUE.
Admits(e, c) ==
    /\ status[e] = "approved" /\ e \notin expired
    /\ name[e] \notin agents
    /\ holder[c] = NoName

\* (mutant) The process does not take expiry for the end.
Refuses_NotExpired(e, c) ==
    \/ status[e] = "claimed" /\ ~Repeats(e, c)
    \/ status[e] = "rejected"
    \/ status[e] = "approved" /\ name[e] \in agents

\* The answers on which a process exits; on any other it asks again.
Refuses(e, c) ==
    \/ status[e] = "claimed" /\ ~Repeats(e, c)
    \/ status[e] # "claimed" /\ e \in expired
    \/ status[e] = "rejected"
    \/ status[e] = "approved" /\ name[e] \in agents

\* (mutant) The enrollment stays approved.
ClaimAgentEnrollment_StaysApproved(e, c) ==
    /\ owner'  = IF Admits(e, c) THEN [owner EXCEPT ![e] = name[e]] ELSE owner
    /\ agents' = IF Admits(e, c) THEN agents \cup {name[e]} ELSE agents
    /\ holder' = IF Admits(e, c) THEN [holder EXCEPT ![c] = name[e]] ELSE holder
    /\ UNCHANGED <<status, expired, name>>

ClaimAgentEnrollment(e, c) ==
    IF Admits(e, c)
    THEN /\ agents' = agents \cup {name[e]}
         /\ holder' = [holder EXCEPT ![c] = name[e]]
         /\ owner'  = [owner EXCEPT ![e] = name[e]]
         /\ status' = [status EXCEPT ![e] = "claimed"]
         /\ UNCHANGED <<expired, name>>
    ELSE UNCHANGED tableVars

-----------------------------------------------------------------------------
(***************************************************************************)
(* Hosts.                                                                  *)
(***************************************************************************)
Stopped(h) == process[h] \in {"down", "refused"}

\* Generated at random: not known anywhere.
Fresh(c) ==
    /\ holder[c] = NoName
    /\ \A h \in Hosts : credential[h] # c
    /\ \A r \in late : r.credential # c

Wait(h, e, c) ==
    /\ Stopped(h)
    /\ identity[h] = NoIdentity
    /\ Fresh(c)
    /\ process'    = [process EXCEPT ![h] = "waiting"]
    /\ token'      = [token EXCEPT ![h] = e]
    /\ credential' = [credential EXCEPT ![h] = c]
    /\ UNCHANGED <<answer, late, identity>>

\* The end of a process, whatever it had in memory.
Exit(h, s) ==
    /\ process'    = [process EXCEPT ![h] = s]
    /\ token'      = [token EXCEPT ![h] = NoEnrollment]
    /\ credential' = [credential EXCEPT ![h] = NoCredential]
    /\ answer'     = [answer EXCEPT ![h] = NoName]

\* `connect`: a new enrollment with every start.
Connect(h, e, c) ==
    /\ CreateAgentEnrollment(e, "pending", NoName)
    /\ Wait(h, e, c)

\* The answer to the pairing request is lost; the process exits.
ConnectFails(h, e) ==
    /\ Stopped(h)
    /\ identity[h] = NoIdentity
    /\ CreateAgentEnrollment(e, "pending", NoName)
    /\ UNCHANGED <<processVars, late, identity>>

\* `join`, with any token that was shown to somebody; two hosts may use one.
Join(h, e, c) ==
    /\ status[e] # "none"
    /\ Wait(h, e, c)
    /\ UNCHANGED tableVars

\* A start that finds the identity file.
Resume(h) ==
    /\ Stopped(h)
    /\ identity[h] # NoIdentity
    /\ process' = [process EXCEPT ![h] = "running"]
    /\ UNCHANGED <<tableVars, token, credential, answer, late, identity>>

ClaimAnswered(h) ==
    LET e == token[h]
        c == credential[h]
    IN  /\ process[h] = "waiting"
        /\ Admits(e, c) \/ Repeats(e, c)
        /\ ClaimAgentEnrollment(e, c)
        /\ process' = [process EXCEPT ![h] = "claimed"]
        /\ answer'  = [answer EXCEPT ![h] = name[e]]
        /\ UNCHANGED <<token, credential, late, identity>>

\* Rejected, expired, claimed by another credential, or the name is taken.
ClaimRefused(h) ==
    /\ process[h] = "waiting"
    /\ Refuses(token[h], credential[h])
    /\ Exit(h, "refused")
    /\ UNCHANGED <<tableVars, late, identity>>

\* The process gives up this request and asks again after its interval; the
\* Center may execute it later.
ClaimTimesOut(h) ==
    /\ process[h] = "waiting"
    /\ late' = late \cup {[token |-> token[h], credential |-> credential[h]]}
    /\ UNCHANGED <<tableVars, processVars, identity>>

\* A request that nobody waits for is executed, or lost.
LateClaim(r) ==
    /\ r \in late
    /\ late' = late \ {r}
    /\ ClaimAgentEnrollment(r.token, r.credential) \/ UNCHANGED tableVars
    /\ UNCHANGED <<processVars, identity>>

\* Written beside and renamed: all or nothing.  With --pair-only it ends here.
SaveIdentity(h) ==
    /\ process[h] = "claimed"
    /\ identity' = [identity EXCEPT ![h] = [agent |-> answer[h], credential |-> credential[h]]]
    /\ \E s \in {"running", "down"} : Exit(h, s)
    /\ UNCHANGED <<tableVars, late>>

\* It dies, is stopped, or cannot write the file.
Crash(h) ==
    /\ ~Stopped(h)
    /\ Exit(h, "down")
    /\ UNCHANGED <<tableVars, late, identity>>

-----------------------------------------------------------------------------
Administer(e) ==
    \/ \E n \in Names : Preauthorize(e, n) \/ ApproveAgentEnrollment(e, n)
    \/ RejectAgentEnrollment(e)

Start(h) ==
    \/ \E e \in Enrollments : ConnectFails(h, e)
    \/ \E e \in Enrollments, c \in Credentials : Connect(h, e, c) \/ Join(h, e, c)
    \/ Resume(h)

Pair(h) ==
    \/ ClaimAnswered(h)
    \/ ClaimRefused(h)
    \/ ClaimTimesOut(h)
    \/ SaveIdentity(h)
    \/ Crash(h)

Next ==
    \/ \E e \in Enrollments : Administer(e) \/ Expire(e)
    \/ \E h \in Hosts : Start(h) \/ Pair(h)
    \/ \E r \in late : LateClaim(r)

Spec == Init /\ [][Next]_vars

(***************************************************************************)
(* A process repeats its claim until it is answered, and the answer gets   *)
(* through at some time.                                                   *)
(***************************************************************************)
Fairness ==
    \A h \in Hosts : /\ WF_vars(ClaimAnswered(h))
                     /\ WF_vars(ClaimRefused(h))
                     /\ WF_vars(SaveIdentity(h))

FairSpec == Spec /\ Fairness

-----------------------------------------------------------------------------
\* Through lost answers, late requests and tokens used twice: an Agent exists
\* only for an enrollment that was claimed, with the name it was approved for,
\* one for each, and with one credential.
OneAgentPerEnrollment ==
    /\ agents = {owner[e] : e \in {f \in Enrollments : status[f] = "claimed"}}
    /\ \A e, f \in Enrollments :
           status[e] = "claimed" /\ status[f] = "claimed" /\ owner[e] = owner[f] => e = f
    /\ \A e \in Enrollments : status[e] = "claimed" => owner[e] = name[e]
    /\ \A a \in agents : \E c \in Credentials : holder[c] = a
    /\ \A c, d \in Credentials : holder[c] # NoName /\ holder[c] = holder[d] => c = d

\* Every identity a host has saved, or is about to save, authenticates as the
\* Agent it names, and no other host has an identity of that Agent.
IdentitiesAuthenticate ==
    /\ \A h \in Hosts : identity[h] # NoIdentity =>
           holder[identity[h].credential] = identity[h].agent
    /\ \A h \in Hosts : process[h] = "claimed" => holder[credential[h]] = answer[h]
    /\ \A h, k \in Hosts :
           /\ identity[h] # NoIdentity /\ identity[k] # NoIdentity
           /\ identity[h].agent = identity[k].agent
           => h = k

\* The Center accepts the repeated claim of a process whose first one it has
\* executed: the process is not told that its enrollment was used by another.
RetryIsAccepted ==
    \A h \in Hosts : process[h] = "waiting" /\ holder[credential[h]] # NoName =>
        ~Refuses(token[h], credential[h])

\* A rejected, expired or used token changes nothing any more.
DeadTokensStayDead ==
    [][\A e \in Enrollments :
           status[e] \in {"rejected", "claimed"} \/ e \in expired =>
               status'[e] = status[e] /\ owner'[e] = owner[e] /\ name'[e] = name[e]]_vars

\* An enrollment whose time is over is out of use, unless it was used or rejected before.
Stage  == [e \in Enrollments |-> IF status[e] \in {"pending", "approved"} /\ e \in expired
                                  THEN "expired" ELSE status[e]]
KeysOf == [n \in Names |-> {c \in Credentials : holder[c] = n}]
HomeOf == [n \in Names |-> {h \in Hosts : identity[h] # NoIdentity /\ identity[h].agent = n}]

Lifecycle == INSTANCE Pairing WITH stage <- Stage, agent <- name, keys <- KeysOf, home <- HomeOf,
                                   Keys <- Credentials, Machines <- Hosts

\* Lost answers, late and repeated claims, shared tokens and crashes change nothing of
\* the way from a request to an Agent on its machine.
ImplementsPairing == Lifecycle!Spec

\* Nobody waits for ever: the claim of a process whose enrollment was decided
\* on, or has expired, is answered or refused at last.
DecisionsAreLearnt ==
    \A h \in Hosts :
        process[h] = "waiting" /\ (status[token[h]] # "pending" \/ token[h] \in expired)
            ~> process[h] # "waiting"

\* Once the Center has made an Agent for a waiting process, the process gets
\* its identity unless it dies first.
CommittedClaimIsLearnt ==
    \A h \in Hosts :
        process[h] = "waiting" /\ holder[credential[h]] # NoName
            ~> identity[h] # NoIdentity \/ process[h] = "down"
=============================================================================
