------------------------------ MODULE Pairing ------------------------------
(***************************************************************************)
(* What enrollment promises: an enrollment that is approved in time makes  *)
(* one Agent, an Agent has one key, and one machine holds its identity.    *)
(* No requests, answers, retries or processes: Enrollment implements this  *)
(* specification with them.                                                *)
(***************************************************************************)
CONSTANTS Enrollments, Names, Keys, Machines, NoName

VARIABLES stage,    \* of each enrollment
          agent,    \* the Agent an enrollment was approved for
          keys,     \* of each Agent: the keys it is known by
          home      \* of each Agent: the machines that hold its identity

vars == <<stage, agent, keys, home>>

Open  == {"pending", "approved"}
Final == {"claimed", "rejected", "expired"}

Init ==
    /\ stage = [e \in Enrollments |-> "none"]
    /\ agent = [e \in Enrollments |-> NoName]
    /\ keys  = [n \in Names |-> {}]
    /\ home  = [n \in Names |-> {}]

-----------------------------------------------------------------------------
Ask(e) ==
    /\ stage[e] = "none"
    /\ stage' = [stage EXCEPT ![e] = "pending"]
    /\ UNCHANGED <<agent, keys, home>>

\* Administrators approve what was asked for, or beforehand.
Approve(e, n) ==
    /\ stage[e] \in {"none", "pending"}
    /\ stage' = [stage EXCEPT ![e] = "approved"]
    /\ agent' = [agent EXCEPT ![e] = n]
    /\ UNCHANGED <<keys, home>>

Reject(e) ==
    /\ stage[e] = "pending"
    /\ stage' = [stage EXCEPT ![e] = "rejected"]
    /\ UNCHANGED <<agent, keys, home>>

Expire(e) ==
    /\ stage[e] \in Open
    /\ stage' = [stage EXCEPT ![e] = "expired"]
    /\ UNCHANGED <<agent, keys, home>>

\* The Agent comes into being, with a key that no other one has.
Claim(e, k) ==
    /\ stage[e] = "approved"
    /\ keys[agent[e]] = {}
    /\ \A n \in Names : k \notin keys[n]
    /\ stage' = [stage EXCEPT ![e] = "claimed"]
    /\ keys'  = [keys EXCEPT ![agent[e]] = {k}]
    /\ UNCHANGED <<agent, home>>

\* A machine without an identity gets that of an Agent without a machine.
Settle(n, m) ==
    /\ keys[n] # {} /\ home[n] = {}
    /\ \A other \in Names : m \notin home[other]
    /\ home' = [home EXCEPT ![n] = {m}]
    /\ UNCHANGED <<stage, agent, keys>>

Next ==
    \/ \E e \in Enrollments :
         \/ Ask(e) \/ Reject(e) \/ Expire(e)
         \/ \E n \in Names : Approve(e, n)
         \/ \E k \in Keys : Claim(e, k)
    \/ \E n \in Names, m \in Machines : Settle(n, m)

Spec == Init /\ [][Next]_vars

-----------------------------------------------------------------------------
\* What follows: an Agent is that of one claimed enrollment, has one key, which is its
\* own, and at most one machine, which has no other identity.
Promise ==
    /\ \A n \in Names : keys[n] # {} =>
           /\ \E e \in Enrollments : stage[e] = "claimed" /\ agent[e] = n
           /\ \E k \in Keys : keys[n] = {k}
    /\ \A e, f \in Enrollments :
           stage[e] = "claimed" /\ stage[f] = "claimed" /\ agent[e] = agent[f] => e = f
    /\ \A n \in Names : home[n] = {} \/ (keys[n] # {} /\ \E m \in Machines : home[n] = {m})
    /\ \A n, o \in Names : n # o => keys[n] \cap keys[o] = {} /\ home[n] \cap home[o] = {}

\* And what is decided, stays: an enrollment that is over, an Agent's key and its machine.
Lasting ==
    [][/\ \A e \in Enrollments : stage[e] \in Final =>
              stage'[e] = stage[e] /\ agent'[e] = agent[e]
       /\ \A n \in Names : /\ keys[n] # {} => keys'[n] = keys[n]
                           /\ home[n] # {} => home'[n] = home[n]]_vars
==============================================================================
