----------------------------- MODULE Directory -----------------------------
(***************************************************************************)
(* What the account backend promises: an identity is registered once, and  *)
(* every question about an identity is answered by whether it is           *)
(* registered at some moment between the question and the answer.          *)
(***************************************************************************)
CONSTANTS
    Requests,       \* the questions
    Identities,     \* what they are about
    Nobody          \* the subject of a request that has not been made

VARIABLES
    registered,     \* the identities that are
    subject,        \* what a request is about
    verdict         \* what was decided about it

vars == <<registered, subject, verdict>>

Init ==
    /\ registered = {}
    /\ subject = [r \in Requests |-> Nobody]
    /\ verdict = [r \in Requests |-> "none"]

Ask(r) ==
    /\ subject[r] = Nobody
    /\ \E i \in Identities : subject' = [subject EXCEPT ![r] = i]
    /\ UNCHANGED <<registered, verdict>>

Decide(r, outcome) ==
    /\ subject[r] # Nobody
    /\ verdict[r] = "none"
    /\ verdict' = [verdict EXCEPT ![r] = outcome]
    /\ UNCHANGED subject

Register(r) ==
    /\ subject[r] \notin registered
    /\ registered' = registered \union {subject[r]}
    /\ Decide(r, "new")

Find(r) ==
    /\ Decide(r, IF subject[r] \in registered THEN "known" ELSE "unknown")
    /\ UNCHANGED registered

Next == \E r \in Requests : Ask(r) \/ Register(r) \/ Find(r)

Spec == Init /\ [][Next]_vars
=============================================================================
