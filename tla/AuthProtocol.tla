---------------------------- MODULE AuthProtocol ----------------------------
(***************************************************************************)
(* What the authentication backend promises its clients: a session of      *)
(* several challenges, each a sequence of messages.  A challenge succeeds  *)
(* when all its messages were answered correctly and in order, a wrong     *)
(* answer may end it, and the session succeeds only after all challenges.  *)
(* AuthBackend implements this with concurrent, multi-statement requests.  *)
(***************************************************************************)
CONSTANTS
    Challenges,     \* the challenges of the session
    Messages(_),    \* the messages of a challenge
    Before(_)       \* the messages that come before a message

VARIABLES
    session,        \* "Pending" or "Succeeded"
    outcome,        \* of each challenge
    passed          \* the messages of each challenge answered correctly

vars == <<session, outcome, passed>>

Init ==
    /\ session = "Pending"
    /\ outcome = [c \in Challenges |-> "absent"]
    /\ passed = [c \in Challenges |-> {}]

Start(c) ==
    /\ session = "Pending"
    /\ outcome[c] = "absent"
    /\ outcome' = [outcome EXCEPT ![c] = "Pending"]
    /\ UNCHANGED <<session, passed>>

Pass(c, n) ==
    /\ session = "Pending"
    /\ outcome[c] = "Pending"
    /\ n \in Messages(c) \ passed[c]
    /\ Before(n) = passed[c]
    /\ passed' = [passed EXCEPT ![c] = @ \union {n}]
    /\ outcome' = [outcome EXCEPT ![c] =
            IF passed[c] \union {n} = Messages(c) THEN "Succeeded" ELSE @]
    /\ UNCHANGED session

Refuse(c) ==
    /\ session = "Pending"
    /\ outcome[c] = "Pending"
    /\ outcome' = [outcome EXCEPT ![c] = "Aborted"]
    /\ UNCHANGED <<session, passed>>

Succeed ==
    /\ session = "Pending"
    /\ \A c \in Challenges : outcome[c] = "Succeeded"
    /\ session' = "Succeeded"
    /\ UNCHANGED <<outcome, passed>>

Next ==
    \/ \E c \in Challenges :
        Start(c) \/ Refuse(c) \/ \E n \in Messages(c) : Pass(c, n)
    \/ Succeed

Spec == Init /\ [][Next]_vars
=============================================================================
