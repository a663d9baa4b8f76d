------------------------------ MODULE Dialogue ------------------------------
(***************************************************************************)
(* What the browser promises about the requests a secret manager gets      *)
(* through one of its registrations: it serves one request at a time, and  *)
(* it is only asked what the standing requests, those it accepted and did  *)
(* not reject, allow: a field is added once and revised after it was       *)
(* added, and the messages of a challenge come once each and in order.     *)
(***************************************************************************)
CONSTANTS
    Handlers,       \* the registrations
    Requests,       \* the requests
    Ask,            \* what each request asks for
    Requires(_),    \* what has to stand before this is asked
    Once(_)         \* whether this may stand only once

VARIABLES
    serving,        \* the request each registration serves, as a set
    standing        \* the requests of each registration that stand

vars == <<serving, standing>>

Init ==
    /\ serving = [h \in Handlers |-> {}]
    /\ standing = [h \in Handlers |-> {}]

Asked(h) == {Ask[r] : r \in standing[h]}

Legal(h, r) ==
    /\ Requires(Ask[r]) \subseteq Asked(h)
    /\ Once(Ask[r]) => Ask[r] \notin Asked(h)

\* The browser turns to r, and no other request may be in the way.
Begin(h, r) ==
    /\ serving[h] = {}
    /\ \A g \in Handlers : r \notin standing[g]
    /\ serving' = [serving EXCEPT ![h] = {r}]
    /\ UNCHANGED standing

\* r is handed to the manager.
Accept(h, r) ==
    /\ serving[h] = {r}
    /\ r \notin standing[h]
    /\ Legal(h, r)
    /\ standing' = [standing EXCEPT ![h] = @ \union {r}]
    /\ UNCHANGED serving

\* r is over: granted, and then it stands, or refused by browser or manager.
Finish(h, r) ==
    /\ serving[h] = {r}
    /\ serving' = [serving EXCEPT ![h] = {}]
    /\ standing' \in {standing, [standing EXCEPT ![h] = @ \ {r}]}

Next == \E h \in Handlers, r \in Requests : Begin(h, r) \/ Accept(h, r) \/ Finish(h, r)

Spec == Init /\ [][Next]_vars
=============================================================================
