--------------------------- MODULE ExtensionBridge ---------------------------
(***************************************************************************)
(* The WebExtension API of a secret manager (ext-berytus.js): its half in  *)
(* the parent process, which hands the requests of RequestHandler to the   *)
(* extension as events, and its half in the extension's process, which     *)
(* calls the manager and sends its answers back.                           *)
(*                                                                         *)
(* The extension's background page is stopped and started again as the     *)
(* browser likes.  The parent process runs one call at a time to its end:  *)
(* turn is what is left of the call it is in.                              *)
(***************************************************************************)
EXTENDS Naturals, Sequences

CONSTANTS Handlers, Fields, Dictated, Challenges, ChallengeType, Requests, Ask, Misbehaviours,
    MaxStops        \* a bound: how often the background page stops

ASSUME BridgeAssumption == MaxStops \in Nat

VARIABLES current, spent, busy, fields, counter, via, stage, answers, settling, reply

Handler == INSTANCE RequestHandler
NoHandler == Handler!NoHandler

ASSUME RequestsAssumption == Handler!AsksAssumption /\ Handler!HandlersAssumption

VARIABLES
    turn,           \* the rest of the parent's current call
    known,          \* parent: #requests
    listening,      \* parent: the listeners of all events, which come together
    queued,         \* events the browser keeps for a page that sleeps
    sent,           \* events on their way to the background page
    toParent,       \* calls on their way to the parent
    replies,        \* resolveRequest and rejectRequest on their way to the parent
    background,     \* the background page
    connected,      \* child: whether listeners is set
    registered,     \* child: extensionRegistered
    registering,    \* child: how far registerRequestHandler got with the parent
    working,        \* requests the manager works on
    again,          \* answered requests it may yet answer again
    repeated,       \* history: whether it has
    leaving,        \* history: it asked to be unregistered since it registered
    interrupted,    \* history: requests that were lost with a page
    stops           \* counts the stops

handler == <<current, spent, busy, fields, counter, via, stage, answers, settling, reply>>
parent == <<turn, known, listening>>
child == <<background, connected, registered, registering>>
manager == <<working, again, repeated, leaving, interrupted, stops>>
bridge == <<parent, queued, sent, toParent, replies, child, manager>>
vars == <<handler, bridge>>

Calls == {"listen", "register", "unregister", "close"}
Turns == [to : {"nothing", "register", "reject", "throw"}, of : SUBSET Requests]
NoTurn == [to |-> "nothing", of |-> {}]
Replies == [request : Requests, how : {"resolve", "reject"}]

TypeOK ==
    /\ Handler!TypeOK
    /\ turn \in Turns
    /\ known \subseteq Requests
    /\ listening \in {"none", "primed", "live"}
    /\ queued \subseteq Requests
    /\ sent \subseteq Requests
    /\ toParent \in Seq(Calls)
    /\ replies \subseteq Replies
    /\ background \in {"off", "running", "disabled"}
    /\ connected \in BOOLEAN
    /\ registered \in BOOLEAN
    /\ registering \in {"no", "sent", "done"}
    /\ working \subseteq Requests
    /\ again \subseteq Requests
    /\ repeated \in BOOLEAN
    /\ leaving \in BOOLEAN
    /\ interrupted \subseteq Requests
    /\ stops \in 0 .. MaxStops

Init ==
    /\ Handler!Init
    /\ turn = NoTurn /\ known = {} /\ listening = "none"
    /\ queued = {} /\ sent = {} /\ toParent = <<>> /\ replies = {}
    /\ background = "off" /\ connected = FALSE
    /\ registered = FALSE /\ registering = "no"
    /\ working = {} /\ again = {} /\ repeated = FALSE
    /\ leaving = FALSE /\ interrupted = {} /\ stops = 0

-----------------------------------------------------------------------------
(***************************************************************************)
(* Parent: requests                                                        *)
(***************************************************************************)
Idle == turn = NoTurn

\* A request comes, or the answer to one goes back to its caller.
Browser ==
    /\ Idle
    /\ \E r \in Requests : Handler!Call(r) \/ Handler!Settle(r)
    /\ UNCHANGED bridge

Later(r, to) ==
    /\ turn' = [to |-> to, of |-> {r}]
    /\ UNCHANGED <<known, queued, sent>>

\* fire.async: a page that sleeps is woken and gets the event when it listens.
Fire(r) ==
    /\ known' = known \union {r}
    /\ queued' = IF listening = "primed" THEN queued \union {r} ELSE queued
    /\ sent' = IF listening = "live" THEN sent \union {r} ELSE sent
    /\ UNCHANGED turn

\* Mutant: a request nobody listens to is dropped.
FireListenersSilently(r) ==
    \/ /\ listening = "none"
       /\ UNCHANGED <<turn, known, queued, sent>>
    \/ /\ listening # "none"
       /\ Fire(r) \/ ("throws" \in Misbehaviours /\ Later(r, "throw"))

\* #fireListeners: without a listener the request is rejected; when its tab
\* is gone, tabTracker.getId throws.
FireListeners(r) ==
    \/ /\ listening = "none"
       /\ Later(r, "reject")
    \/ /\ listening # "none"
       /\ Fire(r) \/ ("throws" \in Misbehaviours /\ Later(r, "throw"))

\* A handler's method, up to and with the one of #liaisonHandler.
Deliver(r) ==
    /\ Idle
    /\ Handler!Deliver(r)
    /\ \/ stage'[r] = "delivered" /\ FireListeners(r)
       \/ stage'[r] # "delivered" /\ UNCHANGED <<turn, known, queued, sent>>
    /\ UNCHANGED <<listening, toParent, replies, child, manager>>

FinishDelivery ==
    /\ \E r \in turn.of :
        \/ turn.to = "reject" /\ Handler!Reject(r)
        \/ turn.to = "throw" /\ Handler!Throw(r)
    /\ turn' = NoTurn
    /\ UNCHANGED <<known, listening, queued, sent, toParent, replies, child, manager>>

\* resolveRequest and rejectRequest; #requests keeps what was answered.
HandleReply ==
    /\ Idle
    /\ \E m \in replies :
        /\ m.request \in known
        /\ \/ m.how = "resolve" /\ Handler!Resolve(m.request)
           \/ m.how = "reject" /\ Handler!Reject(m.request)
        /\ replies' = replies \ {m}
    /\ UNCHANGED <<parent, queued, sent, toParent, child, manager>>

(***************************************************************************)
(* Parent: registration                                                    *)
(***************************************************************************)
Receive(call) ==
    /\ toParent # <<>>
    /\ Head(toParent) = call
    /\ toParent' = Tail(toParent)

\* The handler of a persistent event; what was kept goes to the new listener.
HandleListen ==
    /\ Idle
    /\ Receive("listen")
    /\ listening' = "live"
    /\ sent' = sent \union queued
    /\ queued' = {}
    /\ UNCHANGED <<handler, turn, known, replies, child, manager>>

\* register: a manager the Liaison still has is erased first.
HandleRegister ==
    /\ Idle
    /\ Receive("register")
    /\ turn' = [to |-> "register", of |-> {}]
    /\ \/ current # NoHandler /\ Handler!EreaseManager
       \/ current = NoHandler /\ UNCHANGED handler
    /\ UNCHANGED <<known, listening, queued, sent, replies, child, manager>>

FinishRegister ==
    /\ turn.to = "register"
    /\ \E h \in Handlers : Handler!RegisterManager(h)
    /\ turn' = NoTurn
    /\ registering' = IF registering = "sent" THEN "done" ELSE registering
    /\ UNCHANGED <<known, listening, queued, sent, toParent, replies,
                   background, connected, registered, manager>>

HandleUnregister ==
    /\ Idle
    /\ Receive("unregister")
    /\ \/ current # NoHandler /\ Handler!EreaseManager
       \/ current = NoHandler /\ UNCHANGED handler
    /\ UNCHANGED <<parent, queued, sent, replies, child, manager>>

\* The page's context is gone: its listeners sleep, events sent to it are lost.
HandleClose ==
    /\ Idle
    /\ Receive("close")
    /\ listening' = IF listening = "live" THEN "primed" ELSE listening
    /\ sent' = {}
    /\ interrupted' = interrupted \union sent
    /\ UNCHANGED <<handler, turn, known, queued, replies, child,
                   working, again, repeated, leaving, stops>>

\* onShutdown, when the extension is disabled.
Shutdown ==
    /\ Idle
    /\ background # "disabled"
    /\ \/ current # NoHandler /\ Handler!EreaseManager
       \/ current = NoHandler /\ UNCHANGED handler
    /\ listening' = "none"
    /\ background' = "disabled"
    /\ connected' = FALSE
    /\ registered' = FALSE
    /\ registering' = "no"
    /\ interrupted' = interrupted \union queued \union sent \union working
                        \union {m.request : m \in replies}
    /\ queued' = {} /\ sent' = {} /\ working' = {} /\ again' = {}
    /\ toParent' = <<>> /\ replies' = {}
    /\ UNCHANGED <<turn, known, repeated, leaving, stops>>

(***************************************************************************)
(* Child: the background page                                              *)
(***************************************************************************)
Send(calls) == toParent' = toParent \o calls

Start ==
    /\ background = "off"
    /\ \A i \in DOMAIN toParent : toParent[i] # "close"
    /\ background' = "running"
    /\ UNCHANGED <<handler, parent, queued, sent, toParent, replies,
                   connected, registered, registering, manager>>

\* The page stops.  What the manager has handed to another of its pages is
\* kept; the rest of its work, and perhaps extensionRegistered, is lost.
Stop ==
    /\ background = "running"
    /\ stops < MaxStops
    /\ stops' = stops + 1
    /\ background' = "off"
    /\ connected' = FALSE
    /\ registering' = "no"
    /\ registered' \in {registered, FALSE}
    /\ working' \in SUBSET working
    /\ interrupted' = interrupted \union (working \ working')
    /\ Send(<<"close">>)
    /\ UNCHANGED <<handler, parent, queued, sent, replies, again, repeated, leaving>>

RegisterRequestHandler ==
    /\ background = "running"
    /\ ~ connected
    /\ connected' = TRUE
    /\ leaving' = FALSE
    /\ \/ registered /\ Send(<<"listen">>) /\ UNCHANGED registering
       \/ ~ registered /\ Send(<<"listen", "register">>) /\ registering' = "sent"
    /\ UNCHANGED <<handler, parent, queued, sent, replies, background, registered,
                   working, again, repeated, interrupted, stops>>

Registered ==
    /\ registering = "done"
    /\ registering' = "no"
    /\ registered' = TRUE
    /\ UNCHANGED <<handler, parent, queued, sent, toParent, replies,
                   background, connected, manager>>

\* With listeners, #removeEventListeners is called without them, and throws
\* before anything is undone.
UnregisterRequestHandler ==
    /\ background = "running"
    /\ ~ leaving
    /\ leaving' = TRUE
    /\ \/ connected /\ UNCHANGED <<toParent, registered>>
       \/ ~ connected /\ Send(<<"unregister">>) /\ registered' = FALSE
    /\ UNCHANGED <<handler, parent, queued, sent, replies, background, connected,
                   registering, working, again, repeated, interrupted, stops>>

(***************************************************************************)
(* Child: requests                                                         *)
(***************************************************************************)
\* The listener calls the manager's method.
Listen(r) ==
    /\ background = "running"
    /\ connected
    /\ r \in sent
    /\ sent' = sent \ {r}
    /\ working' = working \union {r}
    /\ UNCHANGED <<handler, parent, queued, toParent, replies, child,
                   again, repeated, leaving, interrupted, stops>>

\* The manager resolves or rejects, or its method throws.
Answer(r) ==
    /\ r \in working
    /\ working' = working \ {r}
    /\ again' \in {again, again \union {r}}
    /\ \E how \in {"resolve", "reject"} :
        replies' = replies \union {[request |-> r, how |-> how]}
    /\ UNCHANGED <<handler, parent, queued, sent, toParent, child,
                   repeated, leaving, interrupted, stops>>

\* Its method throws after it has answered: catch rejects once more.
AnswerAgain(r) ==
    /\ r \in again
    /\ again' = again \ {r}
    /\ repeated' = TRUE
    /\ replies' = replies \union {[request |-> r, how |-> "reject"]}
    /\ UNCHANGED <<handler, parent, queued, sent, toParent, child,
                   working, leaving, interrupted, stops>>

-----------------------------------------------------------------------------
Handle ==
    \/ FinishDelivery \/ FinishRegister
    \/ HandleReply \/ HandleListen \/ HandleRegister \/ HandleUnregister \/ HandleClose

Next ==
    \/ Browser \/ Handle \/ Shutdown
    \/ Start \/ Stop \/ RegisterRequestHandler \/ Registered \/ UnregisterRequestHandler
    \/ \E r \in Requests : Deliver(r) \/ Listen(r) \/ Answer(r) \/ AnswerAgain(r)

Spec == Init /\ [][Next]_vars

-----------------------------------------------------------------------------
(***************************************************************************)
(* Safety                                                                  *)
(***************************************************************************)
\* Until the manager answers a request twice, the busy flag of every handler is
\* up while it works on a request and only then, although an answer crosses two
\* processes, and the page may stop and register again before it comes.
BusyWhileServing == ~ repeated => Handler!BusyWhileServing

\* A request that keeps its handler busy is somewhere: it waits for a page,
\* is on its way, is worked on, or its answer is on its way; unless the page
\* that had it was stopped, which the parent does not notice.
Places(r) ==
    \/ r \in turn.of \union queued \union sent \union working \union interrupted
    \/ \E m \in replies : m.request = r

RequestsAreSomewhere ==
    \A r \in Requests : stage[r] = "delivered" /\ answers[r] = 0 => Places(r)

\* extensionRegistered, which spares the call of register, is never up while
\* the Liaison has forgotten the manager: it would not come back.
RegistrationIsKnown == registered => current # NoHandler \/ turn.to = "register"

\* The halves of the bridge agree on where requests and registrations are,
\* a handler is busy while it serves, and everything has its type.
BridgeInv == TypeOK /\ RequestsAreSomewhere /\ RegistrationIsKnown /\ BusyWhileServing

(***************************************************************************)
(* Liveness: the browser handles what it has received, starts the page and *)
(* runs its script, which registers (secretstar's main.ts:72), and the     *)
(* manager answers.                                                        *)
(***************************************************************************)
FairSpec ==
    /\ Spec
    /\ WF_vars(Handle) /\ WF_vars(Start)
    /\ WF_vars(RegisterRequestHandler) /\ WF_vars(Registered)
    /\ \A r \in Requests :
        /\ WF_vars(Deliver(r)) /\ WF_vars(Listen(r)) /\ WF_vars(Answer(r))
        /\ WF_vars(Idle /\ Handler!Settle(r) /\ UNCHANGED bridge)

\* Every call is settled, if need be by a page that had to be started first,
\* unless it was lost with a page.
CallsAreSettled ==
    \A r \in Requests : stage[r] = "called" ~> reply[r] # "none" \/ r \in interrupted
=============================================================================
