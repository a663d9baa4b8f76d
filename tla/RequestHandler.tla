--------------------------- MODULE RequestHandler ---------------------------
(***************************************************************************)
(* The browser's side of a secret manager: the Liaison, which keeps the    *)
(* manager's registration, and the SequentialRequestHandler every          *)
(* registration gets, with its validators (Liaison.sys.mts and             *)
(* RequestHandler.sys.mts).                                                *)
(*                                                                         *)
(* A handler method runs until its next await, so an action is a stretch   *)
(* of code between two awaits.  The manager answers when it likes, by a    *)
(* call of resolve or reject that nothing ties to the request it was given *)
(* last; Misbehaviours says which liberties it takes.                      *)
(***************************************************************************)
EXTENDS Integers, Sequences

CONSTANTS
    Handlers,       \* the successive registrations of the manager
    Fields,         \* fields of an operation (operation id and field id)
    Dictated,       \* those whose value the web application gives
    Challenges,     \* challenges of an operation (operation and challenge id)
    ChallengeType,  \* their types
    Requests,       \* the requests the web applications make
    Ask,            \* what each of them asks for
    Misbehaviours   \* what the manager may do besides answering once

MessageNames == {"GetIdentityFields", "GetPasswordFields", "SelectKey", "SignNonce",
                 "SelectSecurePassword", "ExchangePublicKeys", "ComputeClientProof",
                 "VerifyServerProof", "GetOtp"}

\* The messages of a challenge, in the order the validator expects them.
Names ==
    [Identification       |-> <<"GetIdentityFields">>,
     Password             |-> <<"GetPasswordFields">>,
     DigitalSignature     |-> <<"SelectKey", "SignNonce">>,
     SecureRemotePassword |-> <<"SelectSecurePassword", "ExchangePublicKeys",
                                "ComputeClientProof", "VerifyServerProof">>,
     OffChannelOtp        |-> <<"GetOtp">>]

\* The methods of a manager, by group.  IsolatedRequestHandler wraps each of them
\* alike: preCall, the manager's method, and preResolve or preReject.
ManagerMethods == {"getSigningKey", "getCredentialsMetadata"}
SignatureMethods == {"signKeyExchangeParameters", "verifySignedKeyExchangeParameters",
                     "enableEndToEndEncryption"}
ChannelMethods == {"createChannel", "generateX25519Key", "closeChannel"}
                  \union SignatureMethods
LoginMethods == {"approveOperation", "closeOperation", "getRecordMetadata", "updateMetadata"}
CreationMethods == {"approveTransitionToAuthOp", "getUserAttributes", "updateUserAttributes"}
AuthenticationMethods == {"approveChallengeRequest", "abortChallenge", "closeChallenge"}

AddField == [group : {"accountCreation"}, method : {"addField"}, field : Fields]
RejectFieldValue ==
    [group : {"accountCreation"}, method : {"rejectFieldValue"}, field : Fields]
RespondToChallengeMessage ==
    [group : {"accountAuthentication"}, method : {"respondToChallengeMessage"},
     challenge : Challenges, name : MessageNames]

\* The requests no validator looks at.  PublicRequestHandler gives each of
\* them its type, and the caller a promise for it.
ManagerRequests == [group : {"manager"}, method : ManagerMethods]
ChannelRequests == [group : {"channel"}, method : ChannelMethods]
LoginRequests == [group : {"login"}, method : LoginMethods]
CreationRequests == [group : {"accountCreation"}, method : CreationMethods]
AuthenticationRequests == [group : {"accountAuthentication"}, method : AuthenticationMethods]
Others == ManagerRequests \union ChannelRequests \union LoginRequests
          \union CreationRequests \union AuthenticationRequests

ASSUME AsksAssumption ==
    /\ Dictated \subseteq Fields
    /\ ChallengeType \in [Challenges -> DOMAIN Names]
    /\ Ask \in [Requests -> AddField \union RejectFieldValue
                              \union RespondToChallengeMessage \union Others]
    /\ Misbehaviours \subseteq {"answers twice", "resolves badly", "throws"}

NoHandler == "no handler"
ASSUME HandlersAssumption == NoHandler \notin Handlers

VARIABLES
    current,    \* the handler the Liaison hands out
    spent,      \* the registrations so far
    busy,       \* of each handler
    fields,     \* FieldIdValidator's #fields
    counter,    \* ChallangeMessagingSequenceValidator's #counter
    via,        \* the handler a request went to
    stage,      \* how far a request got: its refusal, or "delivered"
    answers,    \* how often the manager answered a request
    settling,   \* answers whose handling awaits its next turn
    reply       \* how the caller's promise was settled

liaison == <<current, spent>>
handler == <<busy, fields, counter>>
vars == <<liaison, handler, via, stage, answers, settling, reply>>

Refusals == {"no manager", "busy", "malformed", "already exists",
             "does not exist", "illegal message"}

TypeOK ==
    /\ current \in Handlers \union {NoHandler}
    /\ spent \subseteq Handlers
    /\ busy \in [Handlers -> BOOLEAN]
    /\ fields \in [Handlers -> SUBSET Fields]
    /\ counter \in [Handlers -> [Challenges -> Int]]
    /\ via \in [Requests -> Handlers \union {NoHandler}]
    /\ stage \in [Requests -> {"unsent", "called", "delivered"} \union Refusals]
    /\ answers \in [Requests -> 0 .. 2]
    /\ settling \in [Requests -> SUBSET {"resolved", "rejected"}]
    /\ reply \in [Requests -> {"none", "resolved", "rejected"}]
    /\ \A r \in Requests : stage[r] \in {"called", "delivered"} => via[r] \in Handlers

-----------------------------------------------------------------------------
Init ==
    /\ current = NoHandler
    /\ spent = {}
    /\ busy = [h \in Handlers |-> FALSE]
    /\ fields = [h \in Handlers |-> {}]
    /\ counter = [h \in Handlers |-> [c \in Challenges |-> 0]]
    /\ via = [r \in Requests |-> NoHandler]
    /\ stage = [r \in Requests |-> "unsent"]
    /\ answers = [r \in Requests |-> 0]
    /\ settling = [r \in Requests |-> {}]
    /\ reply = [r \in Requests |-> "none"]

(***************************************************************************)
(* Liaison                                                                 *)
(***************************************************************************)
\* Mutant: the registrations share the validators.
RegisterManagerSharing(h) ==
    /\ current = NoHandler
    /\ h \notin spent
    /\ current' = h
    /\ spent' = spent \union {h}
    /\ fields' = [fields EXCEPT ![h] = UNION {fields[g] : g \in Handlers}]
    /\ \E g \in {h} \union spent : counter' = [counter EXCEPT ![h] = counter[g]]
    /\ UNCHANGED <<busy, via, stage, answers, settling, reply>>

\* registerManager: a fresh SequentialRequestHandler.
RegisterManager(h) ==
    /\ current = NoHandler
    /\ h \notin spent
    /\ current' = h
    /\ spent' = spent \union {h}
    /\ UNCHANGED <<handler, via, stage, answers, settling, reply>>

EreaseManager ==
    /\ current # NoHandler
    /\ current' = NoHandler
    /\ UNCHANGED <<spent, handler, via, stage, answers, settling, reply>>

(***************************************************************************)
(* preCall                                                                 *)
(***************************************************************************)
Refuse(r, reason) ==
    /\ stage' = [stage EXCEPT ![r] = reason]
    /\ reply' = [reply EXCEPT ![r] = "rejected"]

\* Mutants of Call: without the test of the registration, and of the busy flag.
LetIn(r) ==
    /\ stage[r] = "unsent"
    /\ via' = [via EXCEPT ![r] = current]
    /\ busy' = [h \in Handlers |-> h = current \/ busy[h]]
    /\ stage' = [stage EXCEPT ![r] = "called"]
    /\ UNCHANGED <<liaison, fields, counter, answers, settling, reply>>

LetInWhileBusy(r) == current # NoHandler /\ LetIn(r)

\* getRequestHandler, and SequentialRequestHandler.preCall to its first await.
Call(r) ==
    /\ stage[r] = "unsent"
    /\ \/ /\ current = NoHandler
          /\ Refuse(r, "no manager")
          /\ UNCHANGED <<busy, via>>
       \/ /\ current # NoHandler
          /\ via' = [via EXCEPT ![r] = current]
          /\ \/ /\ busy[current]
                /\ Refuse(r, "busy")
                /\ UNCHANGED busy
             \/ /\ ~ busy[current]
                /\ busy' = [busy EXCEPT ![current] = TRUE]
                /\ stage' = [stage EXCEPT ![r] = "called"]
                /\ UNCHANGED reply
    /\ UNCHANGED <<liaison, fields, counter, answers, settling>>

\* Mutant: a message may be left out.
IsLaterMessage(h, a) ==
    LET names == Names[ChallengeType[a.challenge]]
    IN  \E i \in DOMAIN names : i > counter[h][a.challenge] /\ names[i] = a.name

\* The name of the message the counter of a challenge has come to.
IsNextMessage(h, a) ==
    LET names == Names[ChallengeType[a.challenge]]
        i == counter[h][a.challenge] + 1
    IN  i \in DOMAIN names /\ names[i] = a.name

\* consume: the error a validator throws, "none" if none does.
Refusal(h, a) ==
    CASE a \in AddField /\ a.field \in fields[h] -> "already exists"
      [] a \in RejectFieldValue /\ a.field \notin fields[h] -> "does not exist"
      [] a \in RespondToChallengeMessage /\ ~ IsNextMessage(h, a) -> "illegal message"
      [] OTHER -> "none"

\* consume: what the validators note of the request.
Consume(h, a) ==
    /\ fields' = IF a \in AddField
                 THEN [fields EXCEPT ![h] = @ \union {a.field}] ELSE fields
    /\ counter' = IF a \in RespondToChallengeMessage
                  THEN [counter EXCEPT ![h][a.challenge] = @ + 1] ELSE counter

\* normalize: the arguments are not modelled, and may be of their type or not.
SchemaVerdicts == {"malformed", "none"}

\* ValidatedRequestHandler.preCall after its await, and the manager's method.
Deliver(r) ==
    LET h == via[r]
        a == Ask[r]
    IN
    /\ stage[r] = "called"
    /\ \/ \E reason \in (SchemaVerdicts \union {Refusal(h, a)}) \ {"none"} :
            /\ Refuse(r, reason)
            /\ busy' = [busy EXCEPT ![h] = FALSE]
            /\ UNCHANGED <<fields, counter>>
       \/ /\ Refusal(h, a) = "none"
          /\ Consume(h, a)
          /\ stage' = [stage EXCEPT ![r] = "delivered"]
          /\ UNCHANGED <<busy, reply>>
    /\ UNCHANGED <<liaison, via, answers, settling>>

(***************************************************************************)
(* The manager's answers.  resolve and reject clear the busy flag before   *)
(* their first await, and the caller hears of the answer after it.         *)
(***************************************************************************)
MayAnswer(r) ==
    /\ stage[r] = "delivered"
    /\ \/ answers[r] = 0
       \/ answers[r] = 1 /\ "answers twice" \in Misbehaviours

\* Mutant: the flag stays up.
FreeLater(r) ==
    /\ MayAnswer(r)
    /\ answers' = [answers EXCEPT ![r] = @ + 1]
    /\ UNCHANGED busy

\* busy is cleared by SequentialRequestHandler, whoever it was set for.
Free(r) ==
    /\ MayAnswer(r)
    /\ answers' = [answers EXCEPT ![r] = @ + 1]
    /\ busy' = [busy EXCEPT ![via[r]] = FALSE]

Await(r, outcome) == settling' = [settling EXCEPT ![r] = @ \union {outcome}]

\* What a manager may answer: null, what the method is for, the value of another
\* type of field, or something else.
Outputs == {"null", "value", "value of another field", "something else"}

\* The methods whose result may be anything.
Untyped == (SignatureMethods \ {"signKeyExchangeParameters"}) \union AuthenticationMethods
    \union {"createChannel", "closeChannel", "closeOperation", "updateMetadata",
            "approveTransitionToAuthOp", "updateUserAttributes"}

\* #validateValue with the result type of the method.
FitsResult(a, output) ==
    \/ a.method \in Untyped
    \/ output = "value"
    \/ a \in AddField \union RejectFieldValue /\ output # "something else"

\* The further checks of addField: the type of the field, and null just if the
\* web application gave the value.  Nothing calls the digest of the validators,
\* so that a revised value is not held to this.
FitsField(a, output) ==
    a \in AddField => output = IF a.field \in Dictated THEN "null" ELSE "value"

\* resolve, and preResolve
Resolve(r) ==
    /\ Free(r)
    /\ \E output \in Outputs :
        \/ /\ FitsResult(Ask[r], output) /\ FitsField(Ask[r], output)
           /\ Await(r, "resolved")
        \/ /\ ~ (FitsResult(Ask[r], output) /\ FitsField(Ask[r], output))
           /\ "resolves badly" \in Misbehaviours
           /\ Await(r, "rejected")
    /\ UNCHANGED <<liaison, fields, counter, via, stage, reply>>

\* Mutant: the counter is not rolled back.
RollbackOfFields(h, a) ==
    /\ fields' = IF a \in AddField
                 THEN [fields EXCEPT ![h] = @ \ {a.field}] ELSE fields
    /\ UNCHANGED counter

\* rollback of the validators
Rollback(h, a) ==
    /\ fields' = IF a \in AddField
                 THEN [fields EXCEPT ![h] = @ \ {a.field}] ELSE fields
    /\ counter' = IF a \in RespondToChallengeMessage
                  THEN [counter EXCEPT ![h][a.challenge] = @ - 1] ELSE counter

Reject(r) ==
    /\ Free(r)
    /\ Rollback(via[r], Ask[r])
    /\ Await(r, "rejected")
    /\ UNCHANGED <<liaison, via, stage, reply>>

Settled(r, outcome) == IF reply[r] = "none" THEN outcome ELSE reply[r]

\* handleUnexpectedException
Throw(r) ==
    /\ "throws" \in Misbehaviours
    /\ Free(r)
    /\ reply' = [reply EXCEPT ![r] = Settled(r, "rejected")]
    /\ UNCHANGED <<liaison, fields, counter, via, stage, settling>>

\* context.response.resolve or reject: only the first settles the promise.
Settle(r) ==
    /\ \E outcome \in settling[r] :
        /\ reply' = [reply EXCEPT ![r] = Settled(r, outcome)]
        /\ settling' = [settling EXCEPT ![r] = @ \ {outcome}]
    /\ UNCHANGED <<liaison, handler, via, stage, answers>>

-----------------------------------------------------------------------------
Answer(r) == MayAnswer(r) /\ (Resolve(r) \/ Reject(r) \/ Throw(r))

Next ==
    \/ \E h \in Handlers : RegisterManager(h)
    \/ EreaseManager
    \/ \E r \in Requests : Call(r) \/ Deliver(r) \/ Answer(r) \/ Settle(r)

Spec == Init /\ [][Next]_vars

-----------------------------------------------------------------------------
(***************************************************************************)
(* Safety                                                                  *)
(***************************************************************************)
\* The requests a handler has let in and the manager has not answered.
Serving(h) ==
    {r \in Requests : via[r] = h /\ stage[r] \in {"called", "delivered"} /\ answers[r] = 0}

\* Requests the manager was given and has not rejected.
Standing(h) ==
    {r \in Requests : /\ via[r] = h
                      /\ stage[r] = "delivered"
                      /\ "rejected" \notin settling[r] \union {reply[r]}}

\* SequentialRequestHandler: "make sure to send one request at a time to the
\* secret manager" (RequestHandler.sys.mts:1532).
OneAtATime == \A h \in Handlers : \A r, s \in Serving(h) : r = s

\* The busy flag neither lets a request pass another one, nor shuts requests
\* out when there is none to wait for.
BusyWhileServing == \A h \in Handlers : busy[h] <=> Serving(h) # {}

\* The validators' tables say what a look at the standing requests would say:
\* a field is known if one request added it, and a challenge's counter is the
\* number of its messages that stand, which are its first ones.
IsMessage(r, c, name) ==
    Ask[r] \in RespondToChallengeMessage /\ Ask[r].challenge = c /\ Ask[r].name = name

TablesAreRight ==
    \A h \in Handlers :
        /\ \A f \in Fields :
            f \in fields[h] <=> \E r \in Standing(h) : Ask[r] \in AddField /\ Ask[r].field = f
        /\ \A c \in Challenges :
            LET names == Names[ChallengeType[c]]
            IN  /\ counter[h][c] \in 0 .. Len(names)
                /\ \A i \in DOMAIN names :
                    i <= counter[h][c] <=> \E r \in Standing(h) : IsMessage(r, c, names[i])

\* The manager is only asked to revise a field that it has itself granted.
RevisedFieldsWereGranted ==
    \A r \in Requests :
        stage[r] = "delivered" /\ Ask[r] \in RejectFieldValue =>
            \E s \in Standing(via[r]) :
                Ask[s] \in AddField /\ Ask[s].field = Ask[r].field /\ answers[s] = 1

(***************************************************************************)
(* The abstract dialogue                                                   *)
(***************************************************************************)
Requires(a) ==
    CASE a \in RejectFieldValue -> {x \in AddField : x.field = a.field}
      [] a \in RespondToChallengeMessage ->
            LET names == Names[ChallengeType[a.challenge]]
            IN  {[a EXCEPT !.name = names[i]] : i \in
                    {j \in DOMAIN names : \E k \in DOMAIN names : j < k /\ names[k] = a.name}}
      [] OTHER -> {}

Once(a) == a \in AddField \union RespondToChallengeMessage

DialogueOf == INSTANCE Dialogue WITH
    serving <- [h \in Handlers |-> Serving(h)],
    standing <- [h \in Handlers |-> Standing(h)]

\* The busy flag, the table of fields and the counters, updated at different
\* moments, implement the dialogue, which looks at the history instead.
ImplementsDialogue == DialogueOf!Spec
=============================================================================
