-------------------------------- MODULE Login --------------------------------
(***************************************************************************)
(* The web app's page (web-app/src/berytus): a walker that runs the steps  *)
(* of an account handler one by one, as the user presses Execute, and can  *)
(* start over with Restart.  A step is an async function: every call it    *)
(* awaits, of the browser or of the backend, is one action here, and the   *)
(* user may press a button between two of them.                            *)
(*                                                                         *)
(* The browser and the secret manager answer as they like: their parts     *)
(* are the modules Channel, Registration, Authentication and SecretStar.   *)
(* The backend is as much of AuthBackend and Accounts as the page sees.    *)
(***************************************************************************)
EXTENDS Naturals, Sequences, FiniteSets

CONSTANTS
    Usernames,      \* what the user can choose as a name
    Secrets,        \* passwords of Customer.V1, public keys of Customer.V3
    MaxRestarts,    \* bound on the handlers made anew
    Nothing

ASSUME ConstantsAssumption == MaxRestarts \in Nat /\ Nothing \notin Usernames \union Secrets

VARIABLES
    ui,             \* what the store shows and what the buttons depend on
    handler,        \* _handler: the generation of its instance and its label
    step,           \* the step that Execute runs
    handlers,       \* the instances and what they keep between their steps
    walk,           \* the walk() in flight and the call it awaits
    accounts,       \* the backend's Customer accounts
    vault           \* the accounts the secret manager has saved
vars == <<ui, handler, step, handlers, walk, accounts, vault>>

-----------------------------------------------------------------------------
(* Handlers and their steps                                                *)
V1 == <<"createChannel", "login",
        "addFields", "validateFields", "metadata", "save", "transitionToAuth",
        "createIdentificationChallenge", "identification",
        "createPasswordChallenge", "passwordAuth", "finishLogin", "closeChannel">>
V3 == <<"createChannel", "login",
        "addFields", "validateFields", "metadata", "save", "transitionToAuth",
        "createIdentificationChallenge", "identification",
        "createDsChallenge", "selectKey", "signNonce", "finishLogin", "closeChannel">>

\* getAccountHandlersList, in the order of the versions.
Labels == <<"V1", "V3">>
StepsOf(label) == IF label = "V1" THEN V1 ELSE V3
Has(label, s) == \E i \in DOMAIN StepsOf(label) : StepsOf(label)[i] = s

\* The first call each step awaits: from the channel to the user's identity and
\* at the end, while an account is created, and to prove who the user is.
SessionCalls ==
    [createChannel |-> "createChannel", login |-> "login",
     createIdentificationChallenge |-> "challengeId", identification |-> "getIdentityFields",
     finishLogin |-> "finish", closeChannel |-> "close"]
RegisterCalls ==
    [addFields |-> "addFields", validateFields |-> "exists", metadata |-> "setMetadata",
     save |-> "createAccount", transitionToAuth |-> "transition"]
ChallengeCalls ==
    [createPasswordChallenge |-> "challengeProof", createDsChallenge |-> "challengeProof"]
ProofCalls == [passwordAuth |-> "getSecret", selectKey |-> "getSecret", signNonce |-> "pendingMessage"]

RegisterSteps == DOMAIN RegisterCalls
ProofSteps == DOMAIN ProofCalls
FirstCall(s) ==
    CASE s \in DOMAIN SessionCalls -> SessionCalls[s]
      [] s \in RegisterSteps -> RegisterCalls[s]
      [] s \in DOMAIN ChallengeCalls -> ChallengeCalls[s]
      [] s \in ProofSteps -> ProofCalls[s]

\* A handler as its constructor leaves it.  id and proof are the challenges
\* of its operation; auth is its AuthSessionHandler with currentChallengeId;
\* session is the row that stands for it in the backend.
NewHandler ==
    [channel |-> "none", intent |-> "none", username |-> Nothing, secret |-> Nothing,
     id |-> "none", proof |-> "none", done |-> FALSE, auth |-> "none",
     session |-> [user |-> Nothing, challenge |-> "none", finished |-> FALSE]]

\* What a step asserts of its handler before its first call.
Asserts(h, s) ==
    /\ s \in {"login", "closeChannel"} => h.channel # "none"
    /\ s \in RegisterSteps => h.intent = "Register"
    /\ s \notin RegisterSteps \union {"createChannel", "login", "closeChannel"} =>
            h.intent = "Authenticate"
    /\ s \in {"validateFields", "save"} => h.username # Nothing
    /\ s = "identification" => h.id # "none"
    /\ s \in ProofSteps => h.proof # "none"
    /\ s = "signNonce" => h.auth = "challenge"

Generations == 0 .. MaxRestarts
NotWalking == [on |-> <<0, "V1">>, step |-> "none", call |-> "none", keep |-> FALSE,
               user |-> Nothing, secret |-> Nothing]

Init ==
    /\ ui = [started |-> FALSE, loading |-> FALSE, finished |-> FALSE, error |-> FALSE,
             restarting |-> FALSE, restart |-> "none", items |-> Labels, index |-> 1]
    /\ handler = <<0, Labels[1]>>
    /\ step = StepsOf(Labels[1])[1]
    /\ handlers = [h \in Generations \X {"V1", "V3"} |-> NewHandler]
    /\ walk = NotWalking
    /\ accounts = [u \in Usernames |-> Nothing]
    /\ vault = [u \in Usernames |-> Nothing]

H == handlers[walk.on]

-----------------------------------------------------------------------------
(* The walker                                                              *)
Pruned(u) ==
    IF Len(u.items) = 1 THEN u ELSE [u EXCEPT !.items = <<u.items[u.index]>>, !.index = 1]

\* walk up to its first call.  A step that asserts in vain, or that the
\* current handler does not have, fails at once.
Begin(u, s, keep) ==
    IF Has(handler[2], s) /\ Asserts(handlers'[handler], s)
    THEN /\ ui' = Pruned([u EXCEPT !.started = TRUE, !.loading = TRUE])
         /\ walk' = [NotWalking EXCEPT !.on = handler, !.step = s,
                                       !.call = FirstCall(s), !.keep = keep]
    ELSE /\ ui' = Pruned([u EXCEPT !.started = TRUE, !.loading = FALSE, !.error = TRUE])
         /\ walk' = NotWalking

\* The Execute button; keep is keepWalking.
Execute(keep) ==
    /\ ~ ui.finished /\ ~ ui.error /\ ~ ui.loading
    /\ handlers' = handlers
    /\ Begin(ui, step, keep)
    /\ UNCHANGED <<handler, step, accounts, vault>>

\* Without the reset in walk's catch.
ThrowsLoading(h) ==
    /\ handlers' = [handlers EXCEPT ![walk.on] = h]
    /\ ui' = [ui EXCEPT !.error = TRUE]
    /\ walk' = NotWalking
    /\ UNCHANGED <<handler, step>>

\* The step throws: the walk ends with an error, and keepWalking with it.
Throws(h) ==
    /\ handlers' = [handlers EXCEPT ![walk.on] = h]
    /\ ui' = [ui EXCEPT !.error = TRUE, !.loading = FALSE]
    /\ walk' = NotWalking
    /\ UNCHANGED <<handler, step>>

\* The step names the next one.  The handler it is set on is the walker's,
\* which need not be the one that has run the step.
Returns(h, next) ==
    IF ~ Has(handler[2], next) THEN Throws(h)
    ELSE LET u == [ui EXCEPT !.loading = FALSE]
         IN
         /\ handlers' = [handlers EXCEPT ![walk.on] = h]
         /\ step' = next
         /\ IF walk.keep /\ ~ u.error /\ ~ u.finished THEN Begin(u, next, TRUE)
            ELSE ui' = u /\ walk' = NotWalking
         /\ UNCHANGED handler

\* The last step.
Finishes(h) ==
    /\ handlers' = [handlers EXCEPT ![walk.on] = h]
    /\ ui' = [ui EXCEPT !.loading = FALSE, !.finished = TRUE]
    /\ walk' = NotWalking
    /\ UNCHANGED <<handler, step>>

\* The step awaits another call.
Awaits(h, call, user, secret) ==
    /\ handlers' = [handlers EXCEPT ![walk.on] = h]
    /\ walk' = [walk EXCEPT !.call = call, !.user = user, !.secret = secret]
    /\ UNCHANGED <<ui, handler, step>>

\* setItems and _setHandler.  _setNextStep refuses while a step is executed,
\* after the handler has been set.
SetHandler(u, h) ==
    /\ handler' = h
    /\ step' = IF u.loading THEN step ELSE StepsOf(h[2])[1]

\* The list and the arrows, shown before the first step and wherever there is
\* another handler to go to.
Select(i) ==
    /\ ~ ui.finished /\ i \in DOMAIN ui.items /\ i # ui.index
    /\ ui' = [ui EXCEPT !.index = i]
    /\ SetHandler(ui, <<handler[1], ui.items[i]>>)
    /\ UNCHANGED <<handlers, walk, accounts, vault>>

Fresh(u) == [u EXCEPT !.items = Labels, !.index = 1]

\* The rest of restart, with new handlers.  It throws, and leaves the walker
\* restarting, if a step is being executed by now.
Recreate(u) ==
    /\ SetHandler(u, <<handler[1] + 1, Labels[1]>>)
    /\ ui' = IF u.loading THEN [Fresh(u) EXCEPT !.restart = "rejected"]
             ELSE [Fresh(u) EXCEPT !.started = FALSE, !.restarting = FALSE, !.restart = "none"]

\* The Restart button.  The flags are cleared before the channel is closed.
Restart ==
    LET u == [ui EXCEPT !.restarting = TRUE, !.error = FALSE, !.finished = FALSE,
                        !.loading = FALSE]
    IN
    /\ (ui.error \/ ui.finished) /\ ~ ui.restarting /\ handler[1] < MaxRestarts
    /\ IF handlers[handler].channel = "open"
       THEN ui' = [u EXCEPT !.restart = "closing"] /\ UNCHANGED <<handler, step>>
       ELSE Recreate(u)
    /\ UNCHANGED <<handlers, walk, accounts, vault>>

\* The channel is closed, or its close is refused and restart goes no further.
RestartResumes ==
    /\ ui.restart = "closing"
    /\ \/ /\ handlers[handler].channel = "open"
          /\ handlers' = [handlers EXCEPT ![handler].channel = "closed"]
          /\ Recreate(ui)
       \/ /\ ui' = [ui EXCEPT !.restart = "rejected"]
          /\ UNCHANGED <<handlers, handler, step>>
    /\ UNCHANGED <<walk, accounts, vault>>

-----------------------------------------------------------------------------
(* The browser's answers                                                   *)
\* A call of an operation or a challenge whose channel is open.
Answers(call) == walk.call = call /\ H.channel = "open"

CreateChannel ==
    /\ walk.call = "createChannel"
    /\ Returns([H EXCEPT !.channel = "open"], "login")
    /\ UNCHANGED <<accounts, vault>>

\* The user registers, or picks an account of the manager's.
LogIn ==
    /\ Answers("login")
    /\ \/ Returns([H EXCEPT !.intent = "Register"], "addFields")
       \/ /\ \E u \in Usernames : vault[u] # Nothing
          /\ Returns([H EXCEPT !.intent = "Authenticate"], "createIdentificationChallenge")
    /\ UNCHANGED <<accounts, vault>>

AddFields ==
    /\ Answers("addFields")
    /\ \E u \in Usernames, s \in Secrets :
            Returns([H EXCEPT !.username = u, !.secret = s], "validateFields")
    /\ UNCHANGED <<accounts, vault>>

RejectAndReviseFields ==
    /\ Answers("reject")
    /\ \E u \in Usernames : Awaits([H EXCEPT !.username = u], "exists", Nothing, Nothing)
    /\ UNCHANGED <<accounts, vault>>

SetMetadata ==
    /\ Answers("setMetadata")
    /\ Returns(H, "save")
    /\ UNCHANGED <<accounts, vault>>

SetStatus ==
    /\ Answers("setStatus")
    /\ Awaits(H, "saveOperation", Nothing, Nothing)
    /\ UNCHANGED <<accounts, vault>>

\* The manager keeps the account even if its answer does not arrive.
SaveOperation ==
    /\ Answers("saveOperation")
    /\ vault' = [vault EXCEPT ![H.username] = H.secret]
    /\ Returns(H, "transitionToAuth") \/ Throws(H)
    /\ UNCHANGED accounts

TransitionToAuth ==
    /\ Answers("transition")
    /\ Returns([H EXCEPT !.intent = "Authenticate"], "createIdentificationChallenge")
    /\ UNCHANGED <<accounts, vault>>

ChallengeId ==
    /\ Answers("challengeId")
    /\ Returns([H EXCEPT !.id = "open"], "identification")
    /\ UNCHANGED <<accounts, vault>>

GetIdentityFields ==
    /\ Answers("getIdentityFields") /\ H.id = "open"
    /\ \E u \in Usernames : Awaits(H, "newSession", u, Nothing)
    /\ UNCHANGED <<accounts, vault>>

SealId ==
    /\ Answers("sealId")
    /\ Returns([H EXCEPT !.id = "sealed"],
               IF walk.on[2] = "V1" THEN "createPasswordChallenge" ELSE "createDsChallenge")
    /\ UNCHANGED <<accounts, vault>>

AbortId ==
    /\ Answers("abortId")
    /\ Throws([H EXCEPT !.id = "aborted"])
    /\ UNCHANGED <<accounts, vault>>

ChallengeProof ==
    /\ Answers("challengeProof")
    /\ Returns([H EXCEPT !.proof = "open"],
               IF walk.on[2] = "V1" THEN "passwordAuth" ELSE "selectKey")
    /\ UNCHANGED <<accounts, vault>>

\* getPasswordFields or selectKey, and newChallenge's assertion.
GetSecret ==
    /\ Answers("getSecret") /\ H.proof = "open"
    /\ IF H.auth = "session"
       THEN \E s \in Secrets : Awaits(H, "newChallenge", Nothing, s)
       ELSE Throws(H)
    /\ UNCHANGED <<accounts, vault>>

\* Signed with the private key of any public key.
SignNonce ==
    /\ Answers("signNonce") /\ H.proof = "open"
    /\ \E s \in Secrets : Awaits(H, "sendSignature", Nothing, s)
    /\ UNCHANGED <<accounts, vault>>

Seal ==
    /\ Answers("seal") /\ H.proof = "open"
    /\ Returns([H EXCEPT !.proof = "sealed"], "finishLogin")
    /\ UNCHANGED <<accounts, vault>>

Abort ==
    /\ Answers("abort") /\ H.proof = "open"
    /\ Throws([H EXCEPT !.proof = "aborted"])
    /\ UNCHANGED <<accounts, vault>>

FinishLogin ==
    /\ Answers("finish")
    /\ Returns([H EXCEPT !.done = TRUE], "closeChannel")
    /\ UNCHANGED <<accounts, vault>>

CloseChannel ==
    /\ Answers("close")
    /\ Finishes([H EXCEPT !.channel = "closed"])
    /\ UNCHANGED <<accounts, vault>>

-----------------------------------------------------------------------------
(* The backend's answers.  One that is lost has had its effect.            *)
AccountExists ==
    /\ walk.call = "exists"
    /\ IF accounts[H.username] # Nothing THEN Awaits(H, "reject", Nothing, Nothing)
       ELSE Returns(H, "metadata")
    /\ UNCHANGED <<accounts, vault>>

\* Whatever the status of the response.
CreateAccountUnchecked ==
    /\ walk.call = "createAccount"
    /\ accounts' = IF accounts[H.username] = Nothing
                   THEN [accounts EXCEPT ![H.username] = H.secret] ELSE accounts
    /\ Awaits(H, "setStatus", Nothing, Nothing) \/ Throws(H)
    /\ UNCHANGED vault

CreateAccount ==
    /\ walk.call = "createAccount" /\ accounts[H.username] = Nothing
    /\ accounts' = [accounts EXCEPT ![H.username] = H.secret]
    /\ Awaits(H, "setStatus", Nothing, Nothing) \/ Throws(H)
    /\ UNCHANGED vault

\* AuthSessionHandler.create, and its 404.
NewSession ==
    /\ walk.call = "newSession"
    /\ IF accounts[walk.user] = Nothing THEN Awaits(H, "abortId", Nothing, Nothing)
       ELSE Awaits([H EXCEPT !.auth = "session", !.session.user = walk.user],
                   "sealId", Nothing, Nothing)
    /\ UNCHANGED <<accounts, vault>>

NewChallenge ==
    LET started == [H EXCEPT !.session.challenge = "pending"]
    IN
    /\ walk.call = "newChallenge" /\ H.session.challenge = "none"
    /\ \/ Awaits([started EXCEPT !.auth = "challenge"], "sendSecret", Nothing, walk.secret)
       \/ Throws(started)
    /\ UNCHANGED <<accounts, vault>>

IsRight == accounts[H.session.user] = walk.secret
Judged(outcome) == [H EXCEPT !.session.challenge = outcome]

\* sendResponse: its outcome is no longer pending, and an incorrect one makes
\* the step abort the browser's challenge.
Ended(outcome, call) ==
    \/ Awaits([Judged(outcome) EXCEPT !.auth = "session"], call, Nothing, Nothing)
    \/ Throws(Judged(outcome))

SendPassword ==
    /\ walk.call = "sendSecret" /\ walk.on[2] = "V1" /\ H.session.challenge = "pending"
    /\ IF IsRight THEN Ended("passed", "finishSession") ELSE Ended("failed", "abort")
    /\ UNCHANGED <<accounts, vault>>

\* A right key leaves the challenge pending, for its second message.
SendKey ==
    /\ walk.call = "sendSecret" /\ walk.on[2] = "V3" /\ H.session.challenge = "pending"
    /\ IF IsRight
       THEN Returns(Judged("selected"), "signNonce") \/ Throws(Judged("selected"))
       ELSE Ended("failed", "abort")
    /\ UNCHANGED <<accounts, vault>>

PendingMessage ==
    /\ walk.call = "pendingMessage" /\ H.session.challenge = "selected"
    /\ Awaits(H, "signNonce", Nothing, Nothing)
    /\ UNCHANGED <<accounts, vault>>

SendSignature ==
    /\ walk.call = "sendSignature" /\ H.session.challenge = "selected"
    /\ IF IsRight THEN Ended("passed", "finishSession") ELSE Ended("failed", "abort")
    /\ UNCHANGED <<accounts, vault>>

FinishSession ==
    LET finished == [H EXCEPT !.session.finished = TRUE]
    IN
    /\ walk.call = "finishSession" /\ H.session.challenge = "passed" /\ ~ H.session.finished
    /\ Awaits(finished, "seal", Nothing, Nothing) \/ Throws(finished)
    /\ UNCHANGED <<accounts, vault>>

\* The call is refused, or does not arrive.
Refused ==
    /\ walk.call # "none"
    /\ Throws(H)
    /\ UNCHANGED <<accounts, vault>>

\* Somebody else registers.
Register(u, s) ==
    /\ accounts[u] = Nothing
    /\ accounts' = [accounts EXCEPT ![u] = s]
    /\ UNCHANGED <<ui, handler, step, handlers, walk, vault>>

-----------------------------------------------------------------------------
Browser ==
    \/ CreateChannel \/ LogIn \/ AddFields \/ RejectAndReviseFields \/ SetMetadata
    \/ SetStatus \/ SaveOperation \/ TransitionToAuth \/ ChallengeId \/ GetIdentityFields
    \/ SealId \/ AbortId \/ ChallengeProof \/ GetSecret \/ SignNonce \/ Seal \/ Abort
    \/ FinishLogin \/ CloseChannel

Backend ==
    \/ AccountExists \/ CreateAccount \/ NewSession \/ NewChallenge \/ SendPassword
    \/ SendKey \/ PendingMessage \/ SendSignature \/ FinishSession

Answer == Browser \/ Backend \/ Refused

Next ==
    \/ \E keep \in BOOLEAN : Execute(keep)
    \/ \E i \in DOMAIN Labels : Select(i)
    \/ Restart \/ RestartResumes \/ Answer
    \/ \E u \in Usernames, s \in Secrets : Register(u, s)

Spec == Init /\ [][Next]_vars

\* Every call is answered in the end, or refused.
FairSpec == Spec /\ WF_vars(Answer)

-----------------------------------------------------------------------------
(* Properties                                                              *)
Challenges == {"none", "open", "sealed", "aborted"}
Handler ==
    [channel : {"none", "open", "closed"}, intent : {"none", "Register", "Authenticate"},
     username : Usernames \union {Nothing}, secret : Secrets \union {Nothing},
     id : Challenges, proof : Challenges, done : BOOLEAN, auth : {"none", "session", "challenge"},
     session : [user : Usernames \union {Nothing}, finished : BOOLEAN,
                challenge : {"none", "pending", "selected", "passed", "failed"}]]

TypeOK ==
    /\ handler \in Generations \X {"V1", "V3"}
    /\ handlers \in [Generations \X {"V1", "V3"} -> Handler]
    /\ accounts \in [Usernames -> Secrets \union {Nothing}]
    /\ vault \in [Usernames -> Secrets \union {Nothing}]

\* What the secret manager has saved is in the backend, with the same secret:
\* the manager saves nothing before the backend has taken the account, and the
\* field cannot be revised in between, whichever of the answers is lost.
SavedIsRegistered == \A u \in Usernames : vault[u] # Nothing => accounts[u] = vault[u]

\* A challenge is sealed only after the backend has accepted its responses and
\* finished the session, and aborted only after it has refused one of them.
SealedIsProved ==
    \A h \in DOMAIN handlers :
        LET s == handlers[h].session
        IN
        /\ handlers[h].proof = "sealed" => s.finished /\ s.challenge = "passed"
        /\ handlers[h].proof = "aborted" => s.challenge = "failed"
        /\ handlers[h].done => handlers[h].proof = "sealed" /\ handlers[h].id = "sealed"
        /\ handlers[h].id = "sealed" => accounts[s.user] # Nothing

\* The step to execute is one of the handler's, the walk in flight runs on it,
\* and what the step asserts of it holds, in whatever order buttons are
\* pressed and calls answered: except while restarting, when the user can
\* execute a step that Restart pulls the handler from under.
StepsFit ==
    ~ ui.restarting =>
        /\ Has(handler[2], step)
        /\ walk.call # "none" => walk.on = handler /\ walk.step = step
        /\ ~ (ui.loading \/ ui.error \/ ui.finished) => Asserts(handlers[handler], step)
        /\ walk.call = "getSecret" => handlers[handler].auth = "session"

LoginInv == TypeOK /\ SavedIsRegistered /\ SealedIsProved /\ StepsFit

\* Execute becomes available again: every step ends, with a result or an
\* error, unless the names the user proposes are taken again and again.
WalksEnd == ui.loading ~> (~ ui.loading \/ walk.call = "reject")
=============================================================================
