----------------------------- MODULE LoginProofs -----------------------------
(***************************************************************************)
(* What holds of the Login module for any names and secrets, and however   *)
(* often the user starts over: the page keeps to its own rules in whatever *)
(* order buttons are pressed and calls are answered.                       *)
(***************************************************************************)
EXTENDS Login, TLAPS

Keys == Generations \X {"V1", "V3"}
StepNames == DOMAIN SessionCalls \union RegisterSteps \union DOMAIN ChallengeCalls \union ProofSteps
CallNames ==
    {"createChannel", "login", "challengeId", "getIdentityFields", "finish", "close",
     "addFields", "exists", "setMetadata", "createAccount", "transition", "challengeProof",
     "getSecret", "pendingMessage",
     "reject", "setStatus", "saveOperation", "newSession", "sealId", "abortId", "newChallenge",
     "sendSecret", "abort", "finishSession", "seal", "signNonce", "sendSignature"}

-----------------------------------------------------------------------------
(***************************************************************************)
(* The inductive invariant                                                 *)
(***************************************************************************)
Ui == [started : BOOLEAN, loading : BOOLEAN, finished : BOOLEAN, error : BOOLEAN,
       restarting : BOOLEAN, restart : {"none", "closing", "rejected"},
       items : {Labels, <<"V1">>, <<"V3">>}, index : 1 .. 2]
Walk == [on : Keys, step : StepNames \union {"none"}, call : CallNames \union {"none"},
         keep : BOOLEAN, user : Usernames \union {Nothing}, secret : Secrets \union {Nothing}]

Types ==
  /\ TypeOK
  /\ ui \in Ui /\ ui.index \in DOMAIN ui.items
  /\ walk \in Walk
  /\ step \in StepNames

IsWalking == walk.call # "none"

\* Execute is disabled while a step runs.  The step is the handler's own, and
\* the handler has been chosen; or a restart has made new handlers meanwhile.
WalkerFits ==
  /\ ui.loading <=> IsWalking
  /\ IsWalking => ~ ui.error /\ ~ ui.finished
  /\ IsWalking => \/ walk.on = handler /\ walk.step = step /\ Len(ui.items) = 1
                  \/ walk.on[1] < handler[1] /\ Len(ui.items) = 2 /\ ui.restarting
  /\ ui.restart = "closing" => ui.restarting /\ handler[1] < MaxRestarts

\* No step has run on a handler before the user has chosen it.
Untouched ==
  \A k \in Keys : (k[1] > handler[1] \/ (k[1] = handler[1] /\ Len(ui.items) = 2))
                      => handlers[k] = NewHandler

\* What a handler has come to holds together, and with the backend's accounts a.
Sound(h, a) ==
  /\ h.intent # "Authenticate" => h.id = "none"
  /\ h.id # "sealed" => h.proof = "none"
  /\ h.id = "sealed" => h.session.user # Nothing /\ a[h.session.user] # Nothing
  /\ h.proof = "sealed" => h.session.finished /\ h.session.challenge = "passed"
  /\ h.proof = "aborted" => h.session.challenge = "failed"
  /\ h.done => h.proof = "sealed"
  /\ h.username # Nothing => h.secret # Nothing

AuthCalls ==
  {"challengeId", "getIdentityFields", "newSession", "sealId", "abortId", "challengeProof",
   "getSecret", "newChallenge", "sendSecret", "finishSession", "seal", "abort",
   "pendingMessage", "signNonce", "sendSignature", "finish"}
RegisterStages ==
  {"addFields", "exists", "reject", "setMetadata", "createAccount", "setStatus",
   "saveOperation", "transition"}

\* What a handler has come to when a call is awaited for it, whether or not a
\* restart has taken the page to another one.
CallFits(c, u, h, a) ==
  /\ c \in AuthCalls => h.intent = "Authenticate"
  /\ c \in RegisterStages => h.intent = "Register"
  /\ c \in {"createChannel", "login"} => h.intent = "none"
  /\ c \in {"exists", "reject", "createAccount", "setStatus", "saveOperation"} => h.username # Nothing
  /\ c \in {"setStatus", "saveOperation"} => a[h.username] = h.secret
  /\ c = "challengeId" => h.id = "none"
  /\ c \in {"newSession", "sealId", "abortId"} => h.id = "open"
  /\ c = "sealId" => h.session.user # Nothing /\ a[h.session.user] # Nothing
  /\ c = "newSession" => u # Nothing
  /\ c = "challengeProof" => h.id = "sealed" /\ h.proof = "none"
  /\ c \in {"newChallenge", "sendSecret"} => h.proof = "open"
  /\ c = "seal" => h.session.finished /\ h.session.challenge = "passed"
  /\ c = "abort" => h.session.challenge = "failed"
  /\ c = "finish" => h.proof = "sealed"

\* The steps that change a challenge or the intent with their first call.
Simple == {"createChannel", "login", "createIdentificationChallenge",
           "createPasswordChallenge", "createDsChallenge", "finishLogin"}
SimpleCalls == {"createChannel", "login", "challengeId", "challengeProof", "finish"}

WalkFits ==
  IsWalking => /\ CallFits(walk.call, walk.user, H, accounts)
               /\ walk.step \in Simple => walk.call = FirstCall(walk.step)

\* A step that has not been executed has had no effect, not even after an error
\* and in the middle of a restart, when the button is enabled again.
StepFits(s, h) ==
  /\ s \in {"createChannel", "login"} => h.intent = "none"
  /\ h.intent = "Authenticate" =>
      /\ s = "createIdentificationChallenge" => h.id = "none"
      /\ s \in {"createPasswordChallenge", "createDsChallenge"} => h.id = "sealed" /\ h.proof = "none"
      /\ s = "finishLogin" => h.proof = "sealed"

\* What a call and a step rely on as long as nobody restarts.
RegularCall(c, h) ==
  /\ c = "setMetadata" => h.username # Nothing
  /\ c \in {"sealId", "getSecret", "challengeProof"} => h.auth = "session"
  /\ c = "sendSecret" => h.auth = "challenge"
RegularStep(s, h) ==
  /\ Asserts(h, s)
  /\ s = "metadata" => h.username # Nothing
  /\ s \in {"createPasswordChallenge", "createDsChallenge", "passwordAuth", "selectKey"} =>
        h.auth = "session"
Regular ==
  ~ ui.restarting =>
      /\ Has(handler[2], step)
      /\ IsWalking => RegularCall(walk.call, H)
      /\ ~ (ui.loading \/ ui.error \/ ui.finished) => RegularStep(step, handlers[handler])

AllSound == \A k \in Keys : Sound(handlers[k], accounts)
Inv ==
  /\ Types
  /\ WalkerFits
  /\ Untouched
  /\ AllSound
  /\ WalkFits
  /\ ~ IsWalking => StepFits(step, handlers[handler])
  /\ SavedIsRegistered
  /\ Regular

-----------------------------------------------------------------------------
(***************************************************************************)
(* The tables of steps and calls                                           *)
(***************************************************************************)
LEMMA Steps ==
  /\ StepNames = {"createChannel", "login", "addFields", "validateFields", "metadata", "save",
                  "transitionToAuth", "createIdentificationChallenge", "identification",
                  "createPasswordChallenge", "passwordAuth", "createDsChallenge", "selectKey",
                  "signNonce", "finishLogin", "closeChannel"}
  /\ RegisterSteps = {"addFields", "validateFields", "metadata", "save", "transitionToAuth"}
  /\ ProofSteps = {"passwordAuth", "selectKey", "signNonce"}
<1> QED
  BY DEF StepNames, RegisterSteps, ProofSteps, SessionCalls, RegisterCalls, ChallengeCalls, ProofCalls

LEMMA FirstCalls ==
  /\ FirstCall("createChannel") = "createChannel" /\ FirstCall("login") = "login"
  /\ FirstCall("createIdentificationChallenge") = "challengeId"
  /\ FirstCall("identification") = "getIdentityFields"
  /\ FirstCall("finishLogin") = "finish" /\ FirstCall("closeChannel") = "close"
  /\ FirstCall("addFields") = "addFields" /\ FirstCall("validateFields") = "exists"
  /\ FirstCall("metadata") = "setMetadata" /\ FirstCall("save") = "createAccount"
  /\ FirstCall("transitionToAuth") = "transition"
  /\ FirstCall("createPasswordChallenge") = "challengeProof"
  /\ FirstCall("createDsChallenge") = "challengeProof"
  /\ FirstCall("passwordAuth") = "getSecret" /\ FirstCall("selectKey") = "getSecret"
  /\ FirstCall("signNonce") = "pendingMessage"
<1> QED
  BY DEF FirstCall, RegisterSteps, ProofSteps, SessionCalls, RegisterCalls, ChallengeCalls, ProofCalls

LEMMA HasSteps ==
  ASSUME NEW s \in StepNames, NEW l \in {"V1", "V3"}
  PROVE  /\ l = "V1" => (Has(l, s) <=> s \notin {"createDsChallenge", "selectKey", "signNonce"})
         /\ l = "V3" => (Has(l, s) <=> s \notin {"createPasswordChallenge", "passwordAuth"})
         /\ StepsOf(l)[1] = "createChannel"
<1> QED  BY Steps DEF Has, StepsOf, V1, V3

-----------------------------------------------------------------------------
(***************************************************************************)
(* Handlers                                                                *)
(***************************************************************************)
LEMMA NewFits ==
  ASSUME NEW s \in StepNames, NEW a
  PROVE  /\ NewHandler \in Handler
         /\ Sound(NewHandler, a)
         /\ StepFits(s, NewHandler)
         /\ RegularStep("createChannel", NewHandler)
<1>1. NewHandler \in Handler
  BY DEF NewHandler, Handler, Challenges
<1>2. RegularStep("createChannel", NewHandler)
  BY Steps DEF RegularStep, Asserts
<1> QED  BY <1>1, <1>2 DEF NewHandler, Sound, StepFits

\* A step that is begun is at its first call.
LEMMA FirstFits ==
  ASSUME NEW s \in StepNames, NEW h \in Handler, NEW u, NEW a,
         Sound(h, a), StepFits(s, h), Asserts(h, s)
  PROVE  /\ FirstCall(s) \in CallNames
         /\ CallFits(FirstCall(s), u, h, a)
         /\ RegularStep(s, h) => RegularCall(FirstCall(s), h)
<1>1. PICK c : c = FirstCall(s)
  OBVIOUS
<1>2. c \in CallNames
  BY <1>1, Steps, FirstCalls DEF CallNames
<1>3. CallFits(c, u, h, a)
  BY <1>1, Steps, FirstCalls DEF CallFits, AuthCalls, RegisterStages, Sound, StepFits, Asserts
<1>4. RegularStep(s, h) => RegularCall(c, h)
  BY <1>1, Steps, FirstCalls DEF RegularStep, RegularCall
<1> QED  BY <1>1, <1>2, <1>3, <1>4

\* A step in flight that is not at its first call is none of the simple ones,
\* and one that is has changed nothing.
LEMMA InFlight ==
  ASSUME Inv, IsWalking
  PROVE  /\ walk.step \in Simple => walk.call \in SimpleCalls
         /\ StepFits(walk.step, H)
         /\ walk.call \notin SimpleCalls => \A h : StepFits(walk.step, h)
<1>1. walk.step \in Simple => walk.call = FirstCall(walk.step)
  BY DEF Inv, WalkFits
<1>2. CallFits(walk.call, walk.user, H, accounts)
  BY DEF Inv, WalkFits
<1>3. walk.step \in Simple => walk.call \in SimpleCalls
  BY <1>1, FirstCalls DEF Simple, SimpleCalls
<1>4. walk.step \notin Simple => \A h : StepFits(walk.step, h)
  BY DEF Simple, StepFits
<1>5. walk.step \in Simple => StepFits(walk.step, H)
  BY <1>1, <1>2, FirstCalls DEF Simple, StepFits, CallFits, AuthCalls
<1> QED  BY <1>3, <1>4, <1>5
-----------------------------------------------------------------------------
(***************************************************************************)
(* Accounts                                                                *)
(***************************************************************************)
\* No account is changed once it has been made.
Grow(a, b) == \A u \in Usernames : a[u] # Nothing => b[u] = a[u]
Kept ==
  /\ accounts' \in [Usernames -> Secrets \union {Nothing}]
  /\ vault' \in [Usernames -> Secrets \union {Nothing}]
  /\ Grow(accounts, accounts')
  /\ SavedIsRegistered'

LEMMA StillSound ==
  ASSUME NEW h \in Handler, NEW a, NEW b, Grow(a, b), Sound(h, a)
  PROVE  Sound(h, b)
<1>1. h.session.user \in Usernames \union {Nothing}
  BY DEF Handler
<1> QED  BY <1>1 DEF Grow, Sound

LEMMA StillFits ==
  ASSUME NEW h \in Handler, NEW c, NEW u, NEW a, NEW b, Grow(a, b), Sound(h, a),
         CallFits(c, u, h, a)
  PROVE  CallFits(c, u, h, b)
<1>1. h.session.user \in Usernames \union {Nothing} /\ h.username \in Usernames \union {Nothing}
  BY DEF Handler
<1> QED  BY <1>1 DEF Grow, Sound, CallFits

LEMMA SameAccounts ==
  ASSUME Inv, UNCHANGED <<accounts, vault>>
  PROVE  Kept
<1> QED  BY DEF Inv, Types, TypeOK, Kept, Grow, SavedIsRegistered

\* The backend takes an account that is new to it.
LEMMA NewAccount ==
  ASSUME Inv, NEW u \in Usernames, NEW s \in Secrets \union {Nothing}, accounts[u] = Nothing,
         accounts' = [accounts EXCEPT ![u] = s], vault' = vault
  PROVE  Kept
<1>1. accounts \in [Usernames -> Secrets \union {Nothing}] /\ vault \in [Usernames -> Secrets \union {Nothing}]
  BY DEF Inv, Types, TypeOK
<1>2. \A v \in Usernames : accounts'[v] = IF v = u THEN s ELSE accounts[v]
  BY <1>1
<1>3. accounts' \in [Usernames -> Secrets \union {Nothing}] /\ Grow(accounts, accounts')
  BY <1>1, <1>2 DEF Grow
<1>4. SavedIsRegistered'
  BY <1>1, <1>2 DEF Inv, SavedIsRegistered
<1> QED  BY <1>1, <1>3, <1>4 DEF Kept

-----------------------------------------------------------------------------
(***************************************************************************)
(* The walker: what a step that begins or ends leaves behind               *)
(***************************************************************************)
LEMMA NotWalkingFits ==
  /\ NotWalking \in Walk
  /\ NotWalking.call = "none"
<1>1. <<0, "V1">> \in Keys
  BY ConstantsAssumption DEF Keys, Generations
<1> QED  BY <1>1 DEF NotWalking, Walk

LEMMA PrunedFits ==
  ASSUME NEW u \in Ui, u.index \in DOMAIN u.items
  PROVE  /\ Pruned(u) \in Ui
         /\ Pruned(u).index \in DOMAIN Pruned(u).items
         /\ Len(Pruned(u).items) = 1
         /\ Pruned(u).loading = u.loading /\ Pruned(u).error = u.error
         /\ Pruned(u).finished = u.finished
         /\ Pruned(u).restarting = u.restarting /\ Pruned(u).restart = u.restart
<1>1. CASE Len(u.items) = 1
  BY <1>1 DEF Pruned
<1>2. CASE Len(u.items) # 1
  <2> PICK p : p = Pruned(u)
    OBVIOUS
  <2>1. p = [u EXCEPT !.items = <<u.items[u.index]>>, !.index = 1]
    BY <1>2 DEF Pruned
  <2>2. u.items = Labels /\ u.index \in {1, 2}
    BY <1>2 DEF Ui
  <2>3. <<u.items[u.index]>> \in {<<"V1">>, <<"V3">>}
    BY <2>2 DEF Labels
  <2>4. PICK l \in {"V1", "V3"} : u.items[u.index] = l
    BY <2>2 DEF Labels
  <2>5. p = [u EXCEPT !.items = <<l>>, !.index = 1]
    BY <2>1, <2>4, Zenon
  <2>6. p = [started |-> u.started, loading |-> u.loading, finished |-> u.finished,
             error |-> u.error, restarting |-> u.restarting, restart |-> u.restart,
             items |-> <<l>>, index |-> 1]
    BY <2>5, Zenon DEF Ui
  <2>7. p \in Ui
    BY <2>6 DEF Ui
  <2>8. p.index \in DOMAIN p.items /\ Len(p.items) = 1
    BY <2>6
  <2> QED  BY <2>6, <2>7, <2>8
<1> QED  BY <1>1, <1>2

\* What a call's answer makes of the handlers, before the page goes on.
LEMMA HandlersAfter ==
  ASSUME Inv, IsWalking, Kept, NEW h \in Handler, Sound(h, accounts'),
         handlers' = [handlers EXCEPT ![walk.on] = h]
  PROVE  /\ handlers' \in [Keys -> Handler]
         /\ \A k \in Keys : Sound(handlers'[k], accounts')
         /\ \A k \in Keys : (k[1] > handler[1] \/ (k[1] = handler[1] /\ Len(ui.items) = 2))
                                => handlers'[k] = NewHandler
         /\ handlers'[walk.on] = h
         /\ walk.on = handler \/ (Len(ui.items) = 2 /\ handlers'[handler] = NewHandler)
<1>1. /\ handlers \in [Keys -> Handler] /\ handler \in Keys /\ walk.on \in Keys
      /\ handler[1] \in Nat /\ walk.on[1] \in Nat
  BY ConstantsAssumption DEF Inv, Types, TypeOK, Keys, Walk, Generations
<1>2. \A k \in Keys : handlers'[k] = IF k = walk.on THEN h ELSE handlers[k]
  BY <1>1
<1>3. handlers' \in [Keys -> Handler]
  BY <1>1
<1>4. \A k \in Keys : Sound(handlers[k], accounts)
  BY DEF Inv, AllSound
<1>5. \A k \in Keys : Sound(handlers'[k], accounts')
  <2> SUFFICES ASSUME NEW k \in Keys, k # walk.on  PROVE  Sound(handlers'[k], accounts')
    BY <1>2
  <2>1. handlers[k] \in Handler /\ Sound(handlers[k], accounts) /\ Grow(accounts, accounts')
    BY <1>1, <1>4 DEF Kept
  <2>2. Sound(handlers[k], accounts')
    BY <2>1, StillSound
  <2> QED  BY <1>2, <2>2
<1>6. \/ walk.on = handler /\ Len(ui.items) = 1
      \/ walk.on[1] < handler[1] /\ Len(ui.items) = 2
  BY DEF Inv, WalkerFits
<1>7. \A k \in Keys : (k[1] > handler[1] \/ (k[1] = handler[1] /\ Len(ui.items) = 2))
                          => handlers'[k] = NewHandler
  <2> SUFFICES ASSUME NEW k \in Keys,
                      k[1] > handler[1] \/ (k[1] = handler[1] /\ Len(ui.items) = 2)
               PROVE  handlers'[k] = NewHandler
    OBVIOUS
  <2>1. handlers[k] = NewHandler
    BY DEF Inv, Untouched
  <2>2. k[1] \in Nat
    BY ConstantsAssumption DEF Keys, Generations
  <2>3. k # walk.on
    BY <1>1, <1>6, <2>2
  <2> QED  BY <1>2, <2>1, <2>3
<1>8. walk.on = handler \/ (Len(ui.items) = 2 /\ handlers'[handler] = NewHandler)
  BY <1>1, <1>6, <1>7
<1> QED  BY <1>1, <1>2, <1>3, <1>5, <1>7, <1>8
\* The page's state u, and the handlers as they are by then, let s begin.
LEMMA BeginInv ==
  ASSUME Kept, handler \in Keys, handler' = handler,
         handlers' \in [Keys -> Handler],
         \A k \in Keys : Sound(handlers'[k], accounts'),
         NEW u \in Ui, u.index \in DOMAIN u.items, ~ u.error, ~ u.finished,
         u.restart = "closing" => u.restarting /\ handler[1] < MaxRestarts,
         \A k \in Keys : (k[1] > handler[1] \/ (k[1] = handler[1] /\ Len(u.items) = 2))
                             => handlers'[k] = NewHandler,
         NEW s \in StepNames, step' = s, NEW keep \in BOOLEAN,
         StepFits(s, handlers'[handler]),
         ~ u.restarting => Has(handler[2], s) /\ RegularStep(s, handlers'[handler]),
         Begin(u, s, keep)
  PROVE  Inv'
<1> PICK g : g = handlers'[handler]
  OBVIOUS
<1>1. g \in Handler /\ Sound(g, accounts') /\ StepFits(s, g)
  OBVIOUS
<1>2. TypeOK'
  BY DEF Kept, TypeOK, Keys
<1>3. AllSound' /\ SavedIsRegistered'
  BY DEF AllSound, Kept
<1>4. ASSUME NEW v, v = [u EXCEPT !.started = TRUE, !.loading = TRUE]
      PROVE  /\ v \in Ui /\ v.index \in DOMAIN v.items
             /\ v.loading /\ ~ v.error /\ ~ v.finished
             /\ v.restarting = u.restarting /\ v.restart = u.restart
  <2>1. v = [started |-> TRUE, loading |-> TRUE, finished |-> u.finished,
             error |-> u.error, restarting |-> u.restarting, restart |-> u.restart,
             items |-> u.items, index |-> u.index]
    BY <1>4, Zenon DEF Ui
  <2> QED  BY <2>1 DEF Ui
<1>5. ASSUME NEW v, v = [u EXCEPT !.started = TRUE, !.loading = FALSE, !.error = TRUE]
      PROVE  /\ v \in Ui /\ v.index \in DOMAIN v.items
             /\ ~ v.loading /\ v.error
             /\ v.restarting = u.restarting /\ v.restart = u.restart
  <2>1. v = [started |-> TRUE, loading |-> FALSE, finished |-> u.finished,
             error |-> TRUE, restarting |-> u.restarting, restart |-> u.restart,
             items |-> u.items, index |-> u.index]
    BY <1>5, Zenon DEF Ui
  <2> QED  BY <2>1 DEF Ui
<1>6. CASE Has(handler[2], s) /\ Asserts(g, s)
  <2>1. PICK v : v = [u EXCEPT !.started = TRUE, !.loading = TRUE]
    OBVIOUS
  <2>2. /\ ui' = Pruned(v)
        /\ walk' = [NotWalking EXCEPT !.on = handler, !.step = s, !.call = FirstCall(s), !.keep = keep]
    BY <1>6, <2>1 DEF Begin
  <2>3. /\ ui' \in Ui /\ ui'.index \in DOMAIN ui'.items /\ Len(ui'.items) = 1
        /\ ui'.loading /\ ~ ui'.error /\ ~ ui'.finished
        /\ ui'.restarting = u.restarting /\ ui'.restart = u.restart
    BY <1>4, <2>1, <2>2, PrunedFits
  <2>4. walk' = [on |-> handler, step |-> s, call |-> FirstCall(s), keep |-> keep,
                 user |-> Nothing, secret |-> Nothing]
    BY <2>2 DEF NotWalking
  <2>5. /\ FirstCall(s) \in CallNames
        /\ CallFits(FirstCall(s), Nothing, g, accounts')
        /\ RegularStep(s, g) => RegularCall(FirstCall(s), g)
    BY <1>1, <1>6, FirstFits
  <2>6. FirstCall(s) # "none"
    BY <2>5 DEF CallNames
  <2>7. walk' \in Walk
    BY <2>4, <2>5 DEF Walk
  <2>8. IsWalking' /\ H' = g /\ walk'.on = handler /\ walk'.step = s /\ walk'.call = FirstCall(s)
        /\ walk'.user = Nothing
    BY <2>4, <2>6 DEF IsWalking, H
  <2>9. Types'
    BY <1>2, <2>3, <2>7 DEF Types
  <2>10. WalkerFits' /\ Untouched'
    BY <2>3, <2>8 DEF WalkerFits, Untouched
  <2>11. WalkFits'
    BY <2>5, <2>8 DEF WalkFits
  <2>12. Regular'
    BY <2>3, <2>5, <2>8 DEF Regular
  <2> QED  BY <1>3, <2>8, <2>9, <2>10, <2>11, <2>12 DEF Inv
<1>7. CASE ~ (Has(handler[2], s) /\ Asserts(g, s))
  <2>1. PICK v : v = [u EXCEPT !.started = TRUE, !.loading = FALSE, !.error = TRUE]
    OBVIOUS
  <2>2. ui' = Pruned(v) /\ walk' = NotWalking
    BY <1>7, <2>1 DEF Begin
  <2>3. /\ ui' \in Ui /\ ui'.index \in DOMAIN ui'.items /\ Len(ui'.items) = 1
        /\ ~ ui'.loading /\ ui'.error
        /\ ui'.restarting = u.restarting /\ ui'.restart = u.restart
    BY <1>5, <2>1, <2>2, PrunedFits
  <2>4. ~ IsWalking' /\ walk' \in Walk
    BY <2>2, NotWalkingFits DEF IsWalking
  <2>5. Types'
    BY <1>2, <2>3, <2>4 DEF Types
  <2>6. WalkerFits' /\ Untouched' /\ WalkFits'
    BY <2>3, <2>4 DEF WalkerFits, Untouched, WalkFits
  <2>7. Regular'
    BY <2>3, <2>4 DEF Regular
  <2>8. StepFits(step, handlers[handler])'
    BY <1>1
  <2> QED  BY <1>3, <2>4, <2>5, <2>6, <2>7, <2>8 DEF Inv
<1> QED  BY <1>6, <1>7
\* The types of what is typed, in the form the lemmas below want it.
LEMMA Typed ==
  ASSUME Inv
  PROVE  /\ handler \in Keys /\ handler[1] \in Nat /\ handler[2] \in {"V1", "V3"}
         /\ handlers \in [Keys -> Handler]
         /\ walk.on \in Keys /\ H \in Handler /\ Sound(H, accounts)
         /\ walk.on[2] \in {"V1", "V3"} /\ walk.on[1] \in Nat
         /\ ui \in Ui /\ ui.index \in DOMAIN ui.items /\ walk \in Walk /\ step \in StepNames
<1> QED
  BY ConstantsAssumption DEF Inv, Types, TypeOK, Keys, Walk, Generations, H, AllSound

\* The walk is over, for better or worse.
LEMMA OverInv ==
  ASSUME Inv, IsWalking, Kept, NEW h \in Handler, Sound(h, accounts'),
         walk.on = handler => StepFits(walk.step, h),
         handlers' = [handlers EXCEPT ![walk.on] = h],
         NEW e \in BOOLEAN, NEW f \in BOOLEAN, e \/ f,
         ui' = [started |-> ui.started, loading |-> FALSE, finished |-> f, error |-> e,
                restarting |-> ui.restarting, restart |-> ui.restart,
                items |-> ui.items, index |-> ui.index],
         walk' = NotWalking, handler' = handler, step' = step
  PROVE  Inv'
<1> PICK g : g = handlers'[handler]
  OBVIOUS
<1>1. /\ handlers' \in [Keys -> Handler]
      /\ \A k \in Keys : Sound(handlers'[k], accounts')
      /\ \A k \in Keys : (k[1] > handler[1] \/ (k[1] = handler[1] /\ Len(ui.items) = 2))
                             => handlers'[k] = NewHandler
      /\ handlers'[walk.on] = h
      /\ walk.on = handler \/ (Len(ui.items) = 2 /\ handlers'[handler] = NewHandler)
  BY HandlersAfter
<1>2. TypeOK' /\ AllSound' /\ SavedIsRegistered'
  BY <1>1, Typed DEF TypeOK, Keys, Kept, AllSound
<1>3. /\ ui' \in Ui /\ ui'.index \in DOMAIN ui'.items
      /\ ~ ui'.loading /\ (ui'.error \/ ui'.finished)
      /\ ui'.items = ui.items /\ ui'.restarting = ui.restarting /\ ui'.restart = ui.restart
  BY Typed DEF Ui
<1>4. ~ IsWalking' /\ walk' \in Walk
  BY NotWalkingFits DEF IsWalking
<1>5. Types'
  BY <1>2, <1>3, <1>4, Typed DEF Types
<1>6. WalkerFits' /\ Untouched' /\ WalkFits'
  BY <1>1, <1>3, <1>4 DEF Inv, WalkerFits, Untouched, WalkFits
<1>7. StepFits(step, handlers[handler])'
  <2>1. CASE walk.on = handler
    <3>1. walk.step = step /\ handlers'[handler] = h
      BY <1>1, <2>1, Typed DEF Inv, WalkerFits
    <3>2. StepFits(step, handlers'[handler])
      BY <2>1, <3>1
    <3> QED  BY <3>2
  <2>2. CASE walk.on # handler
    BY <1>1, <2>2, Typed, NewFits
  <2> QED  BY <2>1, <2>2
<1>8. Regular'
  <2>1. ~ ui.restarting => Has(handler[2], step)
    BY DEF Inv, Regular
  <2> QED  BY <1>3, <1>4, <2>1 DEF Regular
<1> QED  BY <1>2, <1>4, <1>5, <1>6, <1>7, <1>8 DEF Inv

LEMMA ThrowsInv ==
  ASSUME Inv, IsWalking, Kept, NEW h \in Handler, Sound(h, accounts'),
         walk.on = handler => StepFits(walk.step, h), Throws(h)
  PROVE  Inv'
<1>1. ui.finished = FALSE /\ ui \in Ui
  BY Typed DEF Inv, WalkerFits, Ui
<1>2. ui' = [started |-> ui.started, loading |-> FALSE, finished |-> FALSE, error |-> TRUE,
             restarting |-> ui.restarting, restart |-> ui.restart,
             items |-> ui.items, index |-> ui.index]
  <2>1. ui' = [ui EXCEPT !.error = TRUE, !.loading = FALSE]
    BY DEF Throws
  <2> QED  BY <1>1, <2>1, Zenon DEF Ui
<1> QED  BY <1>2, OverInv DEF Throws

LEMMA FinishesInv ==
  ASSUME Inv, IsWalking, Kept, NEW h \in Handler, Sound(h, accounts'),
         walk.on = handler => StepFits(walk.step, h), Finishes(h)
  PROVE  Inv'
<1>1. ui.error = FALSE /\ ui \in Ui
  BY Typed DEF Inv, WalkerFits, Ui
<1>2. ui' = [started |-> ui.started, loading |-> FALSE, finished |-> TRUE, error |-> FALSE,
             restarting |-> ui.restarting, restart |-> ui.restart,
             items |-> ui.items, index |-> ui.index]
  <2>1. ui' = [ui EXCEPT !.loading = FALSE, !.finished = TRUE]
    BY DEF Finishes
  <2> QED  BY <1>1, <2>1, Zenon DEF Ui
<1> QED  BY <1>2, OverInv DEF Finishes

LEMMA ReturnsInv ==
  ASSUME Inv, IsWalking, Kept, NEW h \in Handler, Sound(h, accounts'),
         NEW next \in StepNames, Has(walk.on[2], next), StepFits(next, h),
         ~ ui.restarting => RegularStep(next, h),
         Returns(h, next)
  PROVE  Inv'
<1>1. CASE ~ Has(handler[2], next)
  <2>1. Throws(h) /\ walk.on # handler
    BY <1>1 DEF Returns
  <2> QED  BY <2>1, ThrowsInv
<1>2. CASE Has(handler[2], next)
  <2>1. /\ handlers' \in [Keys -> Handler]
        /\ \A k \in Keys : Sound(handlers'[k], accounts')
        /\ \A k \in Keys : (k[1] > handler[1] \/ (k[1] = handler[1] /\ Len(ui.items) = 2))
                               => handlers'[k] = NewHandler
        /\ handlers'[walk.on] = h
        /\ walk.on = handler \/ (Len(ui.items) = 2 /\ handlers'[handler] = NewHandler)
    BY <1>2, HandlersAfter DEF Returns
  <2>2. PICK u : u = [ui EXCEPT !.loading = FALSE]
    OBVIOUS
  <2>3. u = [started |-> ui.started, loading |-> FALSE, finished |-> ui.finished,
             error |-> ui.error, restarting |-> ui.restarting, restart |-> ui.restart,
             items |-> ui.items, index |-> ui.index]
    BY <2>2, Typed, Zenon DEF Ui
  <2>4. /\ u \in Ui /\ u.index \in DOMAIN u.items /\ ~ u.loading /\ ~ u.error /\ ~ u.finished
        /\ u.items = ui.items /\ u.restarting = ui.restarting /\ u.restart = ui.restart
    BY <2>3, Typed DEF Ui, Inv, WalkerFits
  <2>5. u.restart = "closing" => u.restarting /\ handler[1] < MaxRestarts
    BY <2>4 DEF Inv, WalkerFits
  <2>6. StepFits(next, handlers'[handler])
    BY <2>1, NewFits
  <2>7. ~ u.restarting => RegularStep(next, handlers'[handler])
    <3>1. ~ ui.restarting => walk.on = handler
      BY DEF Inv, WalkerFits
    <3> QED  BY <2>1, <2>4, <3>1
  <2>8. step' = next /\ handler' = handler
    BY <1>2 DEF Returns
  <2>9. CASE walk.keep
    <3>1. Begin(u, next, TRUE)
      BY <1>2, <2>2, <2>4, <2>9 DEF Returns
    <3> QED  BY <1>2, <2>1, <2>4, <2>5, <2>6, <2>7, <2>8, <3>1, Typed, BeginInv
  <2>10. CASE ~ walk.keep
    <3>1. ui' = u /\ walk' = NotWalking
      BY <1>2, <2>2, <2>10 DEF Returns
    <3>2. ~ IsWalking' /\ walk' \in Walk
      BY <3>1, NotWalkingFits DEF IsWalking
    <3>3. Types'
      BY <2>1, <2>4, <2>8, <3>1, <3>2, Typed DEF Types, TypeOK, Keys, Kept
    <3>4. WalkerFits' /\ Untouched' /\ WalkFits' /\ AllSound' /\ SavedIsRegistered'
      BY <2>1, <2>4, <2>5, <2>8, <3>1, <3>2 DEF WalkerFits, Untouched, WalkFits, AllSound, Kept
    <3>5. StepFits(step, handlers[handler])'
      BY <2>6, <2>8
    <3>6. Regular'
      BY <1>2, <2>4, <2>7, <2>8, <3>1, <3>2 DEF Regular
    <3> QED  BY <3>2, <3>3, <3>4, <3>5, <3>6 DEF Inv
  <2> QED  BY <2>9, <2>10
<1> QED  BY <1>1, <1>2

LEMMA AwaitsInv ==
  ASSUME Inv, IsWalking, Kept, NEW h \in Handler, Sound(h, accounts'),
         walk.call \notin SimpleCalls, NEW c \in CallNames,
         NEW u \in Usernames \union {Nothing}, NEW s \in Secrets \union {Nothing},
         CallFits(c, u, h, accounts'), ~ ui.restarting => RegularCall(c, h),
         Awaits(h, c, u, s)
  PROVE  Inv'
<1>1. /\ handlers' \in [Keys -> Handler]
      /\ \A k \in Keys : Sound(handlers'[k], accounts')
      /\ \A k \in Keys : (k[1] > handler[1] \/ (k[1] = handler[1] /\ Len(ui.items) = 2))
                             => handlers'[k] = NewHandler
      /\ handlers'[walk.on] = h
      /\ walk.on = handler \/ (Len(ui.items) = 2 /\ handlers'[handler] = NewHandler)
  BY HandlersAfter DEF Awaits
<1>2. UNCHANGED <<ui, handler, step>>
  BY DEF Awaits
<1>3. walk' = [on |-> walk.on, step |-> walk.step, call |-> c, keep |-> walk.keep,
               user |-> u, secret |-> s]
  <2>1. walk' = [walk EXCEPT !.call = c, !.user = u, !.secret = s]
    BY DEF Awaits
  <2> QED  BY <2>1, Typed, Zenon DEF Walk
<1>4. /\ walk' \in Walk /\ walk'.on = walk.on /\ walk'.step = walk.step
      /\ walk'.call = c /\ walk'.user = u /\ IsWalking' /\ H' = h
  BY <1>1, <1>3, Typed DEF Walk, IsWalking, H, CallNames
<1>5. Types'
  BY <1>1, <1>2, <1>4, Typed DEF Types, TypeOK, Keys, Kept
<1>6. WalkerFits' /\ Untouched' /\ AllSound' /\ SavedIsRegistered'
  BY <1>1, <1>2, <1>4 DEF Inv, WalkerFits, Untouched, AllSound, Kept
<1>7. WalkFits'
  BY <1>4, InFlight DEF WalkFits
<1>8. Regular'
  <2>1. ~ ui.restarting => Has(handler[2], step)
    BY DEF Inv, Regular
  <2>2. ui.loading
    BY DEF Inv, WalkerFits
  <2> QED  BY <1>2, <1>4, <2>1, <2>2 DEF Regular
<1> QED  BY <1>4, <1>5, <1>6, <1>7, <1>8 DEF Inv
-----------------------------------------------------------------------------
(***************************************************************************)
(* What a handler becomes when one of its fields is assigned               *)
(***************************************************************************)
LEMMA SetChannel ==
  ASSUME NEW g \in Handler, NEW v \in {"none", "open", "closed"}, NEW h, h = [g EXCEPT !.channel = v]
  PROVE  /\ h = [channel |-> v, intent |-> g.intent, username |-> g.username,
                 secret |-> g.secret, id |-> g.id, proof |-> g.proof, done |-> g.done,
                 auth |-> g.auth, session |-> g.session]
         /\ h \in Handler
<1>1. h = [channel |-> v, intent |-> g.intent, username |-> g.username,
          secret |-> g.secret, id |-> g.id, proof |-> g.proof, done |-> g.done,
          auth |-> g.auth, session |-> g.session]
  BY Zenon DEF Handler
<1> QED  BY <1>1 DEF Handler

LEMMA SetIntent ==
  ASSUME NEW g \in Handler, NEW v \in {"none", "Register", "Authenticate"}, NEW h, h = [g EXCEPT !.intent = v]
  PROVE  /\ h = [channel |-> g.channel, intent |-> v, username |-> g.username,
                 secret |-> g.secret, id |-> g.id, proof |-> g.proof, done |-> g.done,
                 auth |-> g.auth, session |-> g.session]
         /\ h \in Handler
<1>1. h = [channel |-> g.channel, intent |-> v, username |-> g.username,
          secret |-> g.secret, id |-> g.id, proof |-> g.proof, done |-> g.done,
          auth |-> g.auth, session |-> g.session]
  BY Zenon DEF Handler
<1> QED  BY <1>1 DEF Handler

LEMMA SetId ==
  ASSUME NEW g \in Handler, NEW v \in Challenges, NEW h, h = [g EXCEPT !.id = v]
  PROVE  /\ h = [channel |-> g.channel, intent |-> g.intent, username |-> g.username,
                 secret |-> g.secret, id |-> v, proof |-> g.proof, done |-> g.done,
                 auth |-> g.auth, session |-> g.session]
         /\ h \in Handler
<1>1. h = [channel |-> g.channel, intent |-> g.intent, username |-> g.username,
          secret |-> g.secret, id |-> v, proof |-> g.proof, done |-> g.done,
          auth |-> g.auth, session |-> g.session]
  BY Zenon DEF Handler
<1> QED  BY <1>1 DEF Handler

LEMMA SetProof ==
  ASSUME NEW g \in Handler, NEW v \in Challenges, NEW h, h = [g EXCEPT !.proof = v]
  PROVE  /\ h = [channel |-> g.channel, intent |-> g.intent, username |-> g.username,
                 secret |-> g.secret, id |-> g.id, proof |-> v, done |-> g.done,
                 auth |-> g.auth, session |-> g.session]
         /\ h \in Handler
<1>1. h = [channel |-> g.channel, intent |-> g.intent, username |-> g.username,
          secret |-> g.secret, id |-> g.id, proof |-> v, done |-> g.done,
          auth |-> g.auth, session |-> g.session]
  BY Zenon DEF Handler
<1> QED  BY <1>1 DEF Handler

LEMMA SetDone ==
  ASSUME NEW g \in Handler, NEW h, h = [g EXCEPT !.done = TRUE]
  PROVE  /\ h = [channel |-> g.channel, intent |-> g.intent, username |-> g.username,
                 secret |-> g.secret, id |-> g.id, proof |-> g.proof, done |-> TRUE,
                 auth |-> g.auth, session |-> g.session]
         /\ h \in Handler
<1>1. h = [channel |-> g.channel, intent |-> g.intent, username |-> g.username,
          secret |-> g.secret, id |-> g.id, proof |-> g.proof, done |-> TRUE,
          auth |-> g.auth, session |-> g.session]
  BY Zenon DEF Handler
<1> QED  BY <1>1 DEF Handler

LEMMA SetAuth ==
  ASSUME NEW g \in Handler, NEW v \in {"none", "session", "challenge"}, NEW h, h = [g EXCEPT !.auth = v]
  PROVE  /\ h = [channel |-> g.channel, intent |-> g.intent, username |-> g.username,
                 secret |-> g.secret, id |-> g.id, proof |-> g.proof, done |-> g.done,
                 auth |-> v, session |-> g.session]
         /\ h \in Handler
<1>1. h = [channel |-> g.channel, intent |-> g.intent, username |-> g.username,
          secret |-> g.secret, id |-> g.id, proof |-> g.proof, done |-> g.done,
          auth |-> v, session |-> g.session]
  BY Zenon DEF Handler
<1> QED  BY <1>1 DEF Handler

LEMMA SetName ==
  ASSUME NEW g \in Handler, NEW v \in Usernames, NEW h, h = [g EXCEPT !.username = v]
  PROVE  /\ h = [channel |-> g.channel, intent |-> g.intent, username |-> v,
                 secret |-> g.secret, id |-> g.id, proof |-> g.proof, done |-> g.done,
                 auth |-> g.auth, session |-> g.session]
         /\ h \in Handler
<1>1. h = [channel |-> g.channel, intent |-> g.intent, username |-> v,
          secret |-> g.secret, id |-> g.id, proof |-> g.proof, done |-> g.done,
          auth |-> g.auth, session |-> g.session]
  BY Zenon DEF Handler
<1> QED  BY <1>1 DEF Handler

LEMMA SetFields ==
  ASSUME NEW g \in Handler, NEW v \in Usernames, NEW w \in Secrets, NEW h, h = [g EXCEPT !.username = v, !.secret = w]
  PROVE  /\ h = [channel |-> g.channel, intent |-> g.intent, username |-> v, secret |-> w,
                 id |-> g.id, proof |-> g.proof, done |-> g.done, auth |-> g.auth,
                 session |-> g.session]
         /\ h \in Handler
<1>1. h = [channel |-> g.channel, intent |-> g.intent, username |-> v, secret |-> w,
          id |-> g.id, proof |-> g.proof, done |-> g.done, auth |-> g.auth,
          session |-> g.session]
  BY Zenon DEF Handler
<1> QED  BY <1>1 DEF Handler

Outcomes == {"none", "pending", "selected", "passed", "failed"}
WithUser(g, u) == [g EXCEPT !.auth = "session", !.session.user = u]
WithOutcome(g, o) == [g EXCEPT !.session.challenge = o]

LEMMA SetUser ==
  ASSUME NEW g \in Handler, NEW v \in Usernames, NEW h, h = WithUser(g, v)
  PROVE  /\ h = [channel |-> g.channel, intent |-> g.intent, username |-> g.username,
                 secret |-> g.secret, id |-> g.id, proof |-> g.proof, done |-> g.done,
                 auth |-> "session", session |-> h.session]
         /\ h.session = [user |-> v, finished |-> g.session.finished, challenge |-> g.session.challenge]
         /\ h \in Handler
<1>1. h = [g EXCEPT !.auth = "session", !.session = [g.session EXCEPT !.user = v]]
  BY Zenon DEF Handler, WithUser
<1>2. h = [channel |-> g.channel, intent |-> g.intent, username |-> g.username,
          secret |-> g.secret, id |-> g.id, proof |-> g.proof, done |-> g.done,
          auth |-> "session", session |-> [g.session EXCEPT !.user = v]]
  BY <1>1, Zenon DEF Handler
<1>3. PICK e : e = g.session
  OBVIOUS
<1>4. e \in [user : Usernames \union {Nothing}, finished : BOOLEAN,
           challenge : {"none", "pending", "selected", "passed", "failed"}]
  BY <1>3 DEF Handler
<1>5. PICK f : f = [e EXCEPT !.user = v]
  OBVIOUS
<1>6. f = [user |-> v, finished |-> e.finished, challenge |-> e.challenge]
  BY <1>4, <1>5, Zenon
<1>7. h.session = f
  BY <1>2, <1>3, <1>5
<1>8. h \in Handler
  BY <1>2, <1>3, <1>4, <1>5, <1>6 DEF Handler
<1> QED  BY <1>2, <1>3, <1>6, <1>7, <1>8

LEMMA SetOutcome ==
  ASSUME NEW g \in Handler, NEW v \in Outcomes, NEW h, h = WithOutcome(g, v)
  PROVE  /\ h = [channel |-> g.channel, intent |-> g.intent, username |-> g.username,
                 secret |-> g.secret, id |-> g.id, proof |-> g.proof, done |-> g.done,
                 auth |-> g.auth, session |-> h.session]
         /\ h.session = [user |-> g.session.user, finished |-> g.session.finished, challenge |-> v]
         /\ h \in Handler
<1>1. h = [g EXCEPT !.session = [g.session EXCEPT !.challenge = v]]
  BY Zenon DEF Handler, WithOutcome
<1>2. h = [channel |-> g.channel, intent |-> g.intent, username |-> g.username,
          secret |-> g.secret, id |-> g.id, proof |-> g.proof, done |-> g.done,
          auth |-> g.auth, session |-> [g.session EXCEPT !.challenge = v]]
  BY <1>1, Zenon DEF Handler
<1>3. PICK e : e = g.session
  OBVIOUS
<1>4. e \in [user : Usernames \union {Nothing}, finished : BOOLEAN,
           challenge : {"none", "pending", "selected", "passed", "failed"}]
  BY <1>3 DEF Handler
<1>5. PICK f : f = [e EXCEPT !.challenge = v]
  OBVIOUS
<1>6. f = [user |-> e.user, finished |-> e.finished, challenge |-> v]
  BY <1>4, <1>5, Zenon
<1>7. h.session = f
  BY <1>2, <1>3, <1>5
<1>8. h \in Handler
  BY <1>2, <1>3, <1>4, <1>5, <1>6 DEF Handler, Outcomes
<1> QED  BY <1>2, <1>3, <1>6, <1>7, <1>8

LEMMA SetFinished ==
  ASSUME NEW g \in Handler, NEW h, h = [g EXCEPT !.session.finished = TRUE]
  PROVE  /\ h = [channel |-> g.channel, intent |-> g.intent, username |-> g.username,
                 secret |-> g.secret, id |-> g.id, proof |-> g.proof, done |-> g.done,
                 auth |-> g.auth, session |-> h.session]
         /\ h.session = [user |-> g.session.user, finished |-> TRUE, challenge |-> g.session.challenge]
         /\ h \in Handler
<1>1. h = [g EXCEPT !.session = [g.session EXCEPT !.finished = TRUE]]
  BY Zenon DEF Handler
<1>2. h = [channel |-> g.channel, intent |-> g.intent, username |-> g.username,
          secret |-> g.secret, id |-> g.id, proof |-> g.proof, done |-> g.done,
          auth |-> g.auth, session |-> [g.session EXCEPT !.finished = TRUE]]
  BY <1>1, Zenon DEF Handler
<1>3. PICK e : e = g.session
  OBVIOUS
<1>4. e \in [user : Usernames \union {Nothing}, finished : BOOLEAN,
           challenge : {"none", "pending", "selected", "passed", "failed"}]
  BY <1>3 DEF Handler
<1>5. PICK f : f = [e EXCEPT !.finished = TRUE]
  OBVIOUS
<1>6. f = [user |-> e.user, finished |-> TRUE, challenge |-> e.challenge]
  BY <1>4, <1>5, Zenon
<1>7. h.session = f
  BY <1>2, <1>3, <1>5
<1>8. h \in Handler
  BY <1>2, <1>3, <1>4, <1>5, <1>6 DEF Handler
<1> QED  BY <1>2, <1>3, <1>6, <1>7, <1>8

-----------------------------------------------------------------------------
(***************************************************************************)
(* The answers that leave the handler as it is                             *)
(***************************************************************************)
LEMMA Walking ==
  ASSUME Inv, walk.call # "none"
  PROVE  /\ IsWalking /\ H \in Handler /\ Sound(H, accounts)
         /\ CallFits(walk.call, walk.user, H, accounts)
         /\ StepFits(walk.step, H)
         /\ ~ ui.restarting => RegularCall(walk.call, H)
<1>1. IsWalking
  BY DEF IsWalking
<1> QED  BY <1>1, Typed, InFlight DEF Inv, WalkFits, Regular

LEMMA RefusedInv ==
  ASSUME Inv, Refused
  PROVE  Inv'
<1>1. walk.call # "none" /\ Throws(H) /\ UNCHANGED <<accounts, vault>>
  BY DEF Refused
<1>2. Kept
  BY <1>1, SameAccounts
<1>3. PICK h : h = H
  OBVIOUS
<1>4. h \in Handler /\ Sound(h, accounts') /\ StepFits(walk.step, h) /\ Throws(h)
  BY <1>1, <1>3, Walking
<1> QED  BY <1>1, <1>2, <1>4, Walking, ThrowsInv

LEMMA SetMetadataInv ==
  ASSUME Inv, SetMetadata
  PROVE  Inv'
<1>1. walk.call = "setMetadata" /\ UNCHANGED <<accounts, vault>>
  BY DEF SetMetadata, Answers
<1>2. Kept
  BY <1>1, SameAccounts
<1>3. PICK h : h = H
  OBVIOUS
<1>4. h \in Handler /\ Sound(h, accounts') /\ h.intent = "Register"
  BY <1>1, <1>3, Walking DEF CallFits, RegisterStages
<1>5. ~ ui.restarting => h.username # Nothing
  BY <1>1, <1>3, Walking DEF RegularCall
<1>6. ~ ui.restarting => RegularStep("save", h)
  BY <1>4, <1>5, Steps DEF RegularStep, Asserts
<1>7. StepFits("save", h)
  BY DEF StepFits
<1>8. Has(walk.on[2], "save") /\ "save" \in StepNames
  BY Steps, Typed, HasSteps
<1>9. Returns(h, "save")
  BY <1>3 DEF SetMetadata
<1> QED  BY <1>1, <1>2, <1>4, <1>6, <1>7, <1>8, <1>9, Walking, ReturnsInv

LEMMA SetStatusInv ==
  ASSUME Inv, SetStatus
  PROVE  Inv'
<1>1. walk.call = "setStatus" /\ UNCHANGED <<accounts, vault>>
  BY DEF SetStatus, Answers
<1>2. Kept
  BY <1>1, SameAccounts
<1>3. PICK h : h = H
  OBVIOUS
<1>4. h \in Handler /\ Sound(h, accounts') /\ CallFits("saveOperation", Nothing, h, accounts')
  BY <1>1, <1>3, Walking DEF CallFits, RegisterStages, AuthCalls
<1>5. RegularCall("saveOperation", h)
  BY DEF RegularCall
<1>6. Awaits(h, "saveOperation", Nothing, Nothing)
  BY <1>3 DEF SetStatus
<1>7. walk.call \notin SimpleCalls /\ "saveOperation" \in CallNames
  BY <1>1 DEF SimpleCalls, CallNames
<1> QED  BY <1>1, <1>2, <1>4, <1>5, <1>6, <1>7, Walking, AwaitsInv

\* The manager saves what the backend has.
LEMMA SaveOperationInv ==
  ASSUME Inv, SaveOperation
  PROVE  Inv'
<1>1. /\ walk.call = "saveOperation" /\ accounts' = accounts
      /\ vault' = [vault EXCEPT ![H.username] = H.secret]
  BY DEF SaveOperation, Answers
<1>2. PICK h : h = H
  OBVIOUS
<1>3. /\ h \in Handler /\ Sound(h, accounts') /\ h.intent = "Register"
      /\ h.username # Nothing /\ accounts[h.username] = h.secret
  BY <1>1, <1>2, Walking DEF CallFits, RegisterStages
<1>4. Kept
  <2>1. h.username \in Usernames /\ h.secret \in Secrets \union {Nothing}
    BY <1>3 DEF Handler
  <2>2. /\ accounts \in [Usernames -> Secrets \union {Nothing}]
        /\ vault \in [Usernames -> Secrets \union {Nothing}]
    BY DEF Inv, Types, TypeOK
  <2>3. \A u \in Usernames : vault'[u] = IF u = h.username THEN h.secret ELSE vault[u]
    BY <1>1, <1>2, <2>2
  <2>4. vault' \in [Usernames -> Secrets \union {Nothing}]
    BY <1>1, <1>2, <2>1, <2>2
  <2>5. SavedIsRegistered'
    BY <1>1, <1>3, <2>3 DEF Inv, SavedIsRegistered
  <2> QED  BY <1>1, <2>2, <2>4, <2>5 DEF Kept, Grow
<1>5. RegularStep("transitionToAuth", h) /\ StepFits("transitionToAuth", h)
  BY <1>3, Steps DEF RegularStep, Asserts, StepFits
<1>6. Has(walk.on[2], "transitionToAuth") /\ "transitionToAuth" \in StepNames
  BY Steps, Typed, HasSteps
<1>7. StepFits(walk.step, h)
  BY <1>1, <1>2, Walking
<1>8. CASE Returns(h, "transitionToAuth")
  BY <1>1, <1>3, <1>4, <1>5, <1>6, <1>8, Walking, ReturnsInv
<1>9. CASE Throws(h)
  BY <1>1, <1>3, <1>4, <1>7, <1>9, Walking, ThrowsInv
<1> QED  BY <1>2, <1>8, <1>9 DEF SaveOperation

LEMMA AccountExistsInv ==
  ASSUME Inv, AccountExists
  PROVE  Inv'
<1>1. walk.call = "exists" /\ UNCHANGED <<accounts, vault>>
  BY DEF AccountExists
<1>2. Kept
  BY <1>1, SameAccounts
<1>3. PICK h : h = H
  OBVIOUS
<1>4. h \in Handler /\ Sound(h, accounts') /\ h.intent = "Register" /\ h.username # Nothing
  BY <1>1, <1>3, Walking DEF CallFits, RegisterStages
<1>5. CASE Awaits(h, "reject", Nothing, Nothing)
  <2>1. CallFits("reject", Nothing, h, accounts') /\ RegularCall("reject", h)
    BY <1>4 DEF CallFits, RegularCall, AuthCalls
  <2>2. walk.call \notin SimpleCalls /\ "reject" \in CallNames
    BY <1>1 DEF SimpleCalls, CallNames
  <2> QED  BY <1>1, <1>2, <1>4, <1>5, <2>1, <2>2, Walking, AwaitsInv
<1>6. CASE Returns(h, "metadata")
  <2>1. RegularStep("metadata", h) /\ StepFits("metadata", h)
    BY <1>4, Steps DEF RegularStep, Asserts, StepFits
  <2>2. Has(walk.on[2], "metadata") /\ "metadata" \in StepNames
    BY Steps, Typed, HasSteps
  <2> QED  BY <1>1, <1>2, <1>4, <1>6, <2>1, <2>2, Walking, ReturnsInv
<1> QED  BY <1>3, <1>5, <1>6 DEF AccountExists

LEMMA CreateAccountInv ==
  ASSUME Inv, CreateAccount
  PROVE  Inv'
<1>1. /\ walk.call = "createAccount" /\ accounts[H.username] = Nothing /\ vault' = vault
      /\ accounts' = [accounts EXCEPT ![H.username] = H.secret]
  BY DEF CreateAccount
<1>2. PICK h : h = H
  OBVIOUS
<1>3. h \in Handler /\ Sound(h, accounts) /\ h.intent = "Register" /\ h.username # Nothing
  BY <1>1, <1>2, Walking DEF CallFits, RegisterStages
<1>4. h.username \in Usernames /\ h.secret \in Secrets \union {Nothing}
  BY <1>3 DEF Handler
<1>5. Kept
  BY <1>1, <1>2, <1>4, NewAccount
<1>6. accounts'[h.username] = h.secret
  BY <1>1, <1>2, <1>4 DEF Inv, Types, TypeOK
<1>7. Sound(h, accounts')
  BY <1>3, <1>5, StillSound DEF Kept
<1>8. CASE Awaits(h, "setStatus", Nothing, Nothing)
  <2>1. CallFits("setStatus", Nothing, h, accounts') /\ RegularCall("setStatus", h)
    BY <1>3, <1>6 DEF CallFits, RegularCall, AuthCalls
  <2>2. walk.call \notin SimpleCalls /\ "setStatus" \in CallNames
    BY <1>1 DEF SimpleCalls, CallNames
  <2> QED  BY <1>1, <1>3, <1>5, <1>7, <1>8, <2>1, <2>2, Walking, AwaitsInv
<1>9. CASE Throws(h)
  BY <1>1, <1>2, <1>3, <1>5, <1>7, <1>9, Walking, ThrowsInv
<1> QED  BY <1>2, <1>8, <1>9 DEF CreateAccount

LEMMA GetIdentityFieldsInv ==
  ASSUME Inv, GetIdentityFields
  PROVE  Inv'
<1>1. walk.call = "getIdentityFields" /\ UNCHANGED <<accounts, vault>> /\ H.id = "open"
  BY DEF GetIdentityFields, Answers
<1>2. Kept
  BY <1>1, SameAccounts
<1>3. PICK h : h = H
  OBVIOUS
<1>4. PICK u \in Usernames : Awaits(h, "newSession", u, Nothing)
  BY <1>3 DEF GetIdentityFields
<1>5. u # Nothing
  BY ConstantsAssumption
<1>6. h \in Handler /\ Sound(h, accounts') /\ CallFits("newSession", u, h, accounts')
  BY <1>1, <1>3, <1>5, Walking DEF CallFits, AuthCalls, RegisterStages
<1>7. RegularCall("newSession", h)
  BY DEF RegularCall
<1>8. walk.call \notin SimpleCalls /\ "newSession" \in CallNames
  BY <1>1 DEF SimpleCalls, CallNames
<1> QED  BY <1>1, <1>2, <1>4, <1>6, <1>7, <1>8, Walking, AwaitsInv

LEMMA GetSecretInv ==
  ASSUME Inv, GetSecret
  PROVE  Inv'
<1>1. walk.call = "getSecret" /\ UNCHANGED <<accounts, vault>> /\ H.proof = "open"
  BY DEF GetSecret, Answers
<1>2. Kept
  BY <1>1, SameAccounts
<1>3. PICK h : h = H
  OBVIOUS
<1>4. h \in Handler /\ Sound(h, accounts') /\ h.intent = "Authenticate" /\ h.proof = "open"
  BY <1>1, <1>3, Walking DEF CallFits, AuthCalls
<1>5. ASSUME NEW s \in Secrets, Awaits(h, "newChallenge", Nothing, s)
      PROVE  Inv'
  <2>1. CallFits("newChallenge", Nothing, h, accounts') /\ RegularCall("newChallenge", h)
    BY <1>4 DEF CallFits, RegularCall, RegisterStages
  <2>2. walk.call \notin SimpleCalls /\ "newChallenge" \in CallNames
    BY <1>1 DEF SimpleCalls, CallNames
  <2> QED  BY <1>1, <1>2, <1>4, <1>5, <2>1, <2>2, Walking, AwaitsInv
<1>6. CASE Throws(h)
  BY <1>1, <1>2, <1>3, <1>4, <1>6, Walking, ThrowsInv
<1> QED  BY <1>3, <1>5, <1>6 DEF GetSecret

LEMMA SignNonceInv ==
  ASSUME Inv, SignNonce
  PROVE  Inv'
<1>1. walk.call = "signNonce" /\ UNCHANGED <<accounts, vault>>
  BY DEF SignNonce, Answers
<1>2. Kept
  BY <1>1, SameAccounts
<1>3. PICK h : h = H
  OBVIOUS
<1>4. PICK s \in Secrets : Awaits(h, "sendSignature", Nothing, s)
  BY <1>3 DEF SignNonce
<1>5. h \in Handler /\ Sound(h, accounts') /\ CallFits("sendSignature", Nothing, h, accounts')
  BY <1>1, <1>3, Walking DEF CallFits, AuthCalls, RegisterStages
<1>6. RegularCall("sendSignature", h)
  BY DEF RegularCall
<1>7. walk.call \notin SimpleCalls /\ "sendSignature" \in CallNames
  BY <1>1 DEF SimpleCalls, CallNames
<1> QED  BY <1>1, <1>2, <1>4, <1>5, <1>6, <1>7, Walking, AwaitsInv

LEMMA PendingMessageInv ==
  ASSUME Inv, PendingMessage
  PROVE  Inv'
<1>1. walk.call = "pendingMessage" /\ UNCHANGED <<accounts, vault>>
  BY DEF PendingMessage
<1>2. Kept
  BY <1>1, SameAccounts
<1>3. PICK h : h = H
  OBVIOUS
<1>4. h \in Handler /\ Sound(h, accounts') /\ CallFits("signNonce", Nothing, h, accounts')
  BY <1>1, <1>3, Walking DEF CallFits, AuthCalls, RegisterStages
<1>5. RegularCall("signNonce", h)
  BY DEF RegularCall
<1>6. Awaits(h, "signNonce", Nothing, Nothing)
  BY <1>3 DEF PendingMessage
<1>7. walk.call \notin SimpleCalls /\ "signNonce" \in CallNames
  BY <1>1 DEF SimpleCalls, CallNames
<1> QED  BY <1>1, <1>2, <1>4, <1>5, <1>6, <1>7, Walking, AwaitsInv

-----------------------------------------------------------------------------
(***************************************************************************)
(* The answers that change the handler                                     *)
(***************************************************************************)

LEMMA CreateChannelInv ==
  ASSUME Inv, CreateChannel
  PROVE  Inv'
<1>1. walk.call = "createChannel" /\ UNCHANGED <<accounts, vault>>
  BY DEF CreateChannel
<1>2. Kept
  BY <1>1, SameAccounts
<1>3. PICK g : g = H
  OBVIOUS
<1>4. g \in Handler /\ Sound(g, accounts) /\ g.intent = "none"
  BY <1>1, <1>3, Walking DEF CallFits, AuthCalls
<1>5. PICK h : h = [g EXCEPT !.channel = "open"]
  OBVIOUS
<1>6. h \in Handler /\ Sound(h, accounts')
  BY <1>1, <1>4, <1>5, SetChannel DEF Sound
<1>7. RegularStep("login", h) /\ StepFits("login", h)
  BY <1>4, <1>5, Steps, SetChannel DEF RegularStep, Asserts, StepFits
<1>8. Has(walk.on[2], "login") /\ "login" \in StepNames
  BY Steps, Typed, HasSteps
<1>9. Returns(h, "login")
  BY <1>3, <1>5 DEF CreateChannel
<1> QED  BY <1>1, <1>2, <1>6, <1>7, <1>8, <1>9, Walking, ReturnsInv

LEMMA TransitionToAuthInv ==
  ASSUME Inv, TransitionToAuth
  PROVE  Inv'
<1>1. walk.call = "transition" /\ UNCHANGED <<accounts, vault>>
  BY DEF TransitionToAuth, Answers
<1>2. Kept
  BY <1>1, SameAccounts
<1>3. PICK g : g = H
  OBVIOUS
<1>4. g \in Handler /\ Sound(g, accounts) /\ g.intent = "Register"
  BY <1>1, <1>3, Walking DEF CallFits, RegisterStages
<1>5. PICK h : h = [g EXCEPT !.intent = "Authenticate"]
  OBVIOUS
<1>6. h \in Handler /\ Sound(h, accounts')
  BY <1>1, <1>4, <1>5, SetIntent DEF Sound
<1>7. RegularStep("createIdentificationChallenge", h) /\ StepFits("createIdentificationChallenge", h)
  BY <1>1, <1>4, <1>5, Steps, SetIntent DEF RegularStep, Asserts, StepFits, Sound
<1>8. Has(walk.on[2], "createIdentificationChallenge") /\ "createIdentificationChallenge" \in StepNames
  BY Steps, Typed, HasSteps
<1>9. Returns(h, "createIdentificationChallenge")
  BY <1>3, <1>5 DEF TransitionToAuth
<1> QED  BY <1>1, <1>2, <1>6, <1>7, <1>8, <1>9, Walking, ReturnsInv

LEMMA ChallengeIdInv ==
  ASSUME Inv, ChallengeId
  PROVE  Inv'
<1>1. walk.call = "challengeId" /\ UNCHANGED <<accounts, vault>>
  BY DEF ChallengeId, Answers
<1>2. Kept
  BY <1>1, SameAccounts
<1>3. PICK g : g = H
  OBVIOUS
<1>4. g \in Handler /\ Sound(g, accounts) /\ g.intent = "Authenticate" /\ g.id = "none"
  BY <1>1, <1>3, Walking DEF CallFits, AuthCalls
<1>5. PICK h : h = [g EXCEPT !.id = "open"]
  OBVIOUS
<1>6. h \in Handler /\ Sound(h, accounts')
  BY <1>1, <1>4, <1>5, SetId DEF Sound, Challenges
<1>7. RegularStep("identification", h) /\ StepFits("identification", h)
  BY <1>1, <1>4, <1>5, Steps, SetId DEF Challenges, RegularStep, Asserts, StepFits
<1>8. Has(walk.on[2], "identification") /\ "identification" \in StepNames
  BY Steps, Typed, HasSteps
<1>9. Returns(h, "identification")
  BY <1>3, <1>5 DEF ChallengeId
<1> QED  BY <1>1, <1>2, <1>6, <1>7, <1>8, <1>9, Walking, ReturnsInv

LEMMA SealInv ==
  ASSUME Inv, Seal
  PROVE  Inv'
<1>1. walk.call = "seal" /\ UNCHANGED <<accounts, vault>> /\ H.proof = "open"
  BY DEF Seal, Answers
<1>2. Kept
  BY <1>1, SameAccounts
<1>3. PICK g : g = H
  OBVIOUS
<1>4. g \in Handler /\ Sound(g, accounts) /\ g.intent = "Authenticate" /\ g.proof = "open"
      /\ g.session.finished /\ g.session.challenge = "passed"
  BY <1>1, <1>3, Walking DEF CallFits, AuthCalls
<1>5. PICK h : h = [g EXCEPT !.proof = "sealed"]
  OBVIOUS
<1>6. h \in Handler /\ Sound(h, accounts')
  BY <1>1, <1>4, <1>5, SetProof DEF Sound, Challenges
<1>7. RegularStep("finishLogin", h) /\ StepFits("finishLogin", h)
  BY <1>1, <1>4, <1>5, Steps, SetProof DEF Challenges, RegularStep, Asserts, StepFits
<1>8. Has(walk.on[2], "finishLogin") /\ "finishLogin" \in StepNames
  BY Steps, Typed, HasSteps
<1>9. Returns(h, "finishLogin")
  BY <1>3, <1>5 DEF Seal
<1> QED  BY <1>1, <1>2, <1>6, <1>7, <1>8, <1>9, Walking, ReturnsInv

LEMMA FinishLoginInv ==
  ASSUME Inv, FinishLogin
  PROVE  Inv'
<1>1. walk.call = "finish" /\ UNCHANGED <<accounts, vault>> /\ H.channel = "open"
  BY DEF FinishLogin, Answers
<1>2. Kept
  BY <1>1, SameAccounts
<1>3. PICK g : g = H
  OBVIOUS
<1>4. g \in Handler /\ Sound(g, accounts) /\ g.proof = "sealed" /\ g.channel = "open"
  BY <1>1, <1>3, Walking DEF CallFits, AuthCalls
<1>5. PICK h : h = [g EXCEPT !.done = TRUE]
  OBVIOUS
<1>6. h \in Handler /\ Sound(h, accounts')
  <2>1. /\ h \in Handler /\ h.intent = g.intent /\ h.id = g.id /\ h.proof = g.proof
        /\ h.session = g.session /\ h.username = g.username /\ h.secret = g.secret
    BY <1>4, <1>5, SetDone
  <2> QED  BY <1>1, <1>4, <2>1 DEF Sound
<1>7. RegularStep("closeChannel", h) /\ StepFits("closeChannel", h)
  BY <1>1, <1>4, <1>5, Steps, SetDone DEF RegularStep, Asserts, StepFits
<1>8. Has(walk.on[2], "closeChannel") /\ "closeChannel" \in StepNames
  BY Steps, Typed, HasSteps
<1>9. Returns(h, "closeChannel")
  BY <1>3, <1>5 DEF FinishLogin
<1> QED  BY <1>1, <1>2, <1>6, <1>7, <1>8, <1>9, Walking, ReturnsInv

LEMMA LogInInv ==
  ASSUME Inv, LogIn
  PROVE  Inv'
<1>1. walk.call = "login" /\ UNCHANGED <<accounts, vault>>
  BY DEF LogIn, Answers
<1>2. Kept
  BY <1>1, SameAccounts
<1>3. PICK g : g = H
  OBVIOUS
<1>4. g \in Handler /\ Sound(g, accounts) /\ g.intent = "none"
  BY <1>1, <1>3, Walking DEF CallFits
<1>5. CASE Returns([g EXCEPT !.intent = "Register"], "addFields")
  <2>1. PICK h : h = [g EXCEPT !.intent = "Register"]
    OBVIOUS
  <2>2. h \in Handler /\ Sound(h, accounts')
    BY <1>1, <1>4, <2>1, SetIntent DEF Sound
  <2>3. RegularStep("addFields", h) /\ StepFits("addFields", h)
    BY <1>4, <2>1, Steps, SetIntent DEF RegularStep, Asserts, StepFits
  <2>4. Has(walk.on[2], "addFields") /\ "addFields" \in StepNames
    BY Steps, Typed, HasSteps
  <2>5. Returns(h, "addFields")
    BY <1>5, <2>1
  <2> QED  BY <1>1, <1>2, <2>2, <2>3, <2>4, <2>5, Walking, ReturnsInv
<1>6. CASE Returns([g EXCEPT !.intent = "Authenticate"], "createIdentificationChallenge")
  <2>1. PICK h : h = [g EXCEPT !.intent = "Authenticate"]
    OBVIOUS
  <2>2. h \in Handler /\ Sound(h, accounts')
    BY <1>1, <1>4, <2>1, SetIntent DEF Sound
  <2>3. RegularStep("createIdentificationChallenge", h) /\ StepFits("createIdentificationChallenge", h)
    BY <1>4, <2>1, Steps, SetIntent DEF RegularStep, Asserts, StepFits, Sound
  <2>4. /\ Has(walk.on[2], "createIdentificationChallenge")
        /\ "createIdentificationChallenge" \in StepNames
    BY Steps, Typed, HasSteps
  <2>5. Returns(h, "createIdentificationChallenge")
    BY <1>6, <2>1
  <2> QED  BY <1>1, <1>2, <2>2, <2>3, <2>4, <2>5, Walking, ReturnsInv
<1> QED  BY <1>3, <1>5, <1>6 DEF LogIn

LEMMA AddFieldsInv ==
  ASSUME Inv, AddFields
  PROVE  Inv'
<1>1. walk.call = "addFields" /\ UNCHANGED <<accounts, vault>>
  BY DEF AddFields, Answers
<1>2. Kept
  BY <1>1, SameAccounts
<1>3. PICK g : g = H
  OBVIOUS
<1>4. g \in Handler /\ Sound(g, accounts) /\ g.intent = "Register"
  BY <1>1, <1>3, Walking DEF CallFits, RegisterStages
<1>5. PICK u \in Usernames, s \in Secrets :
          Returns([g EXCEPT !.username = u, !.secret = s], "validateFields")
  BY <1>3 DEF AddFields
<1>6. PICK h : h = [g EXCEPT !.username = u, !.secret = s]
  OBVIOUS
<1>7. u # Nothing /\ s # Nothing
  BY ConstantsAssumption
<1>8. /\ h \in Handler /\ h.intent = g.intent /\ h.id = g.id /\ h.proof = g.proof
       /\ h.done = g.done /\ h.session = g.session /\ h.username = u /\ h.secret = s
  <2>1. /\ h = [channel |-> g.channel, intent |-> g.intent, username |-> u, secret |-> s,
                id |-> g.id, proof |-> g.proof, done |-> g.done, auth |-> g.auth,
                session |-> g.session]
        /\ h \in Handler
    BY <1>4, <1>6, SetFields, Zenon
  <2> QED  BY <2>1
<1>9. h \in Handler /\ Sound(h, accounts')
  BY <1>1, <1>4, <1>7, <1>8 DEF Sound
<1>10. RegularStep("validateFields", h) /\ StepFits("validateFields", h)
  BY <1>4, <1>7, <1>8, Steps DEF RegularStep, Asserts, StepFits
<1>11. Has(walk.on[2], "validateFields") /\ "validateFields" \in StepNames
  BY Steps, Typed, HasSteps
<1>12. Returns(h, "validateFields")
  BY <1>5, <1>6
<1> QED  BY <1>1, <1>2, <1>9, <1>10, <1>11, <1>12, Walking, ReturnsInv

LEMMA RejectAndReviseFieldsInv ==
  ASSUME Inv, RejectAndReviseFields
  PROVE  Inv'
<1>1. walk.call = "reject" /\ UNCHANGED <<accounts, vault>>
  BY DEF RejectAndReviseFields, Answers
<1>2. Kept
  BY <1>1, SameAccounts
<1>3. PICK g : g = H
  OBVIOUS
<1>4. g \in Handler /\ Sound(g, accounts) /\ g.intent = "Register" /\ g.username # Nothing
  BY <1>1, <1>3, Walking DEF CallFits, RegisterStages
<1>5. PICK u \in Usernames : Awaits([g EXCEPT !.username = u], "exists", Nothing, Nothing)
  BY <1>3 DEF RejectAndReviseFields
<1>6. PICK h : h = [g EXCEPT !.username = u]
  OBVIOUS
<1>7. u # Nothing
  BY ConstantsAssumption
<1>8. h \in Handler /\ Sound(h, accounts')
  BY <1>1, <1>4, <1>6, <1>7, SetName DEF Sound
<1>9. CallFits("exists", Nothing, h, accounts') /\ RegularCall("exists", h)
  BY <1>4, <1>6, <1>7, SetName DEF CallFits, RegularCall, AuthCalls
<1>10. walk.call \notin SimpleCalls /\ "exists" \in CallNames
  BY <1>1 DEF SimpleCalls, CallNames
<1>11. Awaits(h, "exists", Nothing, Nothing)
  BY <1>5, <1>6
<1> QED  BY <1>1, <1>2, <1>8, <1>9, <1>10, <1>11, Walking, AwaitsInv

LEMMA SealIdInv ==
  ASSUME Inv, SealId
  PROVE  Inv'
<1>1. walk.call = "sealId" /\ UNCHANGED <<accounts, vault>>
  BY DEF SealId, Answers
<1>2. Kept
  BY <1>1, SameAccounts
<1>3. PICK g : g = H
  OBVIOUS
<1>4. /\ g \in Handler /\ Sound(g, accounts) /\ g.intent = "Authenticate" /\ g.id = "open"
      /\ g.session.user # Nothing /\ accounts[g.session.user] # Nothing
      /\ ~ ui.restarting => g.auth = "session"
  BY <1>1, <1>3, Walking DEF CallFits, AuthCalls, RegularCall
<1>5. PICK h : h = [g EXCEPT !.id = "sealed"]
  OBVIOUS
<1>6. h \in Handler /\ Sound(h, accounts')
  BY <1>1, <1>4, <1>5, SetId DEF Sound, Challenges
<1>7. PICK next : next = IF walk.on[2] = "V1" THEN "createPasswordChallenge" ELSE "createDsChallenge"
  OBVIOUS
<1>8. StepFits(next, h)
  BY <1>4, <1>5, <1>7, SetId DEF StepFits, Sound, Challenges
<1>9. ~ ui.restarting => RegularStep(next, h)
  BY <1>4, <1>5, <1>7, Steps, SetId DEF RegularStep, Asserts, Challenges
<1>10. next \in StepNames /\ Has(walk.on[2], next)
  BY <1>7, Steps, Typed, HasSteps
<1>11. Returns(h, next)
  BY <1>3, <1>5, <1>7 DEF SealId
<1> QED  BY <1>1, <1>2, <1>6, <1>8, <1>9, <1>10, <1>11, Walking, ReturnsInv

LEMMA ChallengeProofInv ==
  ASSUME Inv, ChallengeProof
  PROVE  Inv'
<1>1. walk.call = "challengeProof" /\ UNCHANGED <<accounts, vault>>
  BY DEF ChallengeProof, Answers
<1>2. Kept
  BY <1>1, SameAccounts
<1>3. PICK g : g = H
  OBVIOUS
<1>4. /\ g \in Handler /\ Sound(g, accounts) /\ g.intent = "Authenticate" /\ g.id = "sealed"
      /\ ~ ui.restarting => g.auth = "session"
  BY <1>1, <1>3, Walking DEF CallFits, AuthCalls, RegularCall
<1>5. PICK h : h = [g EXCEPT !.proof = "open"]
  OBVIOUS
<1>6. h \in Handler /\ Sound(h, accounts')
  <2>1. g.proof = "none"
    BY <1>1, <1>3, Walking DEF CallFits
  <2> QED  BY <1>1, <1>4, <1>5, <2>1, SetProof DEF Sound, Challenges
<1>7. PICK next : next = IF walk.on[2] = "V1" THEN "passwordAuth" ELSE "selectKey"
  OBVIOUS
<1>8. StepFits(next, h)
  BY <1>7 DEF StepFits
<1>9. ~ ui.restarting => RegularStep(next, h)
  BY <1>4, <1>5, <1>7, Steps, SetProof DEF RegularStep, Asserts, Challenges
<1>10. next \in StepNames /\ Has(walk.on[2], next)
  BY <1>7, Steps, Typed, HasSteps
<1>11. Returns(h, next)
  BY <1>3, <1>5, <1>7 DEF ChallengeProof
<1> QED  BY <1>1, <1>2, <1>6, <1>8, <1>9, <1>10, <1>11, Walking, ReturnsInv

LEMMA AbortIdInv ==
  ASSUME Inv, AbortId
  PROVE  Inv'
<1>1. walk.call = "abortId" /\ UNCHANGED <<accounts, vault>>
  BY DEF AbortId, Answers
<1>2. Kept
  BY <1>1, SameAccounts
<1>3. PICK g : g = H
  OBVIOUS
<1>4. g \in Handler /\ Sound(g, accounts) /\ g.id = "open" /\ g.intent = "Authenticate"
  BY <1>1, <1>3, Walking DEF CallFits, AuthCalls
<1>5. PICK h : h = [g EXCEPT !.id = "aborted"]
  OBVIOUS
<1>6. h \in Handler /\ Sound(h, accounts')
  BY <1>1, <1>4, <1>5, SetId DEF Sound, Challenges
<1>7. StepFits(walk.step, h)
  BY <1>1, Walking, InFlight DEF SimpleCalls
<1>8. Throws(h)
  BY <1>3, <1>5 DEF AbortId
<1> QED  BY <1>1, <1>2, <1>6, <1>7, <1>8, Walking, ThrowsInv

LEMMA AbortInv ==
  ASSUME Inv, Abort
  PROVE  Inv'
<1>1. walk.call = "abort" /\ H.proof = "open" /\ UNCHANGED <<accounts, vault>>
  BY DEF Abort, Answers
<1>2. Kept
  BY <1>1, SameAccounts
<1>3. PICK g : g = H
  OBVIOUS
<1>4. g \in Handler /\ Sound(g, accounts) /\ g.session.challenge = "failed" /\ g.proof = "open"
  BY <1>1, <1>3, Walking DEF CallFits
<1>5. PICK h : h = [g EXCEPT !.proof = "aborted"]
  OBVIOUS
<1>6. h \in Handler /\ Sound(h, accounts')
  BY <1>1, <1>4, <1>5, SetProof DEF Sound, Challenges
<1>7. StepFits(walk.step, h)
  BY <1>1, Walking, InFlight DEF SimpleCalls
<1>8. Throws(h)
  BY <1>3, <1>5 DEF Abort
<1> QED  BY <1>1, <1>2, <1>6, <1>7, <1>8, Walking, ThrowsInv

LEMMA CloseChannelInv ==
  ASSUME Inv, CloseChannel
  PROVE  Inv'
<1>1. walk.call = "close" /\ UNCHANGED <<accounts, vault>>
  BY DEF CloseChannel, Answers
<1>2. Kept
  BY <1>1, SameAccounts
<1>3. PICK g : g = H
  OBVIOUS
<1>4. g \in Handler /\ Sound(g, accounts)
  BY <1>1, <1>3, Walking
<1>5. PICK h : h = [g EXCEPT !.channel = "closed"]
  OBVIOUS
<1>6. h \in Handler /\ Sound(h, accounts')
  BY <1>1, <1>4, <1>5, SetChannel DEF Sound
<1>7. StepFits(walk.step, h)
  BY <1>1, Walking, InFlight DEF SimpleCalls
<1>8. Finishes(h)
  BY <1>3, <1>5 DEF CloseChannel
<1> QED  BY <1>1, <1>2, <1>6, <1>7, <1>8, Walking, FinishesInv

LEMMA NewSessionInv ==
  ASSUME Inv, NewSession
  PROVE  Inv'
<1>1. walk.call = "newSession" /\ UNCHANGED <<accounts, vault>>
  BY DEF NewSession
<1>2. Kept
  BY <1>1, SameAccounts
<1>3. PICK g : g = H
  OBVIOUS
<1>4. /\ g \in Handler /\ Sound(g, accounts) /\ g.id = "open" /\ g.intent = "Authenticate"
      /\ walk.user # Nothing
  BY <1>1, <1>3, Walking DEF CallFits, AuthCalls
<1>5. walk.call \notin SimpleCalls
  BY <1>1 DEF SimpleCalls
<1>6. CASE accounts[walk.user] = Nothing
  <2>1. CallFits("abortId", Nothing, g, accounts') /\ RegularCall("abortId", g) /\ Sound(g, accounts')
    BY <1>1, <1>4 DEF CallFits, RegularCall, RegisterStages
  <2>2. Awaits(g, "abortId", Nothing, Nothing) /\ "abortId" \in CallNames
    BY <1>3, <1>6 DEF NewSession, CallNames
  <2> QED  BY <1>1, <1>2, <1>4, <1>5, <2>1, <2>2, Walking, AwaitsInv
<1>7. CASE accounts[walk.user] # Nothing
  <2>1. PICK u : u = walk.user
    OBVIOUS
  <2>2. u \in Usernames
    BY <1>4, <2>1, Typed DEF Walk
  <2>3. PICK h : h = WithUser(g, u)
    OBVIOUS
  <2>4. /\ h \in Handler /\ h.intent = g.intent /\ h.username = g.username /\ h.secret = g.secret
        /\ h.id = g.id /\ h.proof = g.proof /\ h.done = g.done /\ h.auth = "session"
        /\ h.session.user = u
    <3>1. /\ h = [channel |-> g.channel, intent |-> g.intent, username |-> g.username,
                  secret |-> g.secret, id |-> g.id, proof |-> g.proof, done |-> g.done,
                  auth |-> "session", session |-> h.session]
          /\ h.session = [user |-> u, finished |-> g.session.finished, challenge |-> g.session.challenge]
          /\ h \in Handler
      BY <1>4, <2>2, <2>3, SetUser, Zenon
    <3> QED  BY <3>1
  <2>5. Sound(h, accounts')
    BY <1>1, <1>4, <2>4 DEF Sound
  <2>6. CallFits("sealId", Nothing, h, accounts') /\ RegularCall("sealId", h)
    BY <1>1, <1>4, <1>7, <2>1, <2>4 DEF CallFits, RegularCall, RegisterStages
  <2>7. Awaits(h, "sealId", Nothing, Nothing) /\ "sealId" \in CallNames
    BY <1>3, <1>7, <2>1, <2>3 DEF NewSession, CallNames, WithUser
  <2> QED  BY <1>1, <1>2, <1>5, <2>4, <2>5, <2>6, <2>7, Walking, AwaitsInv
<1> QED  BY <1>6, <1>7

\* The fields that a new state of the backend's challenge leaves alone.
LEMMA Rejudged ==
  ASSUME NEW g \in Handler, NEW a, Sound(g, a), g.session.challenge \notin {"passed", "failed"},
         NEW o \in Outcomes, NEW h, h = WithOutcome(g, o)
  PROVE  /\ h \in Handler /\ Sound(h, a)
         /\ h.intent = g.intent /\ h.id = g.id /\ h.proof = g.proof
         /\ h.session.challenge = o /\ h.auth = g.auth
<1>1. /\ h \in Handler /\ h.intent = g.intent /\ h.username = g.username /\ h.secret = g.secret
      /\ h.id = g.id /\ h.proof = g.proof /\ h.done = g.done /\ h.auth = g.auth
      /\ h.session.user = g.session.user /\ h.session.finished = g.session.finished
      /\ h.session.challenge = o
  <2>1. /\ h = [channel |-> g.channel, intent |-> g.intent, username |-> g.username,
                secret |-> g.secret, id |-> g.id, proof |-> g.proof, done |-> g.done,
                auth |-> g.auth, session |-> h.session]
        /\ h.session = [user |-> g.session.user, finished |-> g.session.finished, challenge |-> o]
        /\ h \in Handler
    BY SetOutcome
  <2> QED  BY <2>1
<1> QED  BY <1>1 DEF Sound

LEMMA SetAuthSound ==
  ASSUME NEW g \in Handler, NEW a, Sound(g, a), NEW v \in {"none", "session", "challenge"},
         NEW h, h = [g EXCEPT !.auth = v]
  PROVE  /\ h \in Handler /\ Sound(h, a)
         /\ h.intent = g.intent /\ h.id = g.id /\ h.proof = g.proof
         /\ h.session = g.session /\ h.auth = v
<1>1. /\ h \in Handler /\ h.intent = g.intent /\ h.username = g.username /\ h.secret = g.secret
      /\ h.id = g.id /\ h.proof = g.proof /\ h.done = g.done /\ h.auth = v
      /\ h.session = g.session
  BY SetAuth
<1> QED  BY <1>1 DEF Sound

LEMMA NewChallengeInv ==
  ASSUME Inv, NewChallenge
  PROVE  Inv'
<1>1. walk.call = "newChallenge" /\ UNCHANGED <<accounts, vault>> /\ H.session.challenge = "none"
  BY DEF NewChallenge
<1>2. Kept
  BY <1>1, SameAccounts
<1>3. PICK g : g = H
  OBVIOUS
<1>4. /\ g \in Handler /\ Sound(g, accounts) /\ g.intent = "Authenticate" /\ g.proof = "open"
      /\ g.session.challenge = "none"
  BY <1>1, <1>3, Walking DEF CallFits, AuthCalls
<1>5. walk.call \notin SimpleCalls
  BY <1>1 DEF SimpleCalls
<1>6. PICK j : j = WithOutcome(g, "pending")
  OBVIOUS
<1>7. j \in Handler /\ Sound(j, accounts) /\ j.intent = "Authenticate" /\ j.proof = "open"
  BY <1>4, <1>6, Rejudged DEF Outcomes
<1>8. CASE Throws(j)
  <2>1. StepFits(walk.step, j)
    BY <1>1, <1>5, Walking, InFlight
  <2> QED  BY <1>1, <1>2, <1>7, <1>8, <2>1, Walking, ThrowsInv
<1>9. CASE Awaits([j EXCEPT !.auth = "challenge"], "sendSecret", Nothing, walk.secret)
  <2>1. PICK h : h = [j EXCEPT !.auth = "challenge"]
    OBVIOUS
  <2>2. /\ h \in Handler /\ Sound(h, accounts) /\ h.intent = "Authenticate" /\ h.proof = "open"
        /\ h.auth = "challenge"
    BY <1>7, <2>1, SetAuthSound
  <2>3. CallFits("sendSecret", Nothing, h, accounts') /\ RegularCall("sendSecret", h)
    BY <2>2 DEF CallFits, RegularCall, RegisterStages
  <2>4. "sendSecret" \in CallNames /\ walk.secret \in Secrets \union {Nothing}
    BY Typed DEF CallNames, Walk
  <2>5. PICK s \in Secrets \union {Nothing} : s = walk.secret
    BY <2>4
  <2>6. Awaits(h, "sendSecret", Nothing, s)
    BY <1>9, <2>1, <2>5
  <2> QED  BY <1>1, <1>2, <1>5, <2>2, <2>3, <2>4, <2>6, Walking, AwaitsInv
<1> QED  BY <1>3, <1>6, <1>8, <1>9 DEF NewChallenge, WithOutcome

\* A response is judged, and the browser's challenge goes the same way.
LEMMA EndedInv ==
  ASSUME Inv, walk.call \in {"sendSecret", "sendSignature"}, UNCHANGED <<accounts, vault>>,
         H.session.challenge \notin {"passed", "failed"},
         NEW o \in {"passed", "failed"}, NEW c,
         o = "passed" => c = "finishSession", o = "failed" => c = "abort",
         Ended(o, c)
  PROVE  Inv'
<1>1. Kept
  BY SameAccounts
<1>2. PICK g : g = H
  OBVIOUS
<1>3. /\ g \in Handler /\ Sound(g, accounts) /\ g.intent = "Authenticate"
      /\ g.session.challenge \notin {"passed", "failed"}
  BY <1>2, Walking DEF CallFits, AuthCalls
<1>4. walk.call \notin SimpleCalls
  BY DEF SimpleCalls
<1>5. PICK j : j = WithOutcome(g, o)
  OBVIOUS
<1>6. j \in Handler /\ Sound(j, accounts) /\ j.intent = "Authenticate" /\ j.session.challenge = o
  BY <1>3, <1>5, Rejudged DEF Outcomes
<1>7. CASE Throws(j)
  <2>1. StepFits(walk.step, j)
    BY <1>4, Walking, InFlight
  <2> QED  BY <1>1, <1>6, <1>7, <2>1, Walking, ThrowsInv
<1>8. CASE Awaits([j EXCEPT !.auth = "session"], c, Nothing, Nothing)
  <2>1. PICK h : h = [j EXCEPT !.auth = "session"]
    OBVIOUS
  <2>2. /\ h \in Handler /\ Sound(h, accounts) /\ h.intent = "Authenticate"
        /\ h.session.challenge = o
    BY <1>6, <2>1, SetAuthSound
  <2>3. c \in CallNames /\ CallFits(c, Nothing, h, accounts') /\ RegularCall(c, h)
    BY <2>2 DEF CallFits, RegularCall, RegisterStages, CallNames
  <2>4. Awaits(h, c, Nothing, Nothing)
    BY <1>8, <2>1
  <2> QED  BY <1>1, <1>4, <2>2, <2>3, <2>4, Walking, AwaitsInv
<1> QED  BY <1>2, <1>5, <1>7, <1>8 DEF Ended, Judged, WithOutcome

LEMMA SendPasswordInv ==
  ASSUME Inv, SendPassword
  PROVE  Inv'
<1>1. /\ walk.call = "sendSecret" /\ UNCHANGED <<accounts, vault>> /\ H.session.challenge = "pending"
      /\ Ended("passed", "finishSession") \/ Ended("failed", "abort")
  BY DEF SendPassword
<1> QED  BY <1>1, EndedInv

LEMMA SendSignatureInv ==
  ASSUME Inv, SendSignature
  PROVE  Inv'
<1>1. /\ walk.call = "sendSignature" /\ UNCHANGED <<accounts, vault>>
      /\ H.session.challenge = "selected"
      /\ Ended("passed", "finishSession") \/ Ended("failed", "abort")
  BY DEF SendSignature
<1> QED  BY <1>1, EndedInv

LEMMA SendKeyInv ==
  ASSUME Inv, SendKey
  PROVE  Inv'
<1>1. /\ walk.call = "sendSecret" /\ walk.on[2] = "V3" /\ UNCHANGED <<accounts, vault>>
      /\ H.session.challenge = "pending"
  BY DEF SendKey
<1>2. Kept
  BY <1>1, SameAccounts
<1>3. PICK g : g = H
  OBVIOUS
<1>4. /\ g \in Handler /\ Sound(g, accounts) /\ g.intent = "Authenticate" /\ g.proof = "open"
      /\ g.session.challenge = "pending"
      /\ ~ ui.restarting => g.auth = "challenge"
  BY <1>1, <1>3, Walking DEF CallFits, AuthCalls, RegularCall
<1>5. PICK h : h = WithOutcome(g, "selected")
  OBVIOUS
<1>6. /\ h \in Handler /\ Sound(h, accounts') /\ h.intent = "Authenticate" /\ h.proof = "open"
      /\ h.auth = g.auth
  BY <1>1, <1>4, <1>5, Rejudged DEF Outcomes
<1>7. CASE Throws(h)
  <2>1. StepFits(walk.step, h)
    BY <1>1, Walking, InFlight DEF SimpleCalls
  <2> QED  BY <1>1, <1>2, <1>6, <1>7, <2>1, Walking, ThrowsInv
<1>8. CASE Returns(h, "signNonce")
  <2>1. StepFits("signNonce", h)
    BY DEF StepFits
  <2>2. ~ ui.restarting => RegularStep("signNonce", h)
    BY <1>4, <1>6, Steps DEF RegularStep, Asserts
  <2>3. "signNonce" \in StepNames /\ Has(walk.on[2], "signNonce")
    BY <1>1, Steps, HasSteps
  <2> QED  BY <1>1, <1>2, <1>6, <1>8, <2>1, <2>2, <2>3, Walking, ReturnsInv
<1>9. CASE Ended("failed", "abort")
  BY <1>1, <1>9, EndedInv
<1> QED  BY <1>3, <1>5, <1>7, <1>8, <1>9 DEF SendKey, Judged, WithOutcome

LEMMA FinishSessionInv ==
  ASSUME Inv, FinishSession
  PROVE  Inv'
<1>1. /\ walk.call = "finishSession" /\ UNCHANGED <<accounts, vault>>
      /\ H.session.challenge = "passed"
  BY DEF FinishSession
<1>2. Kept
  BY <1>1, SameAccounts
<1>3. PICK g : g = H
  OBVIOUS
<1>4. /\ g \in Handler /\ Sound(g, accounts) /\ g.intent = "Authenticate"
      /\ g.session.challenge = "passed"
  BY <1>1, <1>3, Walking DEF CallFits, AuthCalls
<1>5. PICK h : h = [g EXCEPT !.session.finished = TRUE]
  OBVIOUS
<1>6. /\ h \in Handler /\ h.intent = g.intent /\ h.username = g.username /\ h.secret = g.secret
      /\ h.id = g.id /\ h.proof = g.proof /\ h.done = g.done
      /\ h.session.user = g.session.user /\ h.session.finished
      /\ h.session.challenge = g.session.challenge
  <2>1. /\ h = [channel |-> g.channel, intent |-> g.intent, username |-> g.username,
                secret |-> g.secret, id |-> g.id, proof |-> g.proof, done |-> g.done,
                auth |-> g.auth, session |-> h.session]
        /\ h.session = [user |-> g.session.user, finished |-> TRUE, challenge |-> g.session.challenge]
        /\ h \in Handler
    BY <1>4, <1>5, SetFinished, Zenon
  <2> QED  BY <2>1
<1>7. Sound(h, accounts')
  BY <1>1, <1>4, <1>6 DEF Sound
<1>8. walk.call \notin SimpleCalls
  BY <1>1 DEF SimpleCalls
<1>9. CASE Throws(h)
  <2>1. StepFits(walk.step, h)
    BY <1>1, <1>8, Walking, InFlight
  <2> QED  BY <1>1, <1>2, <1>6, <1>7, <1>9, <2>1, Walking, ThrowsInv
<1>10. CASE Awaits(h, "seal", Nothing, Nothing)
  <2>1. "seal" \in CallNames /\ CallFits("seal", Nothing, h, accounts') /\ RegularCall("seal", h)
    BY <1>4, <1>6 DEF CallFits, RegularCall, RegisterStages, CallNames
  <2> QED  BY <1>1, <1>2, <1>6, <1>7, <1>8, <1>10, <2>1, Walking, AwaitsInv
<1> QED  BY <1>3, <1>5, <1>9, <1>10 DEF FinishSession

-----------------------------------------------------------------------------
(***************************************************************************)
(* The buttons, and everybody else                                         *)
(***************************************************************************)
LEMMA InitInv == Init => Inv
<1> SUFFICES ASSUME Init  PROVE  Inv
  OBVIOUS
<1>1. handler = <<0, "V1">> /\ step = "createChannel"
  BY DEF Init, Labels, StepsOf, V1
<1>2. handler \in Keys
  BY <1>1, ConstantsAssumption DEF Keys, Generations
<1>3. walk \in Walk /\ ~ IsWalking
  BY NotWalkingFits DEF Init, IsWalking
<1>4. handlers \in [Keys -> Handler] /\ \A k \in Keys : handlers[k] = NewHandler
  BY NewFits, Steps DEF Init, Keys
<1>5. TypeOK
  BY <1>2, <1>4 DEF Init, TypeOK, Keys
<1>6. /\ ui \in Ui /\ ui.index \in DOMAIN ui.items
      /\ ~ ui.loading /\ ui.restart = "none"
  BY DEF Init, Ui, Labels
<1>7. Types
  BY <1>1, <1>3, <1>5, <1>6, Steps DEF Types
<1>8. WalkerFits /\ Untouched /\ WalkFits /\ SavedIsRegistered
  BY <1>3, <1>4, <1>6 DEF WalkerFits, Untouched, WalkFits, SavedIsRegistered, Init
<1>9. AllSound
  BY <1>4, NewFits, Steps DEF AllSound
<1>10. StepFits(step, handlers[handler]) /\ RegularStep(step, handlers[handler])
  BY <1>1, <1>2, <1>4, NewFits, Steps
<1>11. Has(handler[2], step)
  BY <1>1, Steps, HasSteps
<1>12. Regular
  BY <1>3, <1>10, <1>11 DEF Regular
<1> QED  BY <1>7, <1>8, <1>9, <1>10, <1>12 DEF Inv

LEMMA ExecuteInv ==
  ASSUME Inv, NEW keep \in BOOLEAN, Execute(keep)
  PROVE  Inv'
<1>1. /\ ~ ui.finished /\ ~ ui.error /\ ~ ui.loading
      /\ UNCHANGED <<handlers, handler, step, accounts, vault>>
  BY DEF Execute
<1>2. ~ IsWalking
  BY <1>1 DEF Inv, WalkerFits
<1>3. Kept
  BY <1>1, SameAccounts
<1>4. PICK u : u = ui
  OBVIOUS
<1>5. PICK s : s = step
  OBVIOUS
<1>6. Begin(u, s, keep)
  BY <1>4, <1>5 DEF Execute
<1>7. u \in Ui /\ u.index \in DOMAIN u.items /\ s \in StepNames
  BY <1>4, <1>5, Typed
<1>8. ~ u.error /\ ~ u.finished /\ (u.restart = "closing" => u.restarting /\ handler[1] < MaxRestarts)
  BY <1>1, <1>4 DEF Inv, WalkerFits
<1>9. \A k \in Keys : (k[1] > handler[1] \/ (k[1] = handler[1] /\ Len(u.items) = 2))
                          => handlers'[k] = NewHandler
  BY <1>1, <1>4 DEF Inv, Untouched
<1>10. StepFits(s, handlers'[handler])
  BY <1>1, <1>2, <1>5 DEF Inv
<1>11. ~ u.restarting => Has(handler[2], s) /\ RegularStep(s, handlers'[handler])
  BY <1>1, <1>4, <1>5 DEF Inv, Regular
<1>12. handlers' \in [Keys -> Handler] /\ \A k \in Keys : Sound(handlers'[k], accounts')
  BY <1>1, Typed DEF Inv, AllSound
<1>13. handler \in Keys /\ handler' = handler /\ step' = s
  BY <1>1, <1>5, Typed
<1> HIDE <1>4, <1>5
<1> QED
  BY <1>3, <1>6, <1>7, <1>8, <1>9, <1>10, <1>11, <1>12, <1>13, BeginInv

LEMMA SelectInv ==
  ASSUME Inv, NEW i \in DOMAIN Labels, Select(i)
  PROVE  Inv'
<1>1. /\ i \in DOMAIN ui.items /\ i # ui.index /\ ui' = [ui EXCEPT !.index = i]
      /\ handler' = <<handler[1], ui.items[i]>>
      /\ step' = IF ui.loading THEN step ELSE StepsOf(ui.items[i])[1]
      /\ UNCHANGED <<handlers, walk, accounts, vault>>
  BY DEF Select, SetHandler
<1>2. ui.items = Labels
  BY <1>1, Typed DEF Ui
<1>3. ui' = [started |-> ui.started, loading |-> ui.loading, finished |-> ui.finished,
             error |-> ui.error, restarting |-> ui.restarting, restart |-> ui.restart,
             items |-> ui.items, index |-> i]
  BY <1>1, Typed, Zenon DEF Ui
<1>4. ui' \in Ui /\ ui'.index \in DOMAIN ui'.items
  BY <1>1, <1>2, <1>3, Typed DEF Ui, Labels
<1>5. PICK l \in {"V1", "V3"} : l = ui.items[i]
  BY <1>1, <1>2 DEF Labels
<1>6. Len(ui.items) = 2
  BY <1>2 DEF Labels
<1>7. handler' = <<handler[1], l>> /\ handler' \in Keys /\ handler'[1] = handler[1] /\ handler'[2] = l
  BY <1>1, <1>5, Typed DEF Keys
<1>8. handlers'[handler'] = NewHandler
  BY <1>1, <1>6, <1>7 DEF Inv, Untouched
<1>9. step' = IF ui.loading THEN step ELSE "createChannel"
  BY <1>1, <1>5, Steps, HasSteps
<1>10. step' \in StepNames
  BY <1>9, Steps, Typed
<1>11. Types'
  BY <1>1, <1>4, <1>7, <1>10, Typed DEF Types, TypeOK, Keys, Inv
<1>12. Untouched' /\ AllSound' /\ SavedIsRegistered' /\ WalkFits'
  BY <1>1, <1>3, <1>7 DEF Inv, Untouched, AllSound, SavedIsRegistered, WalkFits, IsWalking, H
<1>13. WalkerFits'
  BY <1>1, <1>3, <1>6, <1>7 DEF Inv, WalkerFits, IsWalking
<1>14. StepFits(step', handlers'[handler'])
  BY <1>8, <1>10, NewFits
<1>15. Regular'
  <2>1. SUFFICES ASSUME ~ ui'.restarting  PROVE Regular'
    BY DEF Regular
  <2>2. ~ ui.loading /\ ~ IsWalking'
    BY <1>1, <1>3, <1>6, <2>1 DEF Inv, WalkerFits, IsWalking
  <2>3. Has(handler'[2], step') /\ RegularStep(step', handlers'[handler'])
    BY <1>7, <1>8, <1>9, <2>2, Steps, HasSteps, NewFits
  <2> QED  BY <2>2, <2>3 DEF Regular
<1> QED  BY <1>11, <1>12, <1>13, <1>14, <1>15 DEF Inv

\* New handlers, for the page's state u and the handlers as they are by then.
LEMMA RecreateInv ==
  ASSUME Inv, UNCHANGED <<walk, accounts, vault>>, handler[1] < MaxRestarts,
         NEW u \in Ui, u.loading <=> IsWalking, IsWalking => ~ u.error /\ ~ u.finished,
         u.restarting,
         handlers' \in [Keys -> Handler],
         \A k \in Keys : Sound(handlers'[k], accounts),
         \A k \in Keys : k[1] > handler[1] => handlers'[k] = NewHandler,
         IsWalking => CallFits(walk.call, walk.user, handlers'[walk.on], accounts),
         Recreate(u)
  PROVE  Inv'
<1>1. /\ handler' = <<handler[1] + 1, "V1">>
      /\ step' = IF u.loading THEN step ELSE StepsOf("V1")[1]
      /\ ui' = IF u.loading THEN [Fresh(u) EXCEPT !.restart = "rejected"]
               ELSE [Fresh(u) EXCEPT !.started = FALSE, !.restarting = FALSE, !.restart = "none"]
  BY DEF Recreate, SetHandler, Labels
<1>2. handler' \in Keys /\ handler'[1] = handler[1] + 1 /\ handler'[2] = "V1" /\ handler[1] \in Nat
  BY <1>1, ConstantsAssumption, Typed DEF Keys, Generations
<1>3. step' = IF u.loading THEN step ELSE "createChannel"
  BY <1>1, Steps, HasSteps
<1>4. step' \in StepNames
  BY <1>3, Steps, Typed
<1>5. PICK f : f = Fresh(u)
  OBVIOUS
<1>6. f = [started |-> u.started, loading |-> u.loading, finished |-> u.finished,
           error |-> u.error, restarting |-> u.restarting, restart |-> u.restart,
           items |-> Labels, index |-> 1]
  BY <1>5, Zenon DEF Fresh, Ui
<1>7. f \in Ui
  BY <1>6 DEF Ui
<1>8. /\ ui' \in Ui /\ ui'.index \in DOMAIN ui'.items /\ Len(ui'.items) = 2
      /\ ui'.loading = u.loading /\ ui'.error = u.error /\ ui'.finished = u.finished
      /\ ui'.restarting = u.loading /\ ui'.restart # "closing"
  <2>1. CASE u.loading
    <3>1. ui' = [f EXCEPT !.restart = "rejected"]
      BY <1>1, <1>5, <2>1
    <3>2. ui' = [started |-> f.started, loading |-> f.loading, finished |-> f.finished,
                 error |-> f.error, restarting |-> f.restarting, restart |-> "rejected",
                 items |-> f.items, index |-> f.index]
      BY <1>7, <3>1, Zenon DEF Ui
    <3>3. ui' \in Ui
      BY <1>7, <3>2 DEF Ui
    <3>4. ui'.items = Labels /\ ui'.index = 1
      BY <1>6, <3>2
    <3>5. ui'.index \in DOMAIN ui'.items /\ Len(ui'.items) = 2
      BY <3>4 DEF Labels
    <3>6. /\ ui'.loading = u.loading /\ ui'.error = u.error /\ ui'.finished = u.finished
          /\ ui'.restarting = u.loading /\ ui'.restart # "closing"
      BY <1>6, <2>1, <3>2 DEF Ui
    <3> QED  BY <3>3, <3>5, <3>6
  <2>2. CASE ~ u.loading
    <3>1. ui' = [f EXCEPT !.started = FALSE, !.restarting = FALSE, !.restart = "none"]
      BY <1>1, <1>5, <2>2
    <3>2. ui' = [started |-> FALSE, loading |-> f.loading, finished |-> f.finished,
                 error |-> f.error, restarting |-> FALSE, restart |-> "none",
                 items |-> f.items, index |-> f.index]
      BY <1>7, <3>1, Zenon DEF Ui
    <3>3. ui' \in Ui
      BY <1>7, <3>2 DEF Ui
    <3>4. ui'.items = Labels /\ ui'.index = 1
      BY <1>6, <3>2
    <3>5. ui'.index \in DOMAIN ui'.items /\ Len(ui'.items) = 2
      BY <3>4 DEF Labels
    <3>6. /\ ui'.loading = u.loading /\ ui'.error = u.error /\ ui'.finished = u.finished
          /\ ui'.restarting = u.loading /\ ui'.restart # "closing"
      BY <1>6, <2>2, <3>2 DEF Ui
    <3> QED  BY <3>3, <3>5, <3>6
  <2> QED  BY <2>1, <2>2
<1>9. \A k \in Keys : k[1] \in Nat
  BY ConstantsAssumption DEF Keys, Generations
<1>10. \A k \in Keys : k[1] >= handler'[1] => handlers'[k] = NewHandler
  BY <1>2, <1>9
<1>11. Types'
  BY <1>2, <1>4, <1>8, Typed DEF Types, TypeOK, Keys, Inv
<1>12. Untouched' /\ AllSound' /\ SavedIsRegistered'
  BY <1>2, <1>9, <1>10 DEF Inv, Untouched, AllSound, SavedIsRegistered
<1>13. WalkFits'
  BY DEF Inv, WalkFits, IsWalking, H
<1>14. WalkerFits'
  <2>1. IsWalking => walk.on[1] < handler'[1]
    BY <1>2, Typed DEF Inv, WalkerFits
  <2> QED  BY <1>8, <2>1 DEF WalkerFits, IsWalking
<1>15. handlers'[handler'] = NewHandler
  BY <1>2, <1>9, <1>10
<1>16. StepFits(step', handlers'[handler'])
  BY <1>4, <1>15, NewFits
<1>17. Regular'
  <2>1. SUFFICES ASSUME ~ ui'.restarting  PROVE Regular'
    BY DEF Regular
  <2>2. ~ u.loading /\ ~ IsWalking'
    BY <1>8, <2>1 DEF IsWalking
  <2>3. Has(handler'[2], step') /\ RegularStep(step', handlers'[handler'])
    BY <1>2, <1>3, <1>15, <2>2, Steps, HasSteps, NewFits
  <2> QED  BY <2>2, <2>3 DEF Regular
<1> QED  BY <1>11, <1>12, <1>13, <1>14, <1>16, <1>17 DEF Inv

LEMMA RestartInv ==
  ASSUME Inv, Restart
  PROVE  Inv'
<1> PICK u : u = [ui EXCEPT !.restarting = TRUE, !.error = FALSE, !.finished = FALSE,
                            !.loading = FALSE]
  OBVIOUS
<1>1. /\ ui.error \/ ui.finished
      /\ handler[1] < MaxRestarts
      /\ UNCHANGED <<handlers, walk, accounts, vault>>
      /\ \/ ui' = [u EXCEPT !.restart = "closing"] /\ UNCHANGED <<handler, step>>
         \/ Recreate(u)
  BY DEF Restart
<1>2. ~ IsWalking
  BY <1>1 DEF Inv, WalkerFits
<1>3. u = [started |-> ui.started, loading |-> FALSE, finished |-> FALSE,
           error |-> FALSE, restarting |-> TRUE, restart |-> ui.restart,
           items |-> ui.items, index |-> ui.index]
  BY Typed, Zenon DEF Ui
<1>4. u \in Ui
  BY <1>3, Typed DEF Ui
<1>5. CASE Recreate(u)
  <2>1. handlers' \in [Keys -> Handler] /\ \A k \in Keys : Sound(handlers'[k], accounts)
    BY <1>1, Typed DEF Inv, AllSound
  <2>2. \A k \in Keys : k[1] > handler[1] => handlers'[k] = NewHandler
    BY <1>1 DEF Inv, Untouched
  <2>3. u.restarting /\ ~ u.loading
    BY <1>3
  <2> QED  BY <1>1, <1>2, <1>4, <1>5, <2>1, <2>2, <2>3, RecreateInv
<1>6. CASE ui' = [u EXCEPT !.restart = "closing"] /\ UNCHANGED <<handler, step>>
  <2>1. ui' = [started |-> u.started, loading |-> u.loading, finished |-> u.finished,
               error |-> u.error, restarting |-> u.restarting, restart |-> "closing",
               items |-> u.items, index |-> u.index]
    BY <1>4, <1>6, Zenon DEF Ui
  <2>2. /\ ui' \in Ui /\ ui'.index \in DOMAIN ui'.items /\ ui'.restarting /\ ~ ui'.loading
        /\ ui'.items = ui.items
    BY <1>3, <1>4, <2>1, Typed DEF Ui
  <2>3. Types'
    BY <1>1, <1>6, <2>2, Typed DEF Inv, Types, TypeOK
  <2>4. WalkerFits' /\ WalkFits' /\ Regular'
    BY <1>1, <1>2, <1>6, <2>2 DEF WalkerFits, WalkFits, Regular, IsWalking
  <2>5. Untouched' /\ AllSound' /\ SavedIsRegistered'
    BY <1>1, <1>6, <2>2 DEF Inv, Untouched, AllSound, SavedIsRegistered
  <2>6. StepFits(step', handlers'[handler'])
    BY <1>1, <1>2, <1>6 DEF Inv
  <2> QED  BY <2>3, <2>4, <2>5, <2>6 DEF Inv
<1> QED  BY <1>1, <1>5, <1>6

LEMMA RestartResumesInv ==
  ASSUME Inv, RestartResumes
  PROVE  Inv'
<1>1. ui.restart = "closing" /\ ui.restarting /\ handler[1] < MaxRestarts /\ UNCHANGED <<walk, accounts, vault>>
  BY DEF RestartResumes, Inv, WalkerFits
<1>2. CASE handlers' = [handlers EXCEPT ![handler].channel = "closed"] /\ Recreate(ui)
  <2>1. PICK g : g = handlers[handler]
    OBVIOUS
  <2>2. g \in Handler /\ Sound(g, accounts)
    BY <2>1, Typed DEF Inv, AllSound
  <2>3. PICK h : h = [g EXCEPT !.channel = "closed"]
    OBVIOUS
  <2>4. handlers' = [handlers EXCEPT ![handler] = h]
    BY <1>2, <2>1, <2>3
  <2>5. /\ h \in Handler /\ Sound(h, accounts)
        /\ \A c, v : CallFits(c, v, g, accounts) => CallFits(c, v, h, accounts)
    <3>1. /\ h \in Handler /\ h.intent = g.intent /\ h.username = g.username /\ h.secret = g.secret
          /\ h.id = g.id /\ h.proof = g.proof /\ h.done = g.done /\ h.session = g.session
      BY <2>2, <2>3, SetChannel
    <3> QED  BY <2>2, <3>1 DEF Sound, CallFits
  <2>6. \A k \in Keys : handlers'[k] = IF k = handler THEN h ELSE handlers[k]
    BY <2>4, Typed
  <2>7. handlers' \in [Keys -> Handler]
    BY <2>4, <2>5, Typed
  <2>8. \A k \in Keys : Sound(handlers'[k], accounts)
    BY <2>5, <2>6 DEF Inv, AllSound
  <2>9. \A k \in Keys : k[1] > handler[1] => handlers'[k] = NewHandler
    BY <2>6, Typed DEF Inv, Untouched
  <2>10. IsWalking => CallFits(walk.call, walk.user, handlers'[walk.on], accounts)
    BY <2>1, <2>5, <2>6, Typed DEF Inv, WalkFits, H
  <2>11. PICK u \in Ui : u = ui
    BY Typed
  <2>12. (u.loading <=> IsWalking) /\ (IsWalking => ~ u.error /\ ~ u.finished) /\ u.restarting
    BY <1>1, <2>11 DEF Inv, WalkerFits
  <2>13. Recreate(u)
    BY <1>2, <2>11
  <2> QED  BY <1>1, <2>7, <2>8, <2>9, <2>10, <2>12, <2>13, RecreateInv
<1>3. CASE ui' = [ui EXCEPT !.restart = "rejected"] /\ UNCHANGED <<handlers, handler, step>>
  <2>1. ui' = [started |-> ui.started, loading |-> ui.loading, finished |-> ui.finished,
               error |-> ui.error, restarting |-> ui.restarting, restart |-> "rejected",
               items |-> ui.items, index |-> ui.index]
    BY <1>3, Typed, Zenon DEF Ui
  <2>2. ui' \in Ui /\ ui'.index \in DOMAIN ui'.items
    BY <2>1, Typed DEF Ui
  <2>3. Types'
    BY <1>1, <1>3, <2>2 DEF Inv, Types, TypeOK
  <2>4. WalkerFits' /\ WalkFits'
    BY <1>1, <1>3, <2>1 DEF Inv, WalkerFits, WalkFits, IsWalking, H
  <2>5. Untouched' /\ AllSound' /\ SavedIsRegistered'
    BY <1>1, <1>3, <2>1 DEF Inv, Untouched, AllSound, SavedIsRegistered
  <2>6. Regular'
    BY <1>1, <2>1 DEF Regular
  <2>7. ~ IsWalking' => StepFits(step', handlers'[handler'])
    BY <1>1, <1>3 DEF Inv, IsWalking
  <2> QED  BY <2>3, <2>4, <2>5, <2>6, <2>7 DEF Inv
<1> QED  BY <1>2, <1>3 DEF RestartResumes

LEMMA RegisterInv ==
  ASSUME Inv, NEW u \in Usernames, NEW s \in Secrets, Register(u, s)
  PROVE  Inv'
<1>1. /\ accounts[u] = Nothing /\ accounts' = [accounts EXCEPT ![u] = s]
      /\ UNCHANGED <<ui, handler, step, handlers, walk, vault>>
  BY DEF Register
<1>2. Kept
  BY <1>1, NewAccount
<1>3. Types'
  BY <1>1, <1>2 DEF Inv, Types, TypeOK, Kept
<1>4. WalkerFits' /\ Untouched' /\ Regular' /\ SavedIsRegistered'
  BY <1>1, <1>2 DEF Inv, WalkerFits, Untouched, Regular, IsWalking, Kept, H
<1>5. AllSound'
  <2> SUFFICES ASSUME NEW k \in Keys  PROVE  Sound(handlers[k], accounts')
    BY <1>1 DEF AllSound
  <2>1. handlers[k] \in Handler /\ Sound(handlers[k], accounts) /\ Grow(accounts, accounts')
    BY <1>2, Typed DEF Inv, AllSound, Kept
  <2> QED  BY <2>1, StillSound
<1>6. WalkFits'
  <2>1. CASE walk.call # "none"
    <3>1. H \in Handler /\ Sound(H, accounts) /\ CallFits(walk.call, walk.user, H, accounts)
      BY <2>1, Walking
    <3>2. CallFits(walk.call, walk.user, H, accounts')
      BY <1>2, <3>1, StillFits DEF Kept
    <3> QED  BY <1>1, <3>2 DEF Inv, WalkFits, IsWalking, H
  <2> QED  BY <1>1, <2>1 DEF WalkFits, IsWalking
<1>7. ~ IsWalking' => StepFits(step', handlers'[handler'])
  BY <1>1 DEF Inv, IsWalking
<1> QED  BY <1>3, <1>4, <1>5, <1>6, <1>7 DEF Inv

LEMMA StutterInv ==
  ASSUME Inv, UNCHANGED vars
  PROVE  Inv'
<1>1. UNCHANGED <<ui, handler, step, handlers, walk, accounts, vault>>
  BY DEF vars
<1> QED
  BY <1>1 DEF Inv, Types, TypeOK, WalkerFits, Untouched, AllSound, WalkFits, Regular,
              SavedIsRegistered, IsWalking, H

LEMMA AnswerInv ==
  ASSUME Inv, Answer
  PROVE  Inv'
<1>1. ASSUME Browser  PROVE  Inv'
  BY <1>1, CreateChannelInv, LogInInv, AddFieldsInv, RejectAndReviseFieldsInv, SetMetadataInv,
     SetStatusInv, SaveOperationInv, TransitionToAuthInv, ChallengeIdInv, GetIdentityFieldsInv,
     SealIdInv, AbortIdInv, ChallengeProofInv, GetSecretInv, SignNonceInv, SealInv, AbortInv,
     FinishLoginInv, CloseChannelInv
  DEF Browser
<1>2. ASSUME Backend  PROVE  Inv'
  BY <1>2, AccountExistsInv, CreateAccountInv, NewSessionInv, NewChallengeInv, SendPasswordInv,
     SendKeyInv, PendingMessageInv, SendSignatureInv, FinishSessionInv
  DEF Backend
<1> QED  BY <1>1, <1>2, RefusedInv DEF Answer

LEMMA NextInv ==
  ASSUME Inv, [Next]_vars
  PROVE  Inv'
<1> QED
  BY ExecuteInv, SelectInv, RestartInv, RestartResumesInv, AnswerInv, RegisterInv, StutterInv
  DEF Next

LEMMA InvImplies == Inv => LoginInv
<1> SUFFICES ASSUME Inv  PROVE  LoginInv
  OBVIOUS
<1>1. SealedIsProved
  <2> SUFFICES ASSUME NEW h \in Keys
               PROVE  LET s == handlers[h].session
                      IN  /\ handlers[h].proof = "sealed" => s.finished /\ s.challenge = "passed"
                          /\ handlers[h].proof = "aborted" => s.challenge = "failed"
                          /\ handlers[h].done => handlers[h].proof = "sealed" /\ handlers[h].id = "sealed"
                          /\ handlers[h].id = "sealed" => accounts[s.user] # Nothing
    BY Typed DEF SealedIsProved
  <2>1. Sound(handlers[h], accounts)
    BY DEF Inv, AllSound
  <2> QED  BY <2>1 DEF Sound
<1>2. StepsFit
  <2> SUFFICES ASSUME ~ ui.restarting
               PROVE  /\ Has(handler[2], step)
                      /\ IsWalking => walk.on = handler /\ walk.step = step
                      /\ ~ (ui.loading \/ ui.error \/ ui.finished) => Asserts(handlers[handler], step)
                      /\ walk.call = "getSecret" => handlers[handler].auth = "session"
    BY DEF StepsFit, IsWalking
  <2>1. IsWalking => walk.on = handler /\ walk.step = step
    BY DEF Inv, WalkerFits
  <2>2. walk.call = "getSecret" => handlers[handler].auth = "session"
    BY <2>1 DEF Inv, Regular, RegularCall, IsWalking, H
  <2> QED  BY <2>1, <2>2 DEF Inv, Regular, RegularStep
<1> QED  BY <1>1, <1>2 DEF Inv, Types, LoginInv

\* The page keeps to its rules, whatever the user does to it and whichever calls
\* are refused or lost: what the secret manager has saved is registered with
\* the same secret; a challenge is sealed only after the backend has accepted
\* the answers and finished the session, and aborted only after it has refused
\* one; and unless the user restarts, the step that Execute runs is one the
\* handler has and whose assertions hold.
THEOREM LoginsStaySound == Spec => []LoginInv
<1>1. Init => Inv
  BY InitInv
<1>2. Inv /\ [Next]_vars => Inv'
  BY NextInv
<1>3. Inv => LoginInv
  BY InvImplies
<1> QED  BY <1>1, <1>2, <1>3, PTL DEF Spec
=============================================================================
