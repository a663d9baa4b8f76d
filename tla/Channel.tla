------------------------------ MODULE Channel ------------------------------
(***************************************************************************)
(* Channels between web applications and the secret manager: how one is    *)
(* created and closed, and the key agreement that turns on its end to end  *)
(* encryption (dom/berytus/BerytusChannel.cpp with its actors, key         *)
(* agreement parameters and certificate, and the signing key and channel   *)
(* handlers of secretstar/src/workers/main.ts).                            *)
(*                                                                         *)
(* The manager is asked one request at a time, whichever channel sends it; *)
(* another one sent meanwhile is refused (RequestHandler).  Its answer     *)
(* travels back to the page, and the manager may be asked again before it  *)
(* arrives: what a channel remembers changes when the answer does.         *)
(***************************************************************************)
EXTENDS Certificate, CanonicalJSON, FiniteSets

CONSTANTS
    Windows,        \* inner windows
    Channels,       \* the channels that may be created
    Window,         \* the window of each
    WebApp,         \* and its actor
    Keys,           \* Ed25519 keys of web applications
    Anonymous,      \* the actor of a web application that has none
    Document,       \* per window, the URL of its document
    Allowlist,      \* per window, the list in its certificate
    Negotiating,    \* the channels whose pages go into key agreement
    DebugBuild,     \* whether the build evaluates the argument of MOZ_ASSERT
    Unwritten,      \* the values an unwritten boolean is read as
    PageKeys,       \* X25519 keys of pages, or what they pass as one
    Spki,           \* the characters of the keys of web applications and pages
    MaxKeys,        \* bound: X25519 keys the manager generates for a channel
    MaxReplies,     \* bound: answers on their way to a channel
    NoParams,       \* no key agreement parameters
    NoCall          \* the manager serves no request

Nobody == "nobody"

ASSUME ChannelAssumption ==
    /\ Anonymous \notin Keys /\ Nobody \notin Channels
    /\ Window \in [Channels -> Windows] /\ WebApp \in [Channels -> Keys \union {Anonymous}]
    /\ Negotiating \subseteq Channels
    /\ Spki \in [Keys \union PageKeys -> Seq(Characters)]
    /\ DebugBuild \in BOOLEAN /\ Unwritten \subseteq BOOLEAN
    /\ MaxKeys \in Nat \ {0} /\ MaxReplies \in Nat
    /\ \A w \in Windows :
        /\ IsSequence(Allowlist[w])
        /\ \A n \in DOMAIN Allowlist[w] :
            IsSequence(Allowlist[w][n].host) /\ IsSequence(Allowlist[w][n].path)
        /\ IsSequence(Document[w].host) /\ IsSequence(Document[w].path)

Actors == Keys \union {Anonymous}

\* What the signatures are over: the parties, their keys, and the session.
Params == [session : Channels, webApp : Keys, webAppX25519 : PageKeys,
           scmX25519 : 1 .. MaxKeys]

\* The keys of the manager, which are base64.
ScmEd25519 == <<"letter", "slash">>
ScmX25519(n) == [i \in 1 .. n |-> "letter"]

Content(p) ==
    [session |-> Session(p.session), derivation |-> Derivation(p.session),
     generation |-> Generation,
     authentication |-> Authentication(Spki[p.webApp], ScmEd25519),
     exchange |-> Exchange(Spki[p.webAppX25519], ScmX25519(p.scmX25519))]

\* The texts of some parameters, which remember what they are the texts of.
Texts(p) == [of : {p}, json : {ToCanonicalJSON(Content(p), stale) : stale \in Stale}]

\* Some text, or none.
AnyText == {NoParams} \union UNION {Texts(p) : p \in Params}

Methods == {"getSigningKey", "createChannel", "closeChannel", "generateX25519Key",
            "verifySignedKeyExchangeParameters", "signKeyExchangeParameters",
            "enableEndToEndEncryption"}

Request == [channel : Channels, method : Methods, text : AnyText,
            key : PageKeys \union {Nobody}, valid : BOOLEAN]

Reply == [method : Methods, ok : BOOLEAN, text : AnyText,
          key : PageKeys \union {Nobody}, scmKey : 0 .. MaxKeys]

ASSUME NoCallAssumption == NoCall \notin Request

VARIABLES
    registered,     \* mRegisteredWindows, with the channel each entry is for
    stray,          \* windows whose entry was removed for another channel
    hung,           \* windows whose process never leaves CompareParts
    phase,          \* how far a channel is
    params,         \* its mKeyAgreementParams
    signature,      \* what the page knows the manager to have signed
    encrypts,       \* whether the page was told that encryption is enabled
    call,           \* the request the manager is serving
    replies,        \* answers on their way, per channel
    stored,         \* the manager's record of a channel: its actor, or Nobody
    x25519,         \* and how many X25519 keys it generated
    agreed,         \* and the parameters it verified
    signed,         \* whether it signed them
    e2ee            \* whether it encrypts

registry == <<registered, stray, hung>>
page == <<phase, params, signature, encrypts>>
wire == <<call, replies>>
manager == <<stored, x25519, agreed, signed, e2ee>>
vars == <<registry, page, wire, manager>>

Creating == {"selecting", "signing key", "storing"}
Gone == {"failed", "collected"}

Phases == {"none", "active", "closed"} \union Creating \union Gone

TypeOK ==
    /\ registered \in [Windows -> Channels \union {Nobody}]
    /\ stray \subseteq Windows /\ hung \subseteq Windows
    /\ phase \in [Channels -> Phases]
    /\ params \in [Channels -> Params \union {NoParams}]
    /\ signature \in [Channels -> AnyText]
    /\ encrypts \in [Channels -> BOOLEAN]
    /\ call \in Request \union {NoCall}
    /\ replies \in [Channels -> Seq(Reply)]
    /\ stored \in [Channels -> Actors \union {Nobody}]
    /\ x25519 \in [Channels -> 0 .. MaxKeys]
    /\ agreed \in [Channels -> AnyText]
    /\ signed \in [Channels -> BOOLEAN] /\ e2ee \in [Channels -> BOOLEAN]

Init ==
    /\ registered = [w \in Windows |-> Nobody]
    /\ stray = {} /\ hung = {}
    /\ phase = [c \in Channels |-> "none"]
    /\ params = [c \in Channels |-> NoParams]
    /\ signature = [c \in Channels |-> NoParams]
    /\ encrypts = [c \in Channels |-> FALSE]
    /\ call = NoCall
    /\ replies = [c \in Channels |-> <<>>]
    /\ stored = [c \in Channels |-> Nobody]
    /\ x25519 = [c \in Channels |-> 0]
    /\ agreed = [c \in Channels |-> NoParams]
    /\ signed = [c \in Channels |-> FALSE]
    /\ e2ee = [c \in Channels |-> FALSE]

-----------------------------------------------------------------------------
(* The registry of windows                                                 *)
\* RegisterInWindow, as CreateGuard calls it: inside MOZ_ASSERT.
RegisterInWindow(c) ==
    /\ registered' = IF DebugBuild THEN [registered EXCEPT ![Window[c]] = c] ELSE registered
    /\ UNCHANGED stray

CanRegisterInWindow(w) == registered[w] = Nobody

\* The entry is removed whichever channel it is for.
UnregisterInWindow(c) ==
    /\ registered' = [registered EXCEPT ![Window[c]] = Nobody]
    /\ stray' = IF registered[Window[c]] \in {c, Nobody} THEN stray
                ELSE stray \union {Window[c]}

(* Requests                                                                *)
Plainly(c, m) == [channel |-> c, method |-> m, text |-> NoParams, key |-> Nobody,
                valid |-> TRUE]
Send(request) == call = NoCall /\ call' = request

Message(m, ok) == [method |-> m, ok |-> ok, text |-> NoParams, key |-> Nobody,
                   scmKey |-> 0]

Serving(c, m) == call # NoCall /\ call.channel = c /\ call.method = m

\* The manager is free again; the answer is on its way.
Answer(c, reply) ==
    /\ Len(replies[c]) < MaxReplies
    /\ call' = NoCall
    /\ replies' = [replies EXCEPT ![c] = Append(@, reply)]

\* A rejection that changes nothing on the page's side.
Refuse == call' = NoCall /\ UNCHANGED replies

Arrives(c, m, ok) ==
    /\ Window[c] \notin hung
    /\ replies[c] # <<>>
    /\ Head(replies[c]).method = m /\ Head(replies[c]).ok = ok

Consume(c) == replies' = [replies EXCEPT ![c] = Tail(@)]

-----------------------------------------------------------------------------
(* Creation                                                                *)
\* What the certificate of its window says of a channel.
Verdict ==
    [c \in Channels |-> [stuck \in BOOLEAN |->
        IF WebApp[c] = Anonymous THEN "yes"
        ELSE IsAllowed(Allowlist[Window[c]], WebApp[c], Document[Window[c]], stuck)]]

\* CreateGuard and CreateInner, up to the prompt.
Create(c) ==
    /\ phase[c] = "none"
    /\ Window[c] \notin hung
    /\ CanRegisterInWindow(Window[c])
    /\ \E stuck \in Unwritten :
        LET allowed == Verdict[c][stuck]
        IN  \/ /\ allowed = "yes"
               /\ RegisterInWindow(c)
               /\ phase' = [phase EXCEPT ![c] = "selecting"]
               /\ UNCHANGED hung
            \/ /\ allowed \in {"no", "error"}
               /\ phase' = [phase EXCEPT ![c] = "failed"]
               /\ UNCHANGED registry
            \/ /\ allowed = "hangs"
               /\ RegisterInWindow(c)
               /\ hung' = hung \union {Window[c]}
               /\ UNCHANGED phase
    /\ UNCHANGED <<params, signature, encrypts, wire, manager>>

\* The rejection of the promise CreateGuard returned.
Fail(c) ==
    /\ phase' = [phase EXCEPT ![c] = "failed"]
    /\ UnregisterInWindow(c)

\* Mutant of Continue: nobody hears that the next request was refused.
ContinueIfFree(c, next, request) ==
    /\ UNCHANGED <<registered, stray>>
    /\ \/ Send(request) /\ phase' = [phase EXCEPT ![c] = next]
       \/ call # NoCall /\ UNCHANGED <<phase, call>>

\* The next request of a creation: sent, or the creation has failed.
Continue(c, next, request) ==
    \/ /\ Send(request)
       /\ phase' = [phase EXCEPT ![c] = next]
       /\ UNCHANGED <<registered, stray>>
    \/ call # NoCall /\ Fail(c) /\ UNCHANGED call

\* The user picked the manager: CreateForScm.
Select(c) ==
    /\ phase[c] = "selecting"
    /\ Window[c] \notin hung
    /\ Continue(c, "signing key", Plainly(c, "getSigningKey"))
    /\ UNCHANGED <<hung, params, signature, encrypts, replies, manager>>

\* The user closed the prompt.
Cancel(c) ==
    /\ phase[c] = "selecting"
    /\ Window[c] \notin hung
    /\ Fail(c)
    /\ UNCHANGED <<hung, params, signature, encrypts, wire, manager>>

SigningKeyArrives(c) ==
    /\ Arrives(c, "getSigningKey", TRUE)
    /\ Consume(c)
    /\ Continue(c, "storing", Plainly(c, "createChannel"))
    /\ UNCHANGED <<hung, params, signature, encrypts, manager>>

\* The constructor, and the promise of the page.
Created(c) ==
    /\ Arrives(c, "createChannel", TRUE)
    /\ Consume(c)
    /\ phase' = [phase EXCEPT ![c] = "active"]
    /\ UNCHANGED <<registry, params, signature, encrypts, call, manager>>

(* Closing                                                                 *)
Active(c) == phase[c] = "active" /\ Window[c] \notin hung

Close(c) ==
    /\ Active(c)
    /\ Send(Plainly(c, "closeChannel"))
    /\ UNCHANGED <<registry, page, replies, manager>>

\* Mutant: the entry of the window stays.
ClosedWithoutUnregistering(c) ==
    /\ Arrives(c, "closeChannel", TRUE)
    /\ Consume(c)
    /\ phase' = [phase EXCEPT ![c] = "closed"]
    /\ UNCHANGED <<registry, params, signature, encrypts, call, manager>>

\* A second Close may have been sent before the answer to the first arrived.
Closed(c) ==
    /\ Arrives(c, "closeChannel", TRUE)
    /\ Consume(c)
    /\ phase' = [phase EXCEPT ![c] = "closed"]
    /\ UnregisterInWindow(c)
    /\ UNCHANGED <<hung, params, signature, encrypts, call, manager>>

Outstanding(c) == replies[c] # <<>> \/ (call # NoCall /\ call.channel = c)

\* ~BerytusChannel: the page holds the channel no more, whatever its state.
Collect(c) ==
    /\ phase[c] \in {"active", "closed"}
    /\ Window[c] \notin hung
    /\ ~ Outstanding(c)
    /\ phase' = [phase EXCEPT ![c] = "collected"]
    /\ UnregisterInWindow(c)
    /\ UNCHANGED <<hung, params, signature, encrypts, wire, manager>>

-----------------------------------------------------------------------------
(* Key agreement                                                           *)
PrepareKeyAgreementParameters(c, key) ==
    /\ Active(c)
    /\ params[c] = NoParams
    /\ Send([Plainly(c, "generateX25519Key") EXCEPT !.key = key])
    /\ UNCHANGED <<registry, page, replies, manager>>

\* BerytusKeyAgreementParameters::Create refuses an anonymous web application.
NewParams(c, reply) ==
    IF WebApp[c] = Anonymous THEN NoParams
    ELSE [session |-> c, webApp |-> WebApp[c], webAppX25519 |-> reply.key,
          scmX25519 |-> reply.scmKey]

Prepared(c) ==
    /\ Arrives(c, "generateX25519Key", TRUE)
    /\ Consume(c)
    /\ params' = [params EXCEPT ![c] = NewParams(c, Head(replies[c]))]
    /\ UNCHANGED <<registry, phase, signature, encrypts, call, manager>>

\* The JSON of both requests is that of the moment of the call.
ExchangeKeyAgreementSignatures(c, valid) ==
    /\ Active(c)
    /\ params[c] # NoParams
    /\ \E text \in Texts(params[c]) :
        Send([Plainly(c, "verifySignedKeyExchangeParameters") EXCEPT !.text = text,
                                                                   !.valid = valid])
    /\ UNCHANGED <<registry, page, replies, manager>>

\* The manager verified the page's signature.  It is asked for its own at once,
\* unless somebody else's request is being served or the channel was closed.
Verified(c) ==
    /\ Arrives(c, "verifySignedKeyExchangeParameters", TRUE)
    /\ Consume(c)
    /\ IF call = NoCall /\ phase[c] # "closed"
       THEN call' = [Plainly(c, "signKeyExchangeParameters") EXCEPT
                        !.text = Head(replies[c]).text]
       ELSE UNCHANGED call
    /\ UNCHANGED <<registry, page, manager>>

Signed(c) ==
    /\ Arrives(c, "signKeyExchangeParameters", TRUE)
    /\ Consume(c)
    /\ signature' = [signature EXCEPT ![c] = Head(replies[c]).text]
    /\ UNCHANGED <<registry, phase, params, encrypts, call, manager>>

EnableEndToEndEncryption(c) ==
    /\ Active(c)
    /\ Send(Plainly(c, "enableEndToEndEncryption"))
    /\ UNCHANGED <<registry, page, replies, manager>>

Enabled(c) ==
    /\ Arrives(c, "enableEndToEndEncryption", TRUE)
    /\ Consume(c)
    /\ encrypts' = [encrypts EXCEPT ![c] = TRUE]
    /\ UNCHANGED <<registry, phase, params, signature, call, manager>>

-----------------------------------------------------------------------------
(* The manager's handlers                                                  *)
GetSigningKey(c) ==
    /\ Serving(c, "getSigningKey")
    /\ Answer(c, Message("getSigningKey", TRUE))
    /\ UNCHANGED <<registry, page, manager>>

CreateChannel(c) ==
    /\ Serving(c, "createChannel")
    /\ stored' = [stored EXCEPT ![c] = WebApp[c]]
    /\ Answer(c, Message("createChannel", TRUE))
    /\ UNCHANGED <<registry, page, x25519, agreed, signed, e2ee>>

CloseChannel(c) ==
    /\ Serving(c, "closeChannel")
    /\ Answer(c, Message("closeChannel", TRUE))
    /\ UNCHANGED <<registry, page, manager>>

MayGenerate(c) == stored[c] # Nobody /\ x25519[c] = 0

GenerateX25519Key(c) ==
    /\ Serving(c, "generateX25519Key")
    /\ \/ /\ MayGenerate(c)
          /\ x25519' = [x25519 EXCEPT ![c] = @ + 1]
          /\ Answer(c, [Message("generateX25519Key", TRUE) EXCEPT !.key = call.key,
                                                                 !.scmKey = x25519[c] + 1])
       \/ ~ MayGenerate(c) /\ Refuse /\ UNCHANGED x25519
    /\ UNCHANGED <<registry, page, stored, agreed, signed, e2ee>>

\* Everything verifySignedKeyExchangeParameters tests before the signature.
Acceptable(c, json) ==
    /\ stored[c] \in Keys
    /\ x25519[c] # 0
    /\ agreed[c] = NoParams
    /\ IsWellFormed(json)
    /\ Parse(json).authentication = [scm |-> ScmEd25519, webApp |-> Spki[stored[c]]]
    /\ Parse(json).exchange.scm = ScmX25519(x25519[c])
    /\ IsBase64(Parse(json).authentication.webApp)

VerifySignedKeyExchangeParameters(c) ==
    /\ Serving(c, "verifySignedKeyExchangeParameters")
    /\ \/ /\ Acceptable(c, call.text.json) /\ call.valid
          /\ agreed' = [agreed EXCEPT ![c] = call.text]
          /\ signed' = [signed EXCEPT ![c] = FALSE]
          /\ Answer(c, [Message("verifySignedKeyExchangeParameters", TRUE)
                            EXCEPT !.text = call.text])
       \/ ~ (Acceptable(c, call.text.json) /\ call.valid) /\ Refuse /\ UNCHANGED <<agreed, signed>>
    /\ UNCHANGED <<registry, page, stored, x25519, e2ee>>

MaySign(c, json) ==
    /\ x25519[c] # 0 /\ agreed[c] # NoParams /\ ~ signed[c]
    /\ agreed[c].json = json

SignKeyExchangeParameters(c) ==
    /\ Serving(c, "signKeyExchangeParameters")
    /\ \/ /\ MaySign(c, call.text.json)
          /\ signed' = [signed EXCEPT ![c] = TRUE]
          /\ Answer(c, [Message("signKeyExchangeParameters", TRUE) EXCEPT !.text = call.text])
       \/ ~ MaySign(c, call.text.json) /\ Refuse /\ UNCHANGED signed
    /\ UNCHANGED <<registry, page, stored, x25519, agreed, e2ee>>

\* Mutant: the manager's own signature is not asked for.
IsChannelE2EReadyUnsigned(c) == x25519[c] # 0 /\ agreed[c] # NoParams

IsChannelE2EReady(c) ==
    x25519[c] # 0 /\ stored[c] \in Keys /\ agreed[c] # NoParams /\ signed[c]

\* The page's key is only decoded here.
MayEnable(c) == IsChannelE2EReady(c) /\ IsBase64(Parse(agreed[c].json).exchange.webApp)

HandleEnableEndToEndEncryption(c) ==
    /\ Serving(c, "enableEndToEndEncryption")
    /\ \/ /\ MayEnable(c)
          /\ e2ee' = [e2ee EXCEPT ![c] = TRUE]
          /\ Answer(c, Message("enableEndToEndEncryption", TRUE))
       \/ ~ MayEnable(c) /\ Refuse /\ UNCHANGED e2ee
    /\ UNCHANGED <<registry, page, stored, x25519, agreed, signed>>

Handle(c) ==
    \/ GetSigningKey(c) \/ CreateChannel(c) \/ CloseChannel(c)
    \/ GenerateX25519Key(c) \/ VerifySignedKeyExchangeParameters(c)
    \/ SignKeyExchangeParameters(c) \/ HandleEnableEndToEndEncryption(c)

Hear(c) ==
    \/ SigningKeyArrives(c) \/ Created(c) \/ Closed(c) \/ Prepared(c)
    \/ Verified(c) \/ Signed(c) \/ Enabled(c)

Next ==
    \E c \in Channels :
        \/ Create(c) \/ Select(c) \/ Cancel(c) \/ Close(c) \/ Collect(c)
        \/ /\ c \in Negotiating
           /\ \/ \E key \in PageKeys : PrepareKeyAgreementParameters(c, key)
              \/ \E valid \in BOOLEAN : ExchangeKeyAgreementSignatures(c, valid)
              \/ EnableEndToEndEncryption(c)
        \/ Handle(c) \/ Hear(c)

Spec == Init /\ [][Next]_vars

-----------------------------------------------------------------------------
(* Properties                                                              *)

\* At most one channel of a window is active or being created
\* (BerytusChannel.cpp:52).  In a build that evaluates its assertions this only
\* fails after an entry was
\* removed for another channel: by a closed one that was collected late, or
\* by the answer to a second close.
OneChannelUnlessStray ==
    DebugBuild =>
    \A c, d \in Channels :
        /\ phase[c] \in Creating \union {"active"} /\ phase[d] \in Creating \union {"active"}
        /\ Window[c] = Window[d]
        => c = d \/ Window[c] \in stray

\* A window is never kept by a channel that could not be created, was closed or
\* is gone: the page can always create another one.
WindowsAreReleased ==
    \A w \in Windows :
        registered[w] # Nobody /\ w \notin hung =>
            /\ Window[registered[w]] = w
            /\ phase[registered[w]] \in Creating \union {"active"}

\* The windows' registrations are sound, and everything has its type.
ChannelInv == TypeOK /\ OneChannelUnlessStray /\ WindowsAreReleased

\* A web application uses a signing key only in documents that the certificate
\* lists for it, read as wildcards are meant (the comments of CompareParts).
Listed ==
    {c \in Channels : \E n \in DOMAIN Allowlist[Window[c]] :
        Permits(Allowlist[Window[c]][n], WebApp[c], Document[Window[c]])}

KeysAreAllowed ==
    \A c \in Channels :
        phase[c] \notin {"none", "failed"} => WebApp[c] = Anonymous \/ c \in Listed

\* What the manager verified, and what it signed for the page, is a text of the
\* parameters the page holds, for as long as either holds them.
PartiesAgree ==
    \A c \in Channels :
        /\ agreed[c] # NoParams => agreed[c].of = params[c]
        /\ signature[c] # NoParams => signature[c] = agreed[c] /\ signed[c]

\* The manager reads the parameters out of a text it accepts as they are.
TextsAreRead ==
    \A p \in Params : \A text \in Texts(p) :
        /\ IsWellFormed(text.json)
        /\ IsBase64(Parse(text.json).authentication.webApp)
        /\ IsBase64(Parse(text.json).exchange.webApp)
        => Parse(text.json) = Means(Content(p))

\* A side encrypts only when both have signed the same parameters, which the
\* manager understands as the page does whatever the page passed for its key,
\* and the page only when the manager does; all along, what the two hold of the
\* parameters agrees.
EncryptionIsAgreed ==
    /\ PartiesAgree
    /\ \A c \in Channels :
            /\ e2ee[c] => /\ signed[c] /\ agreed[c] # NoParams /\ params[c] # NoParams
                          /\ Parse(agreed[c].json) = Means(Content(params[c]))
            /\ encrypts[c] => e2ee[c]

\* The user decides, the manager answers what it serves and the page hears it.
FairSpec ==
    /\ Spec
    /\ WF_vars(\E c \in Channels : Handle(c))
    /\ WF_vars(\E c \in Channels : Select(c) \/ Cancel(c))
    /\ \A c \in Channels : WF_vars(Hear(c))

\* Every creation ends, with a channel or with a window free for the next one,
\* unless the window's process hangs: time and again none is under way.
CreationsEnd ==
    []<>(\A c \in Channels : phase[c] \in Creating => Window[c] \in hung)
=============================================================================
