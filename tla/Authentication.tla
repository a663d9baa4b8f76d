--------------------------- MODULE Authentication ---------------------------
(***************************************************************************)
(* An account authentication operation of a page, from its approval on:    *)
(* the operation object, its challenge objects and their messages, the     *)
(* request handler's ChallangeMessagingSequenceValidator, and the          *)
(* challenges as the manager has them                                      *)
(* (dom/berytus/BerytusAccountAuthenticationOperation.cpp,                 *)
(* BerytusChallenge.cpp and its subclasses, BerytusChallengeMap.cpp,       *)
(* RequestHandler.sys.mts).                                                *)
(*                                                                         *)
(* A page makes any call at any time, on any object: a challenge object    *)
(* asks whether it was ever connected, not whether it is active, nor       *)
(* whether its operation is.  Several objects may have one id, by which    *)
(* the manager and the validator know a challenge.                         *)
(*                                                                         *)
(* What Registration has a name of its own for begins with Auth here, so   *)
(* that OperationProofs can extend both.                                   *)
(***************************************************************************)
EXTENDS LoginOperation, SequencesExt

CONSTANTS
    Objects,    \* the page's challenge objects
    Ids,        \* challenge ids
    IdOf,       \* the id each object was constructed with
    TypeOf,     \* its type, by its class
    NoObject,   \* no challenge of an id has been approved
    MaxReplies  \* bound: answers on their way when it makes one

\* The messages each class of challenge has a method for, in the order the
\* validator expects them.  What they carry is left out.
Identification == <<"GetIdentityFields">>
Password == <<"GetPasswordFields">>
OffChannelOtp == <<"GetOtp">>
DigitalSignature == <<"SelectKey", "SignNonce">>
SecureRemotePassword ==
    <<"SelectSecurePassword", "ExchangePublicKeys", "ComputeClientProof", "VerifyServerProof">>

Names ==
    [Identification |-> Identification, Password |-> Password,
     DigitalSignature |-> DigitalSignature, SecureRemotePassword |-> SecureRemotePassword,
     OffChannelOtp |-> OffChannelOtp]

ASSUME AuthenticationAssumption ==
    /\ IdOf \in [Objects -> Ids]
    /\ TypeOf \in [Objects -> DOMAIN Names]
    /\ NoObject \notin Objects
    /\ MaxCalls \in Nat /\ MaxReplies \in Nat

MessageNames == UNION {ToSet(Names[t]) : t \in {TypeOf[o] : o \in Objects}}

VARIABLES
    challenges, \* the operation's BerytusChallengeMap
    connected,  \* the objects with a channel and an operation
    live,       \* those with mActive
    counter,    \* the validator's #counter
    open,       \* ids whose challenge the manager has approved and not closed
    said        \* history: the messages of an id the manager responded to

authPage == <<channel, active, challenges, connected, live>>
authVars == <<authPage, call, replies, counter, open, said, calls>>

AuthMethods == {"approveChallengeRequest", "respondToChallengeMessage", "closeChallenge",
            "abortChallenge", "closeOperation", "closeChannel", "of another page"}
AuthRequest == [method : AuthMethods, object : Objects \union {NoObject},
            name : MessageNames \union {"none"}]
AuthReply == [to : AuthRequest, ok : BOOLEAN]
ASSUME AuthNoCallAssumption == NoCall \notin AuthRequest

AuthTypeOK ==
    /\ channel \in BOOLEAN /\ active \in BOOLEAN
    /\ challenges \in [Ids -> Objects \union {NoObject}]
    /\ connected \subseteq Objects /\ live \subseteq connected
    /\ call \in AuthRequest \union {NoCall}
    /\ replies \in Seq(AuthReply)
    /\ counter \in [Ids -> Nat]
    /\ open \subseteq Ids
    /\ said \in [Ids -> Seq(MessageNames)]
    /\ calls \in 0 .. MaxCalls

AuthInit ==
    /\ channel = TRUE /\ active = TRUE
    /\ challenges = [i \in Ids |-> NoObject]
    /\ connected = {} /\ live = {}
    /\ call = NoCall /\ replies = <<>>
    /\ counter = [i \in Ids |-> 0]
    /\ open = {} /\ said = [i \in Ids |-> <<>>]
    /\ calls = 0

-----------------------------------------------------------------------------
(* The page's calls                                                        *)
Message(o, name) == [method |-> "respondToChallengeMessage", object |-> o, name |-> name]
Plain(method, o) == [method |-> method, object |-> o, name |-> "none"]
IsMessage(r) == r.method = "respondToChallengeMessage"

\* consume: the name is the one the counter of the id has come to, by the names
\* of the type the object has.
IsExpected(r) ==
    IsMessage(r) =>
        LET names == Names[TypeOf[r.object]]
            n == counter[IdOf[r.object]] + 1
        IN  n \in DOMAIN names /\ names[n] = r.name

\* A request is accepted unless the channel is closed, the manager is busy, or
\* the validator says no; a call that is refused at once changes nothing.
Ask(r) ==
    /\ channel /\ call = NoCall /\ IsExpected(r)
    /\ calls < MaxCalls /\ Len(replies) <= MaxReplies
    /\ call' = r
    /\ counter' = IF IsMessage(r) THEN [counter EXCEPT ![IdOf[r.object]] = @ + 1] ELSE counter
    /\ calls' = calls + 1
    /\ UNCHANGED <<authPage, replies, open, said>>

Challenge(o) == active /\ Ask(Plain("approveChallengeRequest", o))
SendMessage(o, name) == o \in connected /\ Ask(Message(o, name))
Seal(o) == o \in connected /\ Ask(Plain("closeChallenge", o))
Abort(o) == o \in connected /\ Ask(Plain("abortChallenge", o))

\* finish does not ask whether the operation is active.
Finish == Ask(Plain("closeOperation", NoObject))
AuthCloseChannel == Ask(Plain("closeChannel", NoObject))

-----------------------------------------------------------------------------
(* The manager                                                             *)
\* Another page has the manager serve a request.
AuthServeAnother ==
    /\ call = NoCall
    /\ call' = Plain("of another page", NoObject)
    /\ UNCHANGED <<authPage, replies, counter, open, said, calls>>

\* Only the page that asked hears the answer.
Answer(ok) ==
    /\ call # NoCall
    /\ call' = NoCall
    /\ replies' = IF call.method = "of another page" THEN replies
                  ELSE Append(replies, [to |-> call, ok |-> ok])
    /\ UNCHANGED <<authPage, calls>>

AuthGrant ==
    /\ Answer(TRUE)
    /\ open' = CASE call.method = "approveChallengeRequest" -> open \union {IdOf[call.object]}
                 [] call.method \in {"closeChallenge", "abortChallenge"} ->
                        open \ {IdOf[call.object]}
                 [] OTHER -> open
    /\ said' = IF IsMessage(call) THEN [said EXCEPT ![IdOf[call.object]] = Append(@, call.name)]
               ELSE said
    /\ UNCHANGED counter

\* Mutant of the next definition: the validator does not roll back.
RejectWithoutRollback == Answer(FALSE) /\ UNCHANGED <<counter, open, said>>

\* rollback
AuthReject ==
    /\ Answer(FALSE)
    /\ counter' = IF IsMessage(call) THEN [counter EXCEPT ![IdOf[call.object]] = @ - 1]
                  ELSE counter
    /\ UNCHANGED <<open, said>>

-----------------------------------------------------------------------------
(* Answers arrive                                                          *)
AuthHeard(methods) ==
    /\ replies # <<>> /\ Head(replies).to.method \in methods
    /\ replies' = Tail(replies)
    /\ UNCHANGED <<call, counter, open, said, calls>>

Fails(methods) ==
    /\ AuthHeard(methods) /\ ~ Head(replies).ok
    /\ UNCHANGED authPage

\* Mutant of the next definition: only an object that is new becomes active.
ConnectOnce(o) ==
    /\ connected' = connected \union {o}
    /\ live' = IF o \in connected THEN live ELSE live \union {o}

\* Connect: an object that was sealed is active again.
Connect(o) ==
    /\ connected' = connected \union {o}
    /\ live' = live \union {o}

Approved ==
    LET o == Head(replies).to.object
    IN  /\ AuthHeard({"approveChallengeRequest"}) /\ Head(replies).ok
        /\ challenges' = [challenges EXCEPT ![IdOf[o]] = o]
        /\ Connect(o)
        /\ UNCHANGED <<channel, active>>

\* Sealed or aborted.
Disconnected ==
    /\ AuthHeard({"closeChallenge", "abortChallenge"}) /\ Head(replies).ok
    /\ live' = live \ {Head(replies).to.object}
    /\ UNCHANGED <<channel, active, challenges, connected>>

\* What the manager sent is handed on, a result or a failure.
Responded == AuthHeard({"respondToChallengeMessage"}) /\ UNCHANGED authPage

\* Its challenges stay as they are.
Finished ==
    /\ AuthHeard({"closeOperation"}) /\ Head(replies).ok
    /\ active' = FALSE
    /\ UNCHANGED <<channel, challenges, connected, live>>

ChannelClosed ==
    /\ AuthHeard({"closeChannel"}) /\ Head(replies).ok
    /\ channel' = FALSE
    /\ UNCHANGED <<active, challenges, connected, live>>

AuthNext ==
    \/ \E o \in Objects : Challenge(o) \/ Seal(o) \/ Abort(o)
    \/ \E o \in Objects, name \in MessageNames : SendMessage(o, name)
    \/ Finish \/ AuthCloseChannel \/ AuthServeAnother
    \/ AuthGrant \/ AuthReject
    \/ Approved \/ Disconnected \/ Responded \/ Finished \/ ChannelClosed
    \/ Fails(AuthMethods \ {"respondToChallengeMessage"})

AuthSpec == AuthInit /\ [][AuthNext]_authVars

-----------------------------------------------------------------------------
(* Properties                                                              *)
ObjectsOf(i) == {o \in Objects : IdOf[o] = i}
Pending(i) ==
    \/ call # NoCall /\ call.object # NoObject /\ IdOf[call.object] = i
    \/ \E k \in DOMAIN replies : LET o == replies[k].to.object
                                 IN  o # NoObject /\ IdOf[o] = i

\* When nothing about an id is under way, and the manager has a challenge of it
\* open, the object in the operation's map is active ("active" of
\* BerytusChallenge); where the page has one object of the id, the challenge is
\* open exactly when the object is active, however often it was sealed, aborted
\* and challenged again.
ChallengesAgree ==
    \A i \in Ids : ~ Pending(i) =>
        /\ i \in open => challenges[i] \in live
        /\ \A o \in Objects : ObjectsOf(i) = {o} => (o \in live <=> i \in open)

\* The manager has responded to the messages of an id in the order of its type,
\* each once, and the validator expects the one after the last, however the
\* page's objects of that id (all of one type), rejections and other pages'
\* requests alternate.  A challenge that is made again under the id goes on
\* where the one before it stopped: its messages are not begun anew.
MessagesInOrder ==
    \A i \in Ids : \A o \in ObjectsOf(i) :
        (\A p \in ObjectsOf(i) : TypeOf[p] = TypeOf[o]) =>
            /\ IsPrefix(said[i], Names[TypeOf[o]])
            /\ counter[i] = Len(said[i]) +
                   (IF call # NoCall /\ IsMessage(call) /\ IdOf[call.object] = i THEN 1 ELSE 0)

\* The page's challenges are the manager's, and everything has its type.
AuthenticationInv == AuthTypeOK /\ ChallengesAgree
=============================================================================
