------------------------ MODULE ExtensionBridgeProofs ------------------------
(***************************************************************************)
(* What holds of the bridge to a secret manager for any number of requests *)
(* and registrations, however often its background page stops.  What is    *)
(* proved of the request handler is used by way of the instance Facts.     *)
(***************************************************************************)
EXTENDS ExtensionBridge, SequenceTheorems, TLAPS

Facts == INSTANCE RequestHandlerProofs

-----------------------------------------------------------------------------
(***************************************************************************)
(* The handler of the bridge is the one of RequestHandler.                 *)
(***************************************************************************)
LEMMA SameAssumptions == Facts!AsksAssumption /\ Facts!HandlersAssumption
  BY RequestsAssumption DEF Handler!AsksAssumption, Facts!AsksAssumption,
         Handler!HandlersAssumption, Facts!HandlersAssumption, Handler!NoHandler,
         Facts!NoHandler, Handler!AddField, Facts!AddField, Handler!RejectFieldValue,
         Facts!RejectFieldValue, Handler!RespondToChallengeMessage,
         Facts!RespondToChallengeMessage, Handler!Others, Facts!Others, Handler!Names,
         Facts!Names, Handler!MessageNames, Facts!MessageNames, Handler!ManagerRequests,
         Facts!ManagerRequests, Handler!ChannelRequests, Facts!ChannelRequests,
         Handler!LoginRequests, Facts!LoginRequests, Handler!CreationRequests,
         Facts!CreationRequests, Handler!AuthenticationRequests,
         Facts!AuthenticationRequests, Handler!ManagerMethods, Facts!ManagerMethods,
         Handler!ChannelMethods, Facts!ChannelMethods, Handler!SignatureMethods,
         Facts!SignatureMethods, Handler!LoginMethods, Facts!LoginMethods,
         Handler!CreationMethods, Facts!CreationMethods, Handler!AuthenticationMethods,
         Facts!AuthenticationMethods

LEMMA SameState ==
  /\ Handler!TypeOK = Facts!TypeOK
  /\ Handler!BusyWhileServing = Facts!BusyWhileServing
  /\ Handler!Init = Facts!Init
  BY DEF Handler!TypeOK, Facts!TypeOK, Handler!Refusals, Facts!Refusals,
         Handler!NoHandler, Facts!NoHandler, Handler!BusyWhileServing,
         Facts!BusyWhileServing, Handler!Serving, Facts!Serving, Handler!Init,
         Facts!Init

LEMMA SameCalls ==
  ASSUME NEW r \in Requests
  PROVE  Handler!Call(r) = Facts!Call(r) /\ Handler!Settle(r) = Facts!Settle(r)
  BY DEF Handler!Call, Facts!Call, Handler!Settle, Facts!Settle, Handler!Refuse,
         Facts!Refuse, Handler!Settled, Facts!Settled, Handler!NoHandler,
         Facts!NoHandler, Handler!liaison, Facts!liaison, Handler!handler, Facts!handler

LEMMA SameDelivery ==
  ASSUME NEW r \in Requests
  PROVE  Handler!Deliver(r) = Facts!Deliver(r)
  BY DEF Handler!Deliver, Facts!Deliver, Handler!SchemaVerdicts, Facts!SchemaVerdicts,
         Handler!Refusal, Facts!Refusal, Handler!Refuse, Facts!Refuse, Handler!Consume,
         Facts!Consume, Handler!IsNextMessage, Facts!IsNextMessage, Handler!AddField,
         Facts!AddField, Handler!RejectFieldValue, Facts!RejectFieldValue,
         Handler!RespondToChallengeMessage, Facts!RespondToChallengeMessage,
         Handler!MessageNames, Facts!MessageNames, Handler!Names, Facts!Names,
         Handler!liaison, Facts!liaison

LEMMA SameAnswers ==
  ASSUME NEW r \in Requests
  PROVE  /\ Handler!Resolve(r) = Facts!Resolve(r)
         /\ Handler!Reject(r) = Facts!Reject(r)
         /\ Handler!Throw(r) = Facts!Throw(r)
  BY DEF Handler!Resolve, Facts!Resolve, Handler!Reject, Facts!Reject, Handler!Throw,
         Facts!Throw, Handler!Free, Facts!Free, Handler!MayAnswer, Facts!MayAnswer,
         Handler!Await, Facts!Await, Handler!Rollback, Facts!Rollback, Handler!Settled,
         Facts!Settled, Handler!Outputs, Facts!Outputs, Handler!FitsResult,
         Facts!FitsResult, Handler!FitsField, Facts!FitsField, Handler!Untyped,
         Facts!Untyped, Handler!SignatureMethods, Facts!SignatureMethods,
         Handler!AuthenticationMethods, Facts!AuthenticationMethods, Handler!AddField,
         Facts!AddField, Handler!RejectFieldValue, Facts!RejectFieldValue,
         Handler!RespondToChallengeMessage, Facts!RespondToChallengeMessage,
         Handler!MessageNames, Facts!MessageNames, Handler!liaison, Facts!liaison

LEMMA SameRegistrations ==
  /\ Handler!EreaseManager = Facts!EreaseManager
  /\ \A h \in Handlers : Handler!RegisterManager(h) = Facts!RegisterManager(h)
  BY DEF Handler!EreaseManager, Facts!EreaseManager, Handler!RegisterManager,
         Facts!RegisterManager, Handler!NoHandler, Facts!NoHandler, Handler!handler,
         Facts!handler

-----------------------------------------------------------------------------
(***************************************************************************)
(* Types                                                                   *)
(***************************************************************************)
\* What a step of the bridge is to the handler: one of its steps, or none.
LEMMA HandlerStep ==
  ASSUME TypeOK, [Next]_vars  PROVE  [Facts!Next]_Facts!vars
<1> SUFFICES Facts!Next \/ UNCHANGED Facts!vars
  OBVIOUS
<1>1. ASSUME NEW r \in Requests,
             Handler!Resolve(r) \/ Handler!Reject(r) \/ Handler!Throw(r)
      PROVE  Facts!Next
  <2>1. Facts!Answer(r)
    BY <1>1, SameAnswers DEF Facts!Answer, Facts!Resolve, Facts!Reject, Facts!Throw, Facts!Free
  <2> QED  BY <2>1 DEF Facts!Next
<1>2. UNCHANGED handler => UNCHANGED Facts!vars
  BY DEF handler, Facts!vars, Facts!liaison, Facts!handler
<1>3. CASE Browser
  BY <1>3, SameCalls DEF Browser, Facts!Next
<1>4. ASSUME NEW r \in Requests, Deliver(r)  PROVE  Facts!Next
  BY <1>4, SameDelivery DEF Deliver, Facts!Next
<1>5. CASE FinishDelivery
  <2>1. turn.of \subseteq Requests
    BY DEF TypeOK, Turns
  <2>2. PICK r \in Requests : Handler!Reject(r) \/ Handler!Throw(r)
    BY <1>5, <2>1 DEF FinishDelivery
  <2> QED  BY <1>1, <2>2
<1>6. CASE HandleReply
  <2>1. \A m \in replies : m.request \in Requests
    BY DEF TypeOK, Replies
  <2>2. PICK r \in Requests : Handler!Resolve(r) \/ Handler!Reject(r)
    BY <1>6, <2>1 DEF HandleReply
  <2> QED  BY <1>1, <2>2
<1>7. CASE FinishRegister \/ HandleRegister \/ HandleUnregister \/ Shutdown
  BY <1>2, <1>7, SameRegistrations
  DEF FinishRegister, HandleRegister, HandleUnregister, Shutdown, Facts!Next
<1>8. CASE HandleListen \/ HandleClose \/ Start \/ Stop \/ RegisterRequestHandler
           \/ Registered \/ UnregisterRequestHandler
           \/ \E r \in Requests : Listen(r) \/ Answer(r) \/ AnswerAgain(r)
  BY <1>2, <1>8 DEF HandleListen, HandleClose, Start, Stop, RegisterRequestHandler,
                    Registered, UnregisterRequestHandler, Listen, Answer, AnswerAgain
<1>9. CASE UNCHANGED vars
  BY <1>2, <1>9 DEF vars
<1> QED  BY <1>3, <1>4, <1>5, <1>6, <1>7, <1>8, <1>9 DEF Next, Handle

LEMMA SamePrimed ==
  /\ Handler!TypeOK' <=> Facts!TypeOK'
  /\ Handler!BusyWhileServing' <=> Facts!BusyWhileServing'
<1>1. (Handler!TypeOK <=> Facts!TypeOK) /\ (Handler!BusyWhileServing <=> Facts!BusyWhileServing)
  BY SameState
<1> QED  BY <1>1, PTL

LEMMA HandlerTypeOK ==
  ASSUME TypeOK, [Next]_vars  PROVE  Handler!TypeOK'
<1>1. Facts!TypeOK
  BY SameState DEF TypeOK
<1>2. Facts!TypeOK'
  BY <1>1, HandlerStep, Facts!NextTypeOK, SameAssumptions
<1> QED  BY <1>2, SamePrimed

\* The calls that a page sends together.
Sendings == {<<"listen">>, <<"listen", "register">>, <<"unregister">>, <<"close">>}

LEMMA Sent ==
  ASSUME TypeOK, NEW t \in Sendings, Send(t)  PROVE  toParent' \in Seq(Calls)
<1>1. toParent \in Seq(Calls)
  BY DEF TypeOK
<1>2. \A a, b \in Calls : <<a>> \in Seq(Calls) /\ <<a, b>> \in Seq(Calls)
  OBVIOUS
<1>3. t \in Seq(Calls)
  <2>1. {"listen", "register", "unregister", "close"} \subseteq Calls
    BY DEF Calls
  <2> QED  BY <1>2, <2>1 DEF Sendings
<1> QED  BY <1>1, <1>3, ConcatProperties DEF Send

LEMMA Received ==
  ASSUME TypeOK, NEW call, Receive(call)  PROVE  toParent' \in Seq(Calls)
  BY DEF TypeOK, Receive

LEMMA InitTypeOK == Init => TypeOK
<1> SUFFICES ASSUME Init  PROVE  TypeOK
  OBVIOUS
<1>1. Handler!TypeOK
  BY Facts!InitTypeOK, SameState, SameAssumptions DEF Init
<1>2. NoTurn \in Turns /\ <<>> \in Seq(Calls) /\ 0 \in 0 .. MaxStops
  BY BridgeAssumption DEF Turns, NoTurn
<1> QED  BY <1>1, <1>2 DEF Init, TypeOK

LEMMA NextTypeOK == TypeOK /\ [Next]_vars => TypeOK'
<1> SUFFICES ASSUME TypeOK, [Next]_vars  PROVE  TypeOK'
  OBVIOUS
<1>0. Handler!TypeOK'
  BY HandlerTypeOK
<1>1. CASE Browser \/ UNCHANGED vars
  BY <1>0, <1>1 DEF TypeOK, Browser, vars, bridge, parent, child, manager
<1>2. ASSUME NEW r \in Requests, Deliver(r)  PROVE  TypeOK'
  <2>1. turn' \in Turns /\ known' \subseteq Requests /\ queued' \subseteq Requests
        /\ sent' \subseteq Requests
    BY <1>2 DEF TypeOK, Deliver, FireListeners, Fire, Later, Turns
  <2> QED  BY <1>0, <1>2, <2>1 DEF TypeOK, Deliver, child, manager
<1>3. CASE FinishDelivery
  BY <1>0, <1>3 DEF TypeOK, FinishDelivery, Turns, NoTurn, child, manager
<1>4. CASE HandleReply
  BY <1>0, <1>4 DEF TypeOK, HandleReply, parent, child, manager
<1>5. CASE HandleListen
  BY <1>0, <1>5, Received DEF TypeOK, HandleListen, child, manager
<1>6. CASE HandleRegister
  BY <1>0, <1>6, Received DEF TypeOK, HandleRegister, Turns, child, manager
<1>7. CASE FinishRegister
  BY <1>0, <1>7 DEF TypeOK, FinishRegister, Turns, NoTurn, manager
<1>8. CASE HandleUnregister
  BY <1>0, <1>8, Received DEF TypeOK, HandleUnregister, parent, child, manager
<1>9. CASE HandleClose
  BY <1>0, <1>9, Received DEF TypeOK, HandleClose, child
<1>10. CASE Shutdown
  <2>1. {m.request : m \in replies} \subseteq Requests
    BY DEF TypeOK, Replies
  <2>2. interrupted' \subseteq Requests
    BY <1>10, <2>1 DEF TypeOK, Shutdown
  <2>3. toParent' \in Seq(Calls)
    BY <1>10 DEF Shutdown
  <2> QED  BY <1>0, <1>10, <2>2, <2>3 DEF TypeOK, Shutdown
<1>11. CASE Start
  BY <1>0, <1>11 DEF TypeOK, Start, parent, manager
<1>12. CASE Stop
  <2>1. toParent' \in Seq(Calls)
    BY <1>12, Sent DEF Stop, Sendings
  <2>2. stops' \in 0 .. MaxStops
    BY <1>12, BridgeAssumption DEF TypeOK, Stop
  <2> QED  BY <1>0, <1>12, <2>1, <2>2 DEF TypeOK, Stop, parent
<1>13. CASE RegisterRequestHandler
  <2>1. toParent' \in Seq(Calls)
    BY <1>13, Sent DEF RegisterRequestHandler, Sendings
  <2> QED  BY <1>0, <1>13, <2>1 DEF TypeOK, RegisterRequestHandler, parent
<1>14. CASE Registered
  BY <1>0, <1>14 DEF TypeOK, Registered, parent, manager
<1>15. CASE UnregisterRequestHandler
  <2>1. toParent' \in Seq(Calls)
    BY <1>15, Sent DEF TypeOK, UnregisterRequestHandler, Sendings
  <2> QED  BY <1>0, <1>15, <2>1 DEF TypeOK, UnregisterRequestHandler, parent
<1>16. ASSUME NEW r \in Requests, Listen(r)  PROVE  TypeOK'
  BY <1>0, <1>16 DEF TypeOK, Listen, parent, child
<1>17. ASSUME NEW r \in Requests, Answer(r)  PROVE  TypeOK'
  <2>1. replies' \subseteq Replies
    BY <1>17 DEF TypeOK, Answer, Replies
  <2> QED  BY <1>0, <1>17, <2>1 DEF TypeOK, Answer, parent, child
<1>18. ASSUME NEW r \in Requests, AnswerAgain(r)  PROVE  TypeOK'
  <2>1. replies' \subseteq Replies
    BY <1>18 DEF TypeOK, AnswerAgain, Replies
  <2> QED  BY <1>0, <1>18, <2>1 DEF TypeOK, AnswerAgain, parent, child
<1> QED
  BY <1>1, <1>2, <1>3, <1>4, <1>5, <1>6, <1>7, <1>8, <1>9, <1>10, <1>11, <1>12, <1>13,
     <1>14, <1>15, <1>16, <1>17, <1>18 DEF Next, Handle

-----------------------------------------------------------------------------
(***************************************************************************)
(* Registrations                                                           *)
(***************************************************************************)
Has(s, call) == \E i \in DOMAIN s : s[i] = call

\* A page that stops says nothing more; it registers after it unregisters.
InOrder(s) ==
  /\ \A i \in DOMAIN s : s[i] = "close" => i = Len(s)
  /\ \A i, j \in DOMAIN s : s[i] = "unregister" /\ s[j] = "register" => i < j

\* The next page starts when the parent has heard of the end of the last one.
CallsAreInOrder ==
  /\ InOrder(toParent)
  /\ Has(toParent, "close") => background = "off"
  /\ background = "disabled" => toParent = <<>>

\* A registration is under way only for a page that is there, or whose end the
\* parent has yet to hear of; no call that came before it will undo it.
RegistrationsFit ==
  /\ connected => background = "running"
  /\ registering # "no" => connected
  /\ Has(toParent, "register") \/ turn.to = "register" =>
        connected \/ Has(toParent, "close")
  /\ turn.to = "register" => ~ Has(toParent, "unregister")
  /\ registered \/ registering = "done" =>
        /\ ~ Has(toParent, "unregister")
        /\ current # NoHandler \/ turn.to = "register"

LEMMA TailInOrder ==
  ASSUME NEW s \in Seq(Calls), s # <<>>, InOrder(s)
  PROVE  /\ InOrder(Tail(s))
         /\ \A call : Has(Tail(s), call) => Has(s, call)
         /\ \A call : Has(s, call) => call = Head(s) \/ Has(Tail(s), call)
         /\ Head(s) = "close" => Tail(s) = <<>>
         /\ Head(s) = "register" => ~ Has(Tail(s), "unregister")
<1>1. /\ Len(s) \in Nat \ {0} /\ DOMAIN s = 1 .. Len(s) /\ Head(s) = s[1]
      /\ Tail(s) \in Seq(Calls) /\ Len(Tail(s)) = Len(s) - 1
      /\ DOMAIN Tail(s) = 1 .. Len(s) - 1
      /\ \A i \in 1 .. Len(s) - 1 : Tail(s)[i] = s[i + 1]
  BY HeadTailProperties, LenProperties
<1>2. \A i \in DOMAIN Tail(s) : i + 1 \in DOMAIN s /\ Tail(s)[i] = s[i + 1]
  BY <1>1
<1>3. \A i \in DOMAIN s : i = 1 \/ (i - 1 \in DOMAIN Tail(s) /\ Tail(s)[i - 1] = s[i])
  BY <1>1
<1>4. InOrder(Tail(s))
  BY <1>1, <1>2 DEF InOrder
<1>5. \A call : Has(Tail(s), call) => Has(s, call)
  BY <1>2 DEF Has
<1>6. \A call : Has(s, call) => call = Head(s) \/ Has(Tail(s), call)
  BY <1>1, <1>3 DEF Has
<1>7. ASSUME Head(s) = "close"  PROVE  Tail(s) = <<>>
  <2>1. Len(Tail(s)) = 0
    BY <1>1, <1>7 DEF InOrder
  <2> QED  BY <1>1, <2>1, EmptySeq
<1>8. ASSUME Head(s) = "register"  PROVE  ~ Has(Tail(s), "unregister")
  <2> SUFFICES ASSUME NEW i \in DOMAIN Tail(s), Tail(s)[i] = "unregister"  PROVE  FALSE
    BY DEF Has
  <2>1. i + 1 \in DOMAIN s /\ s[i + 1] = "unregister" /\ 1 \in DOMAIN s /\ s[1] = "register"
    BY <1>1, <1>2, <1>8
  <2>2. i + 1 < 1
    BY <2>1 DEF InOrder
  <2> QED  BY <1>1, <2>2
<1> QED  BY <1>4, <1>5, <1>6, <1>7, <1>8

LEMMA SendingsHave ==
  ASSUME NEW t \in Sendings
  PROVE  /\ t \in Seq(Calls) /\ Len(t) \in Nat
         /\ \A i \in DOMAIN t : t[i] = "close" => t = <<"close">>
         /\ \A i \in DOMAIN t : t[i] = "unregister" => t = <<"unregister">>
         /\ \A i \in DOMAIN t : t[i] = "register" => t = <<"listen", "register">>
<1>1. t \in Seq(Calls)
  <2>1. \A a, b \in Calls : <<a>> \in Seq(Calls) /\ <<a, b>> \in Seq(Calls)
    OBVIOUS
  <2>2. {"listen", "register", "unregister", "close"} \subseteq Calls
    BY DEF Calls
  <2> QED  BY <2>1, <2>2 DEF Sendings
<1> QED  BY <1>1 DEF Sendings

LEMMA ConcatInOrder ==
  ASSUME NEW s \in Seq(Calls), InOrder(s), ~ Has(s, "close"), NEW t \in Sendings,
         t = <<"unregister">> => ~ Has(s, "register")
  PROVE  /\ InOrder(s \o t)
         /\ \A call : Has(s \o t, call) <=> Has(s, call) \/ Has(t, call)
<1>1. /\ t \in Seq(Calls) /\ s \o t \in Seq(Calls)
      /\ Len(s) \in Nat /\ Len(t) \in Nat /\ Len(s \o t) = Len(s) + Len(t)
      /\ DOMAIN s = 1 .. Len(s) /\ DOMAIN t = 1 .. Len(t)
      /\ DOMAIN (s \o t) = 1 .. Len(s) + Len(t)
      /\ \A i \in 1 .. Len(s) + Len(t) :
            (s \o t)[i] = IF i <= Len(s) THEN s[i] ELSE t[i - Len(s)]
  BY SendingsHave, ConcatProperties, LenProperties
<1> DEFINE u == s \o t
<1>2. \A i \in DOMAIN u : \/ i \in DOMAIN s /\ u[i] = s[i]
                          \/ i - Len(s) \in DOMAIN t /\ u[i] = t[i - Len(s)] /\ i > Len(s)
  BY <1>1
<1>3. \A i \in DOMAIN s : i \in DOMAIN u /\ u[i] = s[i]
  BY <1>1
<1>4. \A i \in DOMAIN t : i + Len(s) \in DOMAIN u /\ u[i + Len(s)] = t[i]
  BY <1>1
<1>5. \A call : Has(u, call) <=> Has(s, call) \/ Has(t, call)
  BY <1>2, <1>3, <1>4 DEF Has
<1>6. ASSUME NEW i \in DOMAIN u, u[i] = "close"  PROVE  i = Len(u)
  <2>1. i - Len(s) \in DOMAIN t /\ t[i - Len(s)] = "close"
    BY <1>2, <1>6 DEF Has
  <2>2. t = <<"close">>
    BY <2>1, SendingsHave
  <2>3. Len(t) = 1
    BY <2>2
  <2> HIDE DEF u
  <2> QED  BY <1>1, <2>1, <2>3 DEF u
<1>7. ASSUME NEW i \in DOMAIN u, NEW j \in DOMAIN u, u[i] = "unregister", u[j] = "register"
      PROVE  i < j
  <2>1. CASE i \in DOMAIN s /\ u[i] = s[i] /\ j \in DOMAIN s /\ u[j] = s[j]
    BY <1>7, <2>1 DEF InOrder
  <2>2. CASE i \in DOMAIN s /\ j - Len(s) \in DOMAIN t /\ j > Len(s)
    BY <1>1, <2>2
  <2>3. CASE i - Len(s) \in DOMAIN t /\ u[i] = t[i - Len(s)]
    <3>1. t = <<"unregister">>
      BY <1>7, <2>3, SendingsHave
    <3>2. j - Len(s) \in DOMAIN t /\ t[j - Len(s)] = "register"
      BY <1>2, <1>7, <3>1 DEF Has
    <3>3. t = <<"listen", "register">>
      BY <3>2, SendingsHave
    <3> QED  BY <3>1, <3>3
  <2> QED  BY <1>2, <2>1, <2>2, <2>3
<1> QED  BY <1>5, <1>6, <1>7 DEF InOrder

\* The parent takes a call: what is left of the queue.
LEMMA ReceiveCalls ==
  ASSUME TypeOK, CallsAreInOrder, NEW call, Receive(call), UNCHANGED background
  PROVE  /\ CallsAreInOrder'
         /\ Has(toParent, call)
         /\ \A c \in Calls : Has(toParent, c)' => Has(toParent, c)
         /\ \A c \in Calls \ {call} : Has(toParent, c) => Has(toParent, c)'
         /\ call = "close" => \A c \in Calls : ~ Has(toParent, c)'
         /\ call = "register" => ~ Has(toParent, "unregister")'
<1>1. toParent \in Seq(Calls) /\ toParent # <<>> /\ Head(toParent) = call /\ toParent' = Tail(toParent)
  BY DEF TypeOK, Receive
<1>2. /\ InOrder(Tail(toParent))
      /\ \A c : Has(Tail(toParent), c) => Has(toParent, c)
      /\ \A c : Has(toParent, c) => c = call \/ Has(Tail(toParent), c)
      /\ call = "close" => Tail(toParent) = <<>>
      /\ call = "register" => ~ Has(Tail(toParent), "unregister")
  BY <1>1, TailInOrder DEF CallsAreInOrder
<1>3. Has(toParent, call)
  <2>1. 1 \in DOMAIN toParent /\ toParent[1] = call
    BY <1>1, HeadTailProperties, LenProperties, EmptySeq
  <2> QED  BY <2>1 DEF Has
<1>4. \A c : ~ Has(<<>>, c)
  BY DEF Has
<1>5. CallsAreInOrder'
  BY <1>1, <1>2 DEF CallsAreInOrder
<1> QED  BY <1>1, <1>2, <1>3, <1>4, <1>5

\* A page that runs sends calls.
LEMMA SendCalls ==
  ASSUME TypeOK, CallsAreInOrder, background = "running", NEW t \in Sendings, Send(t),
         t = <<"unregister">> => ~ Has(toParent, "register"),
         IF t = <<"close">> THEN background' = "off" ELSE UNCHANGED background
  PROVE  /\ CallsAreInOrder'
         /\ \A c : Has(toParent, c)' <=> Has(toParent, c) \/ Has(t, c)
<1>1. toParent \in Seq(Calls) /\ toParent' = toParent \o t /\ ~ Has(toParent, "close")
  BY DEF TypeOK, CallsAreInOrder, Send
<1>2. InOrder(toParent \o t) /\ \A c : Has(toParent \o t, c) <=> Has(toParent, c) \/ Has(t, c)
  BY <1>1, ConcatInOrder DEF CallsAreInOrder
<1>3. Has(t, "close") => t = <<"close">>
  BY SendingsHave DEF Has
<1> QED  BY <1>1, <1>2, <1>3 DEF CallsAreInOrder

LEMMA SendingsContain ==
  /\ \A c : Has(<<"listen">>, c) <=> c = "listen"
  /\ \A c : Has(<<"listen", "register">>, c) <=> c \in {"listen", "register"}
  /\ \A c : Has(<<"unregister">>, c) <=> c = "unregister"
  /\ \A c : Has(<<"close">>, c) <=> c = "close"
<1>1. \A a, c : Has(<<a>>, c) <=> c = a
  BY DEF Has
<1>2. ASSUME NEW c  PROVE  Has(<<"listen", "register">>, c) <=> c \in {"listen", "register"}
  <2>1. DOMAIN <<"listen", "register">> = {1, 2}
    OBVIOUS
  <2> QED  BY <2>1 DEF Has
<1> QED  BY <1>1, <1>2

LEMMA RegistrationStep ==
  ASSUME TypeOK, CallsAreInOrder, RegistrationsFit, [Next]_vars
  PROVE  CallsAreInOrder' /\ RegistrationsFit'
<1>0. {"listen", "register", "unregister", "close"} = Calls
  BY DEF Calls
<1>1. ASSUME UNCHANGED <<current, toParent, child>>,
             turn' = turn \/ (turn.to # "register" /\ turn'.to # "register")
      PROVE  CallsAreInOrder' /\ RegistrationsFit'
  BY <1>1 DEF CallsAreInOrder, RegistrationsFit, child
<1>2. CASE Browser \/ UNCHANGED vars
  <2>1. UNCHANGED <<current, toParent, child, turn>>
    BY <1>2 DEF Browser, bridge, parent, vars, handler, Handler!Call, Handler!Settle, Handler!liaison
  <2> QED  BY <1>1, <2>1
<1>3. ASSUME NEW r \in Requests, Deliver(r)
      PROVE  CallsAreInOrder' /\ RegistrationsFit'
  <2>1. UNCHANGED <<current, toParent, child>>
    BY <1>3 DEF Deliver, Handler!Deliver, Handler!liaison
  <2>2. turn' = turn \/ (turn.to # "register" /\ turn'.to # "register")
    BY <1>3 DEF Deliver, FireListeners, Later, Fire, Idle, NoTurn
  <2> QED  BY <1>1, <2>1, <2>2
<1>4. CASE FinishDelivery
  <2>1. UNCHANGED <<current, toParent, child>>
    BY <1>4 DEF FinishDelivery, Handler!Reject, Handler!Throw, Handler!liaison
  <2>2. turn.to # "register" /\ turn'.to # "register"
    BY <1>4 DEF FinishDelivery, NoTurn
  <2> QED  BY <1>1, <2>1, <2>2
<1>5. CASE HandleReply
  <2>1. UNCHANGED <<current, toParent, child, turn>>
    BY <1>5 DEF HandleReply, parent, Handler!Reject, Handler!Resolve, Handler!liaison
  <2> QED  BY <1>1, <2>1
<1>6. CASE HandleListen
  <2>1. Receive("listen") /\ UNCHANGED <<current, turn, background, connected, registered, registering>>
    BY <1>6 DEF HandleListen, handler, child
  <2>2. /\ CallsAreInOrder'
        /\ \A c \in Calls : Has(toParent, c)' => Has(toParent, c)
        /\ \A c \in Calls \ {"listen"} : Has(toParent, c) => Has(toParent, c)'
    BY <2>1, ReceiveCalls
  <2> QED  BY <1>0, <2>1, <2>2 DEF RegistrationsFit
<1>7. CASE HandleRegister
  <2>1. /\ Receive("register") /\ turn' = [to |-> "register", of |-> {}]
        /\ UNCHANGED <<background, connected, registered, registering>>
    BY <1>7 DEF HandleRegister, child
  <2>2. /\ CallsAreInOrder' /\ Has(toParent, "register")
        /\ \A c \in Calls : Has(toParent, c)' => Has(toParent, c)
        /\ Has(toParent, "close") => Has(toParent, "close")'
        /\ ~ Has(toParent, "unregister")'
    BY <1>0, <2>1, ReceiveCalls
  <2> QED  BY <1>0, <2>1, <2>2 DEF RegistrationsFit
<1>8. CASE FinishRegister
  <2>1. /\ turn.to = "register" /\ turn'.to = "nothing"
        /\ registering' = IF registering = "sent" THEN "done" ELSE registering
        /\ UNCHANGED <<toParent, background, connected, registered>>
    BY <1>8 DEF FinishRegister, NoTurn
  <2>2. current' # NoHandler
    BY <1>8, RequestsAssumption
    DEF FinishRegister, Handler!RegisterManager, NoHandler, Handler!HandlersAssumption
  <2> QED  BY <2>1, <2>2 DEF CallsAreInOrder, RegistrationsFit
<1>9. CASE HandleUnregister
  <2>1. /\ Receive("unregister") /\ turn = NoTurn
        /\ UNCHANGED <<turn, background, connected, registered, registering>>
    BY <1>9 DEF HandleUnregister, parent, child, Idle
  <2>2. /\ CallsAreInOrder' /\ Has(toParent, "unregister")
        /\ \A c \in Calls : Has(toParent, c)' => Has(toParent, c)
        /\ Has(toParent, "close") => Has(toParent, "close")'
    BY <1>0, <2>1, ReceiveCalls
  <2>3. ~ registered /\ registering # "done"
    BY <2>2 DEF RegistrationsFit
  <2> QED  BY <1>0, <2>1, <2>2, <2>3 DEF RegistrationsFit, NoTurn
<1>10. CASE HandleClose
  <2>1. /\ Receive("close") /\ turn = NoTurn
        /\ UNCHANGED <<current, turn, background, connected, registered, registering>>
    BY <1>10 DEF HandleClose, handler, child, Idle
  <2>2. CallsAreInOrder' /\ \A c \in Calls : ~ Has(toParent, c)'
    BY <2>1, ReceiveCalls
  <2> QED  BY <1>0, <2>1, <2>2 DEF RegistrationsFit, NoTurn
<1>11. CASE Shutdown
  <2>1. /\ turn = NoTurn /\ UNCHANGED turn /\ toParent' = <<>>
        /\ background' = "disabled" /\ connected' = FALSE
        /\ registered' = FALSE /\ registering' = "no"
    BY <1>11 DEF Shutdown, Idle
  <2>2. InOrder(<<>>) /\ \A c : ~ Has(<<>>, c)
    BY DEF InOrder, Has
  <2> QED  BY <2>1, <2>2 DEF CallsAreInOrder, RegistrationsFit, NoTurn
<1>12. CASE Start
  <2>1. ~ Has(toParent, "close") /\ background = "off" /\ background' = "running"
    BY <1>12 DEF Start, Has
  <2>2. UNCHANGED <<current, turn, toParent, connected, registered, registering>>
    BY <1>12 DEF Start, handler, parent
  <2> QED  BY <2>1, <2>2 DEF CallsAreInOrder, RegistrationsFit
<1>13. CASE Stop
  <2>1. /\ background = "running" /\ background' = "off" /\ connected' = FALSE
        /\ registering' = "no" /\ registered' \in {registered, FALSE} /\ Send(<<"close">>)
        /\ UNCHANGED <<current, turn>>
    BY <1>13 DEF Stop, handler, parent
  <2>2. CallsAreInOrder' /\ \A c : Has(toParent, c)' <=> Has(toParent, c) \/ Has(<<"close">>, c)
    BY <2>1, SendCalls DEF Sendings
  <2>3. registered' => registered
    BY <2>1
  <2>4. /\ Has(toParent, "close")'
        /\ \A c \in {"register", "unregister"} : Has(toParent, c)' <=> Has(toParent, c)
    BY <2>2, SendingsContain
  <2> QED  BY <2>1, <2>2, <2>3, <2>4 DEF RegistrationsFit
<1>14. CASE RegisterRequestHandler
  <2>1. /\ background = "running" /\ ~ connected /\ connected' = TRUE
        /\ UNCHANGED <<current, turn, background, registered>>
    BY <1>14 DEF RegisterRequestHandler, handler, parent
  <2>2. CASE registered /\ Send(<<"listen">>) /\ UNCHANGED registering
    <3>1. CallsAreInOrder' /\ \A c : Has(toParent, c)' <=> Has(toParent, c) \/ Has(<<"listen">>, c)
      BY <2>1, <2>2, SendCalls DEF Sendings
    <3> QED  BY <2>1, <2>2, <3>1, SendingsContain DEF RegistrationsFit
  <2>3. CASE ~ registered /\ Send(<<"listen", "register">>) /\ registering' = "sent"
    <3>1. /\ CallsAreInOrder'
          /\ \A c : Has(toParent, c)' <=> Has(toParent, c) \/ Has(<<"listen", "register">>, c)
      BY <2>1, <2>3, SendCalls DEF Sendings
    <3> QED  BY <2>1, <2>3, <3>1, SendingsContain DEF RegistrationsFit
  <2> QED  BY <1>14, <2>2, <2>3 DEF RegisterRequestHandler
<1>15. CASE Registered
  <2>1. /\ registering = "done" /\ registering' = "no" /\ registered' = TRUE
        /\ UNCHANGED <<current, turn, toParent, background, connected>>
    BY <1>15 DEF Registered, handler, parent
  <2>2. \A c : Has(toParent, c)' <=> Has(toParent, c)
    BY <2>1 DEF Has
  <2>3. CallsAreInOrder'
    BY <2>1 DEF CallsAreInOrder
  <2>4. connected /\ background = "running" /\ ~ Has(toParent, "unregister")
        /\ (current # NoHandler \/ turn.to = "register")
    BY <2>1 DEF RegistrationsFit
  <2> QED  BY <2>1, <2>2, <2>3, <2>4 DEF RegistrationsFit
<1>16. CASE UnregisterRequestHandler
  <2>1. background = "running" /\ UNCHANGED <<current, turn, background, connected, registering>>
    BY <1>16 DEF UnregisterRequestHandler, handler, parent
  <2>2. CASE connected /\ UNCHANGED <<toParent, registered>>
    BY <2>1, <2>2 DEF CallsAreInOrder, RegistrationsFit
  <2>3. CASE ~ connected /\ Send(<<"unregister">>) /\ registered' = FALSE
    <3>1. ~ Has(toParent, "close")
      BY <2>1 DEF CallsAreInOrder
    <3>2. /\ ~ Has(toParent, "register") /\ turn.to # "register" /\ registering = "no"
      BY <2>3, <3>1 DEF RegistrationsFit
    <3>3. /\ CallsAreInOrder'
          /\ \A c : Has(toParent, c)' <=> Has(toParent, c) \/ Has(<<"unregister">>, c)
      BY <2>1, <2>3, <3>2, SendCalls DEF Sendings
    <3> QED  BY <2>1, <2>3, <3>2, <3>3, SendingsContain DEF RegistrationsFit
  <2> QED  BY <1>16, <2>2, <2>3 DEF UnregisterRequestHandler
<1>17. ASSUME NEW r \in Requests, Listen(r) \/ Answer(r) \/ AnswerAgain(r)
       PROVE  CallsAreInOrder' /\ RegistrationsFit'
  <2>1. UNCHANGED <<current, toParent, child, turn>>
    BY <1>17 DEF Listen, Answer, AnswerAgain, handler, parent
  <2> QED  BY <1>1, <2>1
<1> QED
  BY <1>2, <1>3, <1>4, <1>5, <1>6, <1>7, <1>8, <1>9, <1>10, <1>11, <1>12, <1>13,
     <1>14, <1>15, <1>16, <1>17 DEF Next, Handle

-----------------------------------------------------------------------------
(***************************************************************************)
(* Where requests are                                                      *)
(***************************************************************************)
\* The parent is in a call for one request, or for none.
TurnFits ==
  /\ \A p, q \in turn.of : p = q
  /\ turn.to \in {"nothing", "register"} => turn.of = {}

Replied(r) == \E m \in replies : m.request = r

Travels(r) == r \in turn.of \union queued \union sent \union working \/ Replied(r)

PlacesFit ==
  /\ TurnFits
  /\ \A r \in Requests : Travels(r) => stage[r] = "delivered"
  /\ RequestsAreSomewhere

\* Before the manager answers twice, a request is in one place, unanswered.
InOnePlace ==
  \A r \in Requests :
    /\ r \in turn.of => r \notin queued \union sent \union working /\ ~ Replied(r)
    /\ r \in queued => r \notin sent \union working /\ ~ Replied(r)
    /\ r \in sent => r \notin working /\ ~ Replied(r)
    /\ r \in working => ~ Replied(r)
    /\ \A m, n \in replies : m.request = r /\ n.request = r => m = n

Once == InOnePlace /\ \A r \in Requests : Travels(r) => answers[r] = 0

\* What the manager may answer again was delivered to it.
AgainFits == \A r \in again : stage[r] = "delivered"

LEMMA CallEffect ==
  ASSUME TypeOK, NEW r \in Requests, Handler!Call(r) \/ Handler!Settle(r)
  PROVE  /\ UNCHANGED answers
         /\ \A q \in Requests : stage'[q] = "delivered" <=> stage[q] = "delivered"
<1>1. stage \in [Requests -> {"unsent", "called", "delivered"} \union Handler!Refusals]
  BY DEF TypeOK, Handler!TypeOK
<1>2. CASE Handler!Call(r)
  BY <1>1, <1>2 DEF Handler!Call, Handler!Refuse
<1>3. CASE Handler!Settle(r)
  BY <1>3 DEF Handler!Settle
<1> QED  BY <1>2, <1>3

LEMMA DeliverEffect ==
  ASSUME TypeOK, NEW r \in Requests, Handler!Deliver(r)
  PROVE  /\ UNCHANGED answers
         /\ stage[r] = "called"
         /\ \A q \in Requests : q # r => stage'[q] = stage[q]
<1>1. stage \in [Requests -> {"unsent", "called", "delivered"} \union Handler!Refusals]
  BY DEF TypeOK, Handler!TypeOK
<1> QED  BY <1>1 DEF Handler!Deliver, Handler!Refuse

LEMMA AnswerEffect ==
  ASSUME TypeOK, NEW r \in Requests,
         Handler!Resolve(r) \/ Handler!Reject(r) \/ Handler!Throw(r)
  PROVE  /\ UNCHANGED stage
         /\ answers'[r] # 0
         /\ \A q \in Requests : q # r => answers'[q] = answers[q]
<1>1. answers \in [Requests -> 0 .. 2]
  BY DEF TypeOK, Handler!TypeOK
<1>2. answers' = [answers EXCEPT ![r] = answers[r] + 1] /\ UNCHANGED stage
  BY DEF Handler!Resolve, Handler!Reject, Handler!Throw, Handler!Free
<1>3. answers[r] + 1 # 0
  BY <1>1
<1> QED  BY <1>1, <1>2, <1>3

LEMMA RegistrationEffect ==
  ASSUME Handler!EreaseManager \/ UNCHANGED handler \/ \E h \in Handlers : Handler!RegisterManager(h)
  PROVE  UNCHANGED <<stage, answers>>
  BY DEF Handler!EreaseManager, Handler!RegisterManager, handler

\* Steps that lose no request, and bring none to where it was not.
LEMMA PlacesKept ==
  ASSUME TypeOK, PlacesFit, TurnFits', UNCHANGED answers,
         \A q \in Requests : stage'[q] = "delivered" <=> stage[q] = "delivered",
         \A q \in Requests : Travels(q)' => Travels(q),
         \A q \in Requests : Places(q) => Places(q)'
  PROVE  PlacesFit'
  BY DEF PlacesFit, RequestsAreSomewhere

LEMMA PlacesUnchanged ==
  ASSUME TypeOK, PlacesFit, TurnFits', UNCHANGED <<answers, queued, sent, working, replies, interrupted>>,
         \A q \in Requests : stage'[q] = "delivered" <=> stage[q] = "delivered",
         turn'.of = turn.of
  PROVE  PlacesFit' /\ (Once => Once')
<1>1. \A q \in Requests : /\ Travels(q)' <=> Travels(q)
                          /\ Places(q) <=> Places(q)'
                          /\ Replied(q)' <=> Replied(q)
  BY DEF Travels, Places, Replied
<1>2. PlacesFit'
  BY <1>1, PlacesKept
<1>3. Once => Once'
  BY <1>1 DEF Once, InOnePlace
<1> QED  BY <1>2, <1>3

LEMMA AgainStep ==
  ASSUME TypeOK, PlacesFit, AgainFits, [Next]_vars  PROVE  AgainFits'
<1>1. ASSUME again' \subseteq again,
             \A q \in Requests : stage[q] = "delivered" => stage'[q] = "delivered"
      PROVE  AgainFits'
  BY <1>1 DEF TypeOK, AgainFits
<1>2. CASE Browser \/ UNCHANGED vars
  <2>1. \A q \in Requests : stage'[q] = "delivered" <=> stage[q] = "delivered"
    BY <1>2, CallEffect DEF Browser, vars, handler
  <2>2. UNCHANGED again
    BY <1>2 DEF Browser, bridge, manager, vars
  <2> QED  BY <1>1, <2>1, <2>2
<1>3. ASSUME NEW r \in Requests, Deliver(r)  PROVE  AgainFits'
  <2>1. UNCHANGED again /\ stage[r] = "called" /\ \A q \in Requests : q # r => stage'[q] = stage[q]
    BY <1>3, DeliverEffect DEF Deliver, manager
  <2> QED  BY <1>1, <2>1
<1>4. CASE FinishDelivery \/ HandleReply
  <2>1. turn.of \subseteq Requests /\ \A m \in replies : m.request \in Requests
    BY DEF TypeOK, Turns, Replies
  <2>2. UNCHANGED stage
    BY <1>4, <2>1, AnswerEffect DEF FinishDelivery, HandleReply
  <2>3. UNCHANGED again
    BY <1>4 DEF FinishDelivery, HandleReply, manager
  <2> QED  BY <1>1, <2>2, <2>3
<1>5. CASE HandleRegister \/ FinishRegister \/ HandleUnregister \/ Shutdown
  <2>1. UNCHANGED <<stage, answers>>
    BY <1>5, RegistrationEffect DEF HandleRegister, FinishRegister, HandleUnregister, Shutdown
  <2>2. again' \subseteq again
    BY <1>5 DEF HandleRegister, FinishRegister, HandleUnregister, Shutdown, manager
  <2> QED  BY <1>1, <2>1, <2>2
<1>6. CASE HandleListen \/ HandleClose \/ Start \/ Stop \/ RegisterRequestHandler
           \/ Registered \/ UnregisterRequestHandler
           \/ \E r \in Requests : Listen(r) \/ AnswerAgain(r)
  <2>1. UNCHANGED stage /\ again' \subseteq again
    BY <1>6 DEF HandleListen, HandleClose, Start, Stop, RegisterRequestHandler, Registered,
                UnregisterRequestHandler, Listen, AnswerAgain, handler, manager
  <2> QED  BY <1>1, <2>1
<1>7. ASSUME NEW r \in Requests, Answer(r)  PROVE  AgainFits'
  <2>1. UNCHANGED stage /\ again' \subseteq again \union {r} /\ r \in working
    BY <1>7 DEF Answer, handler
  <2>2. stage[r] = "delivered"
    BY <2>1 DEF PlacesFit, Travels
  <2> QED  BY <2>1, <2>2 DEF AgainFits
<1> QED
  BY <1>2, <1>3, <1>4, <1>5, <1>6, <1>7 DEF Next, Handle

LEMMA PlacesAre ==
  /\ \A q : Places(q) <=> q \in turn.of \union queued \union sent \union working
                                   \union interrupted \/ Replied(q)
  /\ \A q : Places(q)' <=> q \in (turn.of \union queued \union sent \union working
                                   \union interrupted)' \/ Replied(q)'
  BY DEF Places, Replied

LEMMA RepliesGrow ==
  ASSUME NEW r \in Requests, NEW m, m.request = r, replies' = replies \union {m}
  PROVE  \A q \in Requests : Replied(q)' <=> Replied(q) \/ q = r
  BY DEF Replied

LEMMA PlacesStep ==
  ASSUME TypeOK, Facts!Quiet, PlacesFit, AgainFits, [Next]_vars
  PROVE  PlacesFit' /\ (Once /\ ~ repeated' => Once' /\ ~ repeated)
<1>1. CASE Browser \/ UNCHANGED vars
  <2>1. UNCHANGED answers /\ \A q \in Requests : stage'[q] = "delivered" <=> stage[q] = "delivered"
    BY <1>1, CallEffect DEF Browser, vars, handler
  <2>2. UNCHANGED <<turn, queued, sent, working, replies, interrupted, repeated>>
    BY <1>1 DEF Browser, bridge, parent, manager, vars
  <2>3. TurnFits'
    BY <2>2 DEF PlacesFit, TurnFits
  <2> QED  BY <2>1, <2>2, <2>3, PlacesUnchanged
<1>2. ASSUME NEW r \in Requests, Deliver(r)
      PROVE  PlacesFit' /\ (Once /\ ~ repeated' => Once' /\ ~ repeated)
  <2>1. /\ UNCHANGED <<answers, working, replies, interrupted, repeated>> /\ turn = NoTurn
        /\ stage[r] = "called" /\ \A q \in Requests : q # r => stage'[q] = stage[q]
    BY <1>2, DeliverEffect DEF Deliver, Idle, manager
  <2>2. ~ Travels(r)
    BY <2>1 DEF PlacesFit
  <2>3. CASE stage'[r] # "delivered" /\ UNCHANGED <<turn, queued, sent>>
    <3>1. \A q \in Requests : stage'[q] = "delivered" <=> stage[q] = "delivered"
      BY <2>1, <2>3
    <3>2. TurnFits'
      BY <2>3 DEF PlacesFit, TurnFits
    <3> QED  BY <2>1, <2>3, <3>1, <3>2, PlacesUnchanged
  <2>4. CASE stage'[r] = "delivered" /\ FireListeners(r)
    <3>1. /\ TurnFits' /\ (r \in turn'.of \union queued' \union sent')
          /\ \/ turn'.of = {r} /\ UNCHANGED <<queued, sent>>
             \/ UNCHANGED <<turn, sent>> /\ queued' = queued \union {r}
             \/ UNCHANGED <<turn, queued>> /\ sent' = sent \union {r}
      <4>1. CASE \E to \in {"reject", "throw"} : Later(r, to)
        BY <4>1 DEF Later, TurnFits
      <4>2. CASE listening # "none" /\ Fire(r)
        BY <4>2, <2>1 DEF TypeOK, Fire, TurnFits, NoTurn
      <4> QED  BY <2>4, <4>1, <4>2 DEF FireListeners
    <3>2. turn.of = {}
      BY <2>1 DEF NoTurn
    <3>3. \A q \in Requests : /\ Travels(q)' <=> Travels(q) \/ q = r
                              /\ Places(q) => Places(q)'
                              /\ Replied(q)' <=> Replied(q)
      BY <2>1, <3>1, <3>2 DEF Travels, Places, Replied
    <3>4. Places(r)'
      BY <3>1 DEF Places
    <3>5. PlacesFit'
      BY <2>1, <2>4, <3>1, <3>3, <3>4 DEF PlacesFit, RequestsAreSomewhere
    <3>6. ASSUME Once, ~ repeated'  PROVE  Once' /\ ~ repeated
      <4>1. InOnePlace'
        BY <2>1, <2>2, <3>1, <3>2, <3>3, <3>6 DEF Once, InOnePlace, Travels
      <4>2. answers[r] = 0
        BY <2>1 DEF Facts!Quiet
      <4> QED  BY <2>1, <3>3, <3>6, <4>1, <4>2 DEF Once
    <3> QED  BY <3>5, <3>6
  <2> QED  BY <1>2, <2>3, <2>4 DEF Deliver
<1>3. CASE FinishDelivery
  <2>1. PICK r \in turn.of : Handler!Reject(r) \/ Handler!Throw(r)
    BY <1>3 DEF FinishDelivery
  <2>2. turn.of = {r} /\ r \in Requests
    BY <2>1 DEF PlacesFit, TurnFits, TypeOK, Turns
  <2>3. turn' = NoTurn /\ UNCHANGED <<queued, sent, replies, working, interrupted, repeated>>
    BY <1>3 DEF FinishDelivery, manager
  <2>4. /\ UNCHANGED stage /\ answers'[r] # 0
        /\ \A q \in Requests : q # r => answers'[q] = answers[q]
    BY <2>1, <2>2, AnswerEffect
  <2> HIDE <2>1
  <2>5. \A q \in Requests : /\ Travels(q)' => Travels(q)
                            /\ q # r /\ Places(q) => Places(q)'
                            /\ Replied(q)' <=> Replied(q)
    BY <2>2, <2>3 DEF NoTurn, Travels, Places, Replied
  <2>6. PlacesFit'
    BY <2>2, <2>3, <2>4, <2>5 DEF PlacesFit, RequestsAreSomewhere, TurnFits, NoTurn
  <2>7. ASSUME Once, ~ repeated'  PROVE  Once' /\ ~ repeated
    <3>1. ~ Travels(r)'
      BY <2>2, <2>3, <2>5, <2>7 DEF Once, InOnePlace, Travels, NoTurn
    <3>2. InOnePlace'
      BY <2>2, <2>3, <2>5, <2>7 DEF Once, InOnePlace, NoTurn
    <3> QED  BY <2>3, <2>4, <2>5, <2>7, <3>1, <3>2 DEF Once
  <2> QED  BY <2>6, <2>7
<1>4. CASE HandleReply
  <2>1. PICK m \in replies : /\ Handler!Resolve(m.request) \/ Handler!Reject(m.request)
                             /\ replies' = replies \ {m}
    BY <1>4 DEF HandleReply
  <2> PICK r \in Requests : r = m.request
    BY DEF TypeOK, Replies
  <2>3. UNCHANGED <<turn, queued, sent, working, interrupted, repeated>>
    BY <1>4 DEF HandleReply, parent, manager
  <2>4. /\ UNCHANGED stage /\ answers'[r] # 0
        /\ \A q \in Requests : q # r => answers'[q] = answers[q]
    BY <2>1, AnswerEffect
  <2>5. m \in replies /\ m.request = r /\ replies' = replies \ {m}
    BY <2>1
  <2> HIDE <2>1
  <2>6. \A q \in Requests : /\ Travels(q)' => Travels(q)
                            /\ q # r /\ Places(q) => Places(q)'
                            /\ Replied(q)' => Replied(q)
    BY <2>3, <2>5 DEF Travels, Places, Replied
  <2>7. PlacesFit'
    BY <2>3, <2>4, <2>6 DEF PlacesFit, RequestsAreSomewhere, TurnFits
  <2>8. ASSUME Once, ~ repeated'  PROVE  Once' /\ ~ repeated
    <3>1. Replied(r) /\ ~ Replied(r)'
      BY <2>5, <2>8 DEF Once, InOnePlace, Replied
    <3>2. ~ Travels(r)'
      BY <2>3, <2>8, <3>1 DEF Once, InOnePlace, Travels
    <3>3. InOnePlace'
      BY <2>3, <2>5, <2>6, <2>8 DEF Once, InOnePlace
    <3> QED  BY <2>3, <2>4, <2>6, <2>8, <3>2, <3>3 DEF Once
  <2> QED  BY <2>7, <2>8
<1>5. CASE HandleListen
  <2>1. /\ sent' = sent \union queued /\ queued' = {}
        /\ UNCHANGED <<stage, answers, turn, working, replies, interrupted, repeated>>
    BY <1>5 DEF HandleListen, handler, manager
  <2>2. \A q \in Requests : /\ Travels(q)' <=> Travels(q)
                            /\ Places(q) => Places(q)'
                            /\ Replied(q)' <=> Replied(q)
    BY <2>1 DEF Travels, Places, Replied
  <2>3. PlacesFit'
    BY <2>1, <2>2, PlacesKept DEF PlacesFit, TurnFits
  <2>4. Once => Once'
    BY <2>1, <2>2 DEF Once, InOnePlace
  <2> QED  BY <2>1, <2>3, <2>4
<1>6. CASE HandleRegister \/ FinishRegister \/ HandleUnregister
  <2>1. UNCHANGED <<stage, answers>>
    BY <1>6, RegistrationEffect DEF HandleRegister, FinishRegister, HandleUnregister
  <2>2. UNCHANGED <<queued, sent, working, replies, interrupted, repeated>>
    BY <1>6 DEF HandleRegister, FinishRegister, HandleUnregister, manager
  <2>3. turn'.of = turn.of /\ TurnFits'
    BY <1>6 DEF HandleRegister, FinishRegister, HandleUnregister, Idle, NoTurn, parent,
                PlacesFit, TurnFits
  <2> QED  BY <2>1, <2>2, <2>3, PlacesUnchanged
<1>7. CASE HandleClose
  <2>1. /\ sent' = {} /\ interrupted' = interrupted \union sent
        /\ UNCHANGED <<stage, answers, turn, queued, working, replies, repeated>>
    BY <1>7 DEF HandleClose, handler
  <2>2. \A q \in Requests : /\ Travels(q)' => Travels(q)
                            /\ Places(q) => Places(q)'
                            /\ Replied(q)' <=> Replied(q)
    BY <2>1 DEF Travels, Places, Replied
  <2>3. PlacesFit'
    BY <2>1, <2>2, PlacesKept DEF PlacesFit, TurnFits
  <2>4. Once => Once'
    BY <2>1, <2>2 DEF Once, InOnePlace
  <2> QED  BY <2>1, <2>3, <2>4
<1>8. CASE Shutdown
  <2>1. /\ queued' = {} /\ sent' = {} /\ working' = {} /\ replies' = {}
        /\ interrupted' = interrupted \union queued \union sent \union working
                            \union {m.request : m \in replies}
        /\ UNCHANGED <<turn, repeated>>
    BY <1>8 DEF Shutdown
  <2>2. UNCHANGED <<stage, answers>>
    BY <1>8, RegistrationEffect DEF Shutdown
  <2>3. \A q \in Requests : /\ Travels(q)' => Travels(q)
                            /\ Places(q) => Places(q)'
                            /\ ~ Replied(q)'
    BY <2>1 DEF Travels, Places, Replied
  <2>4. PlacesFit'
    BY <2>1, <2>2, <2>3, PlacesKept DEF PlacesFit, TurnFits
  <2>5. Once => Once'
    BY <2>1, <2>2, <2>3 DEF Once, InOnePlace
  <2> QED  BY <2>1, <2>4, <2>5
<1>9. CASE Start \/ RegisterRequestHandler \/ Registered \/ UnregisterRequestHandler
  <2>1. UNCHANGED <<stage, answers, turn, queued, sent, working, replies, interrupted, repeated>>
    BY <1>9 DEF Start, RegisterRequestHandler, Registered, UnregisterRequestHandler, handler,
                parent, manager
  <2>2. TurnFits'
    BY <2>1 DEF PlacesFit, TurnFits
  <2> QED  BY <2>1, <2>2, PlacesUnchanged
<1>10. CASE Stop
  <2>1. /\ working' \in SUBSET working /\ interrupted' = interrupted \union (working \ working')
        /\ UNCHANGED <<stage, answers, turn, queued, sent, replies, repeated>>
    BY <1>10 DEF Stop, handler, parent
  <2>2. \A q \in Requests : /\ Travels(q)' => Travels(q)
                            /\ Places(q) => Places(q)'
                            /\ Replied(q)' <=> Replied(q)
    BY <2>1 DEF Travels, Places, Replied
  <2>3. PlacesFit'
    BY <2>1, <2>2, PlacesKept DEF PlacesFit, TurnFits
  <2>4. Once => Once'
    BY <2>1, <2>2 DEF Once, InOnePlace
  <2> QED  BY <2>1, <2>3, <2>4
<1>11. ASSUME NEW r \in Requests, Listen(r)
       PROVE  PlacesFit' /\ (Once /\ ~ repeated' => Once' /\ ~ repeated)
  <2>1. /\ r \in sent /\ sent' = sent \ {r} /\ working' = working \union {r}
        /\ UNCHANGED <<stage, answers, turn, queued, replies, interrupted, repeated>>
    BY <1>11 DEF Listen, handler, parent
  <2>2. \A q \in Requests : /\ Travels(q)' <=> Travels(q)
                            /\ Places(q) => Places(q)'
                            /\ Replied(q)' <=> Replied(q)
    BY <2>1 DEF Travels, Places, Replied
  <2>3. PlacesFit'
    BY <2>1, <2>2, PlacesKept DEF PlacesFit, TurnFits
  <2>4. Once => Once'
    BY <2>1, <2>2 DEF Once, InOnePlace
  <2> QED  BY <2>1, <2>3, <2>4
<1>12. ASSUME NEW r \in Requests, Answer(r)
       PROVE  PlacesFit' /\ (Once /\ ~ repeated' => Once' /\ ~ repeated)
  <2>1. PICK how \in {"resolve", "reject"} :
            replies' = replies \union {[request |-> r, how |-> how]}
    BY <1>12 DEF Answer
  <2>2. /\ r \in working /\ working' = working \ {r}
        /\ UNCHANGED <<stage, answers, turn, queued, sent, interrupted, repeated>>
    BY <1>12 DEF Answer, handler, parent
  <2>0. \A q \in Requests : Replied(q)' <=> Replied(q) \/ q = r
    <3>1. PICK m : m = [request |-> r, how |-> how]
      OBVIOUS
    <3>2. m.request = r /\ replies' = replies \union {m}
      BY <2>1, <3>1
    <3> QED  BY <3>2, RepliesGrow
  <2>3. \A q \in Requests : /\ Replied(q)' <=> Replied(q) \/ q = r
                            /\ Travels(q)' <=> Travels(q)
                            /\ Places(q) => Places(q)'
    BY <2>0, <2>2, PlacesAre DEF Travels
  <2>4. PlacesFit'
    BY <2>2, <2>3, PlacesKept DEF PlacesFit, TurnFits
  <2>5. ASSUME Once  PROVE  Once'
    <3>1. ~ Replied(r)
      BY <2>2, <2>5 DEF Once, InOnePlace
    <3>2. \A q \in Requests : \A m, n \in replies' : m.request = q /\ n.request = q => m = n
      BY <2>1, <2>5, <3>1 DEF Once, InOnePlace, Replied
    <3>3. InOnePlace'
      BY <2>2, <2>3, <2>5, <3>2 DEF Once, InOnePlace
    <3> QED  BY <2>2, <2>3, <2>5, <3>3 DEF Once
  <2> QED  BY <2>2, <2>4, <2>5
<1>13. ASSUME NEW r \in Requests, AnswerAgain(r)
       PROVE  PlacesFit' /\ (Once /\ ~ repeated' => Once' /\ ~ repeated)
  <2>1. /\ replies' = replies \union {[request |-> r, how |-> "reject"]} /\ repeated'
        /\ UNCHANGED <<stage, answers, turn, queued, sent, working, interrupted>>
    BY <1>13 DEF AnswerAgain, handler, parent
  <2>2. stage[r] = "delivered"
    BY <1>13 DEF AnswerAgain, AgainFits
  <2>0. \A q \in Requests : Replied(q)' <=> Replied(q) \/ q = r
    <3>1. PICK m : m = [request |-> r, how |-> "reject"]
      OBVIOUS
    <3>2. m.request = r /\ replies' = replies \union {m}
      BY <2>1, <3>1
    <3> QED  BY <3>2, RepliesGrow
  <2>3. \A q \in Requests : /\ Travels(q)' <=> Travels(q) \/ q = r
                            /\ Places(q) => Places(q)'
    BY <2>0, <2>1, PlacesAre DEF Travels
  <2>4. PlacesFit'
    BY <2>1, <2>2, <2>3 DEF PlacesFit, TurnFits, RequestsAreSomewhere
  <2> QED  BY <2>1, <2>4
<1> QED
  BY <1>1, <1>2, <1>3, <1>4, <1>5, <1>6, <1>7, <1>8, <1>9, <1>10, <1>11, <1>12, <1>13
  DEF Next, Handle

-----------------------------------------------------------------------------
(***************************************************************************)
(* The theorems                                                            *)
(***************************************************************************)
Inv ==
  /\ TypeOK
  /\ Facts!Quiet
  /\ CallsAreInOrder
  /\ RegistrationsFit
  /\ PlacesFit
  /\ AgainFits
  /\ ~ repeated => Once /\ Facts!OneAtATime /\ Facts!BusyWhileServing

\* Only a request that is on its way, or worked on, is answered.
LEMMA AnswersTravel ==
  ASSUME TypeOK, [Next]_vars, NEW r \in Requests, answers'[r] # answers[r]
  PROVE  Travels(r)
<1>1. answers' # answers
  OBVIOUS
<1>2. CASE Browser \/ UNCHANGED vars
  BY <1>1, <1>2, CallEffect DEF Browser, vars, handler
<1>3. ASSUME NEW q \in Requests, Deliver(q)  PROVE  FALSE
  BY <1>1, <1>3, DeliverEffect DEF Deliver
<1>4. CASE FinishDelivery
  <2>1. PICK q \in turn.of : Handler!Reject(q) \/ Handler!Throw(q)
    BY <1>4 DEF FinishDelivery
  <2>2. q \in Requests
    BY DEF TypeOK, Turns
  <2>3. q = r
    BY <2>1, <2>2, AnswerEffect
  <2> QED  BY <2>3 DEF Travels
<1>5. CASE HandleReply
  <2>1. PICK m \in replies : Handler!Resolve(m.request) \/ Handler!Reject(m.request)
    BY <1>5 DEF HandleReply
  <2>2. m.request \in Requests
    BY DEF TypeOK, Replies
  <2>3. m.request = r
    BY <2>1, <2>2, AnswerEffect
  <2> QED  BY <2>3 DEF Travels, Replied
<1>6. CASE HandleRegister \/ FinishRegister \/ HandleUnregister \/ Shutdown
  BY <1>1, <1>6, RegistrationEffect DEF HandleRegister, FinishRegister, HandleUnregister, Shutdown
<1>7. CASE HandleListen \/ HandleClose \/ Start \/ Stop \/ RegisterRequestHandler
           \/ Registered \/ UnregisterRequestHandler
           \/ \E q \in Requests : Listen(q) \/ Answer(q) \/ AnswerAgain(q)
  BY <1>1, <1>7 DEF HandleListen, HandleClose, Start, Stop, RegisterRequestHandler, Registered,
                    UnregisterRequestHandler, Listen, Answer, AnswerAgain, handler
<1> QED  BY <1>2, <1>3, <1>4, <1>5, <1>6, <1>7 DEF Next, Handle

LEMMA InitInv == Init => Inv
<1> SUFFICES ASSUME Init  PROVE  Inv
  OBVIOUS
<1>1. Facts!SequentialInv
  BY Facts!InitSequential, SameState, SameAssumptions DEF Init
<1>2. InOrder(<<>>) /\ \A call : ~ Has(<<>>, call)
  BY DEF InOrder, Has
<1>3. CallsAreInOrder /\ RegistrationsFit
  BY <1>2 DEF Init, NoTurn, CallsAreInOrder, RegistrationsFit
<1>4. \A r \in Requests : stage[r] = "unsent" /\ ~ Travels(r) /\ ~ Replied(r)
  BY DEF Init, NoTurn, Handler!Init, Travels, Replied
<1>5. PlacesFit /\ AgainFits /\ Once
  BY <1>4 DEF Init, NoTurn, PlacesFit, TurnFits, RequestsAreSomewhere, AgainFits, Once, InOnePlace
<1> QED  BY <1>1, <1>3, <1>5, InitTypeOK DEF Inv, Facts!SequentialInv

LEMMA NextInv == Inv /\ [Next]_vars => Inv'
<1> SUFFICES ASSUME Inv, [Next]_vars  PROVE  Inv'
  OBVIOUS
<1>1. TypeOK' /\ [Facts!Next]_Facts!vars
  BY NextTypeOK, HandlerStep DEF Inv
<1>2. Facts!TypeOK
  BY SameState DEF Inv, TypeOK
<1>3. Facts!Quiet'
  <2>1. CASE Facts!Next
    BY <1>2, <2>1, Facts!QuietStep, SameAssumptions DEF Inv
  <2>2. CASE UNCHANGED Facts!vars
    BY <2>2 DEF Inv, Facts!vars, Facts!Quiet
  <2> QED  BY <1>1, <2>1, <2>2
<1>4. CallsAreInOrder' /\ RegistrationsFit'
  BY RegistrationStep DEF Inv
<1>5. PlacesFit' /\ AgainFits' /\ (Once /\ ~ repeated' => Once' /\ ~ repeated)
  BY PlacesStep, AgainStep DEF Inv
<1>6. ~ repeated' => ~ repeated
  BY DEF Next, Handle, Browser, FinishDelivery, HandleReply, HandleListen, HandleRegister,
         FinishRegister, HandleUnregister, HandleClose, Shutdown, Start, Stop,
         RegisterRequestHandler, Registered, UnregisterRequestHandler, Deliver, Listen, Answer,
         AnswerAgain, vars, bridge, manager
<1>7. ASSUME ~ repeated'  PROVE  Once' /\ Facts!OneAtATime' /\ Facts!BusyWhileServing'
  <2>1. Once /\ Facts!SequentialInv
    BY <1>2, <1>6, <1>7 DEF Inv, Facts!SequentialInv
  <2>2. \A r \in Requests : Facts!Answer(r) => answers[r] = 0
    <3>1. answers \in [Requests -> 0 .. 2]
      BY DEF Inv, TypeOK, Handler!TypeOK
    <3>2. \A r \in Requests : answers'[r] # answers[r] => answers[r] = 0
      BY <2>1, AnswersTravel DEF Inv, Once
    <3>3. \A r \in Requests : Facts!Answer(r) => answers' = [answers EXCEPT ![r] = answers[r] + 1]
      BY DEF Facts!Answer, Facts!Resolve, Facts!Reject, Facts!Throw, Facts!Free
    <3> QED  BY <3>1, <3>2, <3>3
  <2>3. Facts!SequentialInv'
    BY <1>1, <2>1, <2>2, Facts!SequentialStep, SameAssumptions
  <2> QED  BY <1>5, <1>7, <2>1, <2>3 DEF Facts!SequentialInv
<1> QED  BY <1>1, <1>3, <1>4, <1>5, <1>7 DEF Inv

\* Wherever a request is when the background page stops and registers again,
\* both halves of the bridge (ext-berytus.js of the parent and of the child)
\* know of it, and its handler is busy just while it is served, until a manager
\* answers it twice.
THEOREM BridgeStaysSound == Spec => []BridgeInv
<1>1. Inv => BridgeInv
  BY SameState DEF Inv, BridgeInv, BusyWhileServing, PlacesFit, RegistrationsFit, RegistrationIsKnown
<1> QED  BY <1>1, InitInv, NextInv, PTL DEF Spec

\* The bridge only does to the request handler what a manager in its own
\* process could do: what is proved of RequestHandler holds behind the bridge.
THEOREM BridgeRunsTheHandler == Spec => Handler!Spec
<1>1. Init => Handler!Init
  BY DEF Init
<1>2. TypeOK /\ [Next]_vars => [Handler!Next]_Handler!vars
  <2>1. \A r \in Requests : Facts!Answer(r) = Handler!Answer(r)
    BY SameAnswers DEF Facts!Answer, Handler!Answer, Facts!MayAnswer, Handler!MayAnswer
  <2>2. Facts!Next => Handler!Next
    BY <2>1, SameCalls, SameDelivery, SameRegistrations DEF Facts!Next, Handler!Next
  <2>3. UNCHANGED Facts!vars => UNCHANGED Handler!vars
    BY DEF Facts!vars, Facts!liaison, Facts!handler, Handler!vars, Handler!liaison, Handler!handler
  <2> QED  BY <2>2, <2>3, HandlerStep
<1> QED  BY <1>1, <1>2, InitTypeOK, NextTypeOK, PTL DEF Spec, Handler!Spec
=============================================================================
