------------------------ MODULE RequestHandlerProofs ------------------------
(***************************************************************************)
(* What holds of the RequestHandler module for any number of registrations,*)
(* requests, fields and challenges.                                        *)
(***************************************************************************)
EXTENDS RequestHandler, TLAPS

AnswersOnce == "answers twice" \notin Misbehaviours

Conforming == Misbehaviours = {}

LEMMA InitTypeOK == Init => TypeOK
  BY HandlersAssumption DEF Init, TypeOK, Refusals

\* The two ways a call may go.
LEMMA CallCases ==
  ASSUME TypeOK, NEW r \in Requests, Call(r)
  PROVE  /\ stage[r] = "unsent"
         /\ UNCHANGED <<current, spent, fields, counter, answers, settling>>
         /\ \/ /\ \E reason \in {"no manager", "busy"} : Refuse(r, reason)
               /\ \E h \in Handlers \union {NoHandler} : via' = [via EXCEPT ![r] = h]
               /\ UNCHANGED busy
            \/ /\ current \in Handlers /\ busy[current] = FALSE
               /\ busy' = [busy EXCEPT ![current] = TRUE]
               /\ via' = [via EXCEPT ![r] = current]
               /\ stage' = [stage EXCEPT ![r] = "called"]
               /\ UNCHANGED reply
<1>1. current \in Handlers \union {NoHandler} /\ busy \in [Handlers -> BOOLEAN]
  BY DEF TypeOK
<1>2. stage[r] = "unsent" /\ UNCHANGED <<current, spent, fields, counter, answers, settling>>
  BY DEF Call, liaison
<1>3. CASE current = NoHandler
  <2>1. Refuse(r, "no manager") /\ UNCHANGED <<busy, via>>
    BY <1>3 DEF Call
  <2>2. via \in [Requests -> Handlers \union {NoHandler}]
    BY DEF TypeOK
  <2>3. via' = [via EXCEPT ![r] = via[r]] /\ via[r] \in Handlers \union {NoHandler}
    BY <2>1, <2>2
  <2> QED  BY <1>2, <2>1, <2>3
<1>4. CASE current # NoHandler /\ busy[current]
  BY <1>1, <1>2, <1>4 DEF Call
<1>5. CASE current # NoHandler /\ ~ busy[current]
  BY <1>1, <1>2, <1>5 DEF Call
<1> QED  BY <1>3, <1>4, <1>5

LEMMA CallTypeOK ==
  ASSUME TypeOK, NEW r \in Requests, Call(r)  PROVE  TypeOK'
<1>1. CASE /\ \E reason \in {"no manager", "busy"} : Refuse(r, reason)
           /\ \E h \in Handlers \union {NoHandler} : via' = [via EXCEPT ![r] = h]
           /\ UNCHANGED busy
  <2>1. PICK h \in Handlers \union {NoHandler} : via' = [via EXCEPT ![r] = h]
    BY <1>1
  <2>2. PICK reason \in {"no manager", "busy"} : Refuse(r, reason)
    BY <1>1
  <2>3. UNCHANGED <<current, spent, fields, counter, answers, settling, busy>>
    BY <1>1, CallCases
  <2>4. stage' \in [Requests -> {"unsent", "called", "delivered"} \union Refusals]
    BY <2>2 DEF TypeOK, Refuse, Refusals
  <2>5. reply' \in [Requests -> {"none", "resolved", "rejected"}]
    BY <2>2 DEF TypeOK, Refuse
  <2>6. via' \in [Requests -> Handlers \union {NoHandler}]
    BY <2>1 DEF TypeOK
  <2>7. \A q \in Requests : stage'[q] \in {"called", "delivered"} => via'[q] \in Handlers
    BY <2>1, <2>2 DEF TypeOK, Refuse
  <2> QED  BY <2>3, <2>4, <2>5, <2>6, <2>7 DEF TypeOK
<1>2. CASE /\ current \in Handlers /\ busy[current] = FALSE
           /\ busy' = [busy EXCEPT ![current] = TRUE]
           /\ via' = [via EXCEPT ![r] = current]
           /\ stage' = [stage EXCEPT ![r] = "called"]
           /\ UNCHANGED reply
  BY <1>2, CallCases DEF TypeOK
<1> QED  BY <1>1, <1>2, CallCases

LEMMA RefusalType ==
  ASSUME NEW h, NEW a  PROVE  Refusal(h, a) \in Refusals \union {"none"}
  BY DEF Refusal, Refusals

LEMMA DeliverTypeOK ==
  ASSUME TypeOK, NEW r \in Requests, Deliver(r)  PROVE  TypeOK'
<1>1. via[r] \in Handlers
  BY DEF TypeOK, Deliver
<1>2. CASE \E reason \in {"malformed", Refusal(via[r], Ask[r])} \ {"none"} :
              /\ Refuse(r, reason)
              /\ busy' = [busy EXCEPT ![via[r]] = FALSE]
              /\ UNCHANGED <<fields, counter>>
  <2>1. PICK reason \in Refusals :
              /\ Refuse(r, reason)
              /\ busy' = [busy EXCEPT ![via[r]] = FALSE]
              /\ UNCHANGED <<fields, counter>>
    BY <1>2, RefusalType DEF Refusals
  <2>2. UNCHANGED <<current, spent, via, answers, settling>>
    BY DEF Deliver, liaison
  <2>3. \A q \in Requests : stage'[q] \in {"called", "delivered"} => via'[q] \in Handlers
    BY <2>1, <2>2 DEF TypeOK, Refuse, Refusals
  <2>4. stage' \in [Requests -> {"unsent", "called", "delivered"} \union Refusals]
    BY <2>1 DEF TypeOK, Refuse
  <2> QED  BY <1>1, <2>1, <2>2, <2>3, <2>4 DEF TypeOK, Refuse
<1>3. CASE /\ Consume(via[r], Ask[r])
           /\ stage' = [stage EXCEPT ![r] = "delivered"]
           /\ UNCHANGED <<busy, reply>>
  <2>1. Ask[r] \in AddField => Ask[r].field \in Fields
    BY DEF AddField
  <2>2. Ask[r] \in RespondToChallengeMessage => Ask[r].challenge \in Challenges
    BY DEF RespondToChallengeMessage
  <2>3. fields' \in [Handlers -> SUBSET Fields]
    BY <1>1, <1>3, <2>1 DEF TypeOK, Consume
  <2>4. counter' \in [Handlers -> [Challenges -> Int]]
    BY <1>1, <1>3, <2>2 DEF TypeOK, Consume
  <2>5. UNCHANGED <<current, spent, via, answers, settling, busy, reply>>
    BY <1>3 DEF Deliver, liaison
  <2> QED  BY <1>1, <1>3, <2>3, <2>4, <2>5 DEF TypeOK
<1> QED  BY <1>2, <1>3 DEF Deliver, SchemaVerdicts

LEMMA FreeTypeOK ==
  ASSUME TypeOK, NEW r \in Requests, Free(r)
  PROVE  /\ via[r] \in Handlers
         /\ answers' \in [Requests -> 0 .. 2]
         /\ busy' \in [Handlers -> BOOLEAN]
<1>1. via[r] \in Handlers
  BY DEF TypeOK, Free, MayAnswer
<1>2. answers[r] = 0 \/ answers[r] = 1
  BY DEF Free, MayAnswer
<1>3. answers[r] + 1 \in 0 .. 2
  BY <1>2
<1> QED  BY <1>1, <1>3 DEF TypeOK, Free

LEMMA AnswerTypeOK ==
  ASSUME TypeOK, NEW r \in Requests, Answer(r)  PROVE  TypeOK'
<1>1. Free(r) /\ UNCHANGED <<current, spent, via, stage>>
  BY DEF Answer, Resolve, Reject, Throw, liaison
<1>2. CASE Resolve(r)
  <2>1. PICK outcome \in {"resolved", "rejected"} :
              settling' = [settling EXCEPT ![r] = @ \union {outcome}]
    BY <1>2 DEF Resolve, Await
  <2>2. settling' \in [Requests -> SUBSET {"resolved", "rejected"}]
    <3>1. settling \in [Requests -> SUBSET {"resolved", "rejected"}]
      BY DEF TypeOK
    <3>2. settling[r] \union {outcome} \in SUBSET {"resolved", "rejected"}
      BY <3>1
    <3> QED  BY <2>1, <3>1, <3>2
  <2> QED  BY <1>1, <1>2, <2>2, FreeTypeOK DEF TypeOK, Resolve
<1>3. CASE Reject(r)
  <2>1. Ask[r] \in RespondToChallengeMessage => Ask[r].challenge \in Challenges
    BY DEF RespondToChallengeMessage
  <2>2. fields' \in [Handlers -> SUBSET Fields]
    BY <1>3, FreeTypeOK DEF TypeOK, Reject, Rollback
  <2>3. counter' \in [Handlers -> [Challenges -> Int]]
    BY <1>1, <1>3, <2>1, FreeTypeOK DEF TypeOK, Reject, Rollback
  <2> QED  BY <1>1, <1>3, <2>2, <2>3, FreeTypeOK DEF TypeOK, Reject, Await
<1>4. CASE Throw(r)
  BY <1>1, <1>4, FreeTypeOK DEF TypeOK, Throw, Settled
<1> QED  BY <1>2, <1>3, <1>4 DEF Answer

LEMMA SettleTypeOK ==
  ASSUME TypeOK, NEW r \in Requests, Settle(r)  PROVE  TypeOK'
  BY DEF TypeOK, Settle, Settled, liaison, handler

LEMMA NextTypeOK == TypeOK /\ [Next]_vars => TypeOK'
<1> SUFFICES ASSUME TypeOK, [Next]_vars  PROVE  TypeOK'
  OBVIOUS
<1>1. ASSUME NEW h \in Handlers, RegisterManager(h)  PROVE  TypeOK'
  BY <1>1 DEF TypeOK, RegisterManager, handler
<1>2. CASE EreaseManager
  BY <1>2 DEF TypeOK, EreaseManager, handler
<1>3. CASE UNCHANGED vars
  BY <1>3 DEF TypeOK, vars, liaison, handler
<1> QED
  BY <1>1, <1>2, <1>3, CallTypeOK, DeliverTypeOK, AnswerTypeOK, SettleTypeOK DEF Next

\* The Liaison's and the handlers' tables, and the requests in flight, keep
\* their types; a request is only let in with a handler it went to.
THEOREM TypeCorrect == Spec => []TypeOK
  BY InitTypeOK, NextTypeOK, PTL DEF Spec

-----------------------------------------------------------------------------
(***************************************************************************)
(* One request at a time, for a manager that answers a request once.       *)
(***************************************************************************)
\* Only what was delivered is answered.
Quiet ==
  \A r \in Requests : stage[r] # "delivered" => answers[r] = 0 /\ settling[r] = {}

SequentialInv == TypeOK /\ Quiet /\ OneAtATime /\ BusyWhileServing

LEMMA InitSequential == Init => SequentialInv
<1> SUFFICES ASSUME Init  PROVE  SequentialInv
  OBVIOUS
<1>1. \A h \in Handlers : Serving(h) = {}
  BY DEF Init, Serving
<1> QED  BY <1>1, InitTypeOK DEF Init, SequentialInv, Quiet, OneAtATime, BusyWhileServing

LEMMA QuietStep ==
  ASSUME TypeOK, Quiet, Next  PROVE  Quiet'
<1>1. ASSUME NEW r \in Requests, Call(r)  PROVE  Quiet'
  <2>1. UNCHANGED <<answers, settling>> /\ \A q \in Requests : stage'[q] # "delivered" => stage[q] # "delivered"
    BY <1>1, CallCases DEF TypeOK, Refuse
  <2> QED  BY <2>1 DEF Quiet
<1>2. ASSUME NEW r \in Requests, Deliver(r)  PROVE  Quiet'
  <2>1. UNCHANGED <<answers, settling>> /\ stage[r] = "called"
    BY <1>2 DEF Deliver
  <2>2. \A q \in Requests : q # r => stage'[q] = stage[q]
    BY <1>2 DEF TypeOK, Deliver, Refuse
  <2> QED  BY <2>1, <2>2 DEF Quiet
<1>3. ASSUME NEW r \in Requests, Answer(r)  PROVE  Quiet'
  <2>1. UNCHANGED stage /\ stage[r] = "delivered"
    BY <1>3 DEF Answer, Resolve, Reject, Throw, Free, MayAnswer
  <2>2. \A q \in Requests : q # r => answers'[q] = answers[q] /\ settling'[q] = settling[q]
    BY <1>3 DEF TypeOK, Answer, Resolve, Reject, Throw, Free, Await
  <2> QED  BY <2>1, <2>2 DEF Quiet
<1>4. ASSUME NEW r \in Requests, Settle(r)  PROVE  Quiet'
  BY <1>4 DEF Quiet, TypeOK, Settle
<1>5. CASE EreaseManager \/ \E h \in Handlers : RegisterManager(h)
  BY <1>5 DEF Quiet, EreaseManager, RegisterManager
<1> QED  BY <1>1, <1>2, <1>3, <1>4, <1>5 DEF Next

\* A step that leaves a request where it is does not change what is served.
LEMMA ServingUnchanged ==
  ASSUME NEW h \in Handlers,
         \A r \in Requests : (r \in Serving(h))' <=> r \in Serving(h)
  PROVE  Serving(h)' = Serving(h)
  BY DEF Serving

LEMMA CallSequential ==
  ASSUME SequentialInv, NEW r \in Requests, Call(r)
  PROVE  OneAtATime' /\ BusyWhileServing'
<1> USE DEF SequentialInv
<1>1. CASE /\ \E reason \in {"no manager", "busy"} : Refuse(r, reason)
           /\ \E h \in Handlers \union {NoHandler} : via' = [via EXCEPT ![r] = h]
           /\ UNCHANGED busy
  <2>1. stage[r] = "unsent" /\ UNCHANGED answers
    BY CallCases
  <2>2. stage'[r] \notin {"called", "delivered"}
    BY <1>1 DEF TypeOK, Refuse
  <2>3. \A q \in Requests : q # r => stage'[q] = stage[q] /\ via'[q] = via[q]
    BY <1>1 DEF TypeOK, Refuse
  <2>4. \A h \in Handlers : Serving(h)' = Serving(h)
    BY <2>1, <2>2, <2>3 DEF Serving
  <2> QED  BY <1>1, <2>4 DEF OneAtATime, BusyWhileServing
<1>2. CASE /\ current \in Handlers /\ busy[current] = FALSE
           /\ busy' = [busy EXCEPT ![current] = TRUE]
           /\ via' = [via EXCEPT ![r] = current]
           /\ stage' = [stage EXCEPT ![r] = "called"]
           /\ UNCHANGED reply
  <2> PICK g \in Handlers : g = current
    BY <1>2
  <2>1. stage[r] = "unsent" /\ answers'[r] = 0
    BY CallCases DEF Quiet
  <2>2. \A q \in Requests : q # r => stage'[q] = stage[q] /\ via'[q] = via[q] /\ answers'[q] = answers[q]
    BY <1>2, CallCases DEF TypeOK
  <2>3. stage'[r] = "called" /\ via'[r] = g
    BY <1>2 DEF TypeOK
  <2>4. Serving(g) = {}
    BY <1>2 DEF BusyWhileServing
  <2>5. Serving(g)' = {r}
    BY <2>1, <2>2, <2>3, <2>4 DEF Serving
  <2>6. \A h \in Handlers : h # g => Serving(h)' = Serving(h)
    BY <2>1, <2>2, <2>3 DEF Serving
  <2>7. \A h \in Handlers : h # g => busy'[h] = busy[h]
    BY <1>2 DEF TypeOK
  <2>8. busy'[g] = TRUE
    BY <1>2 DEF TypeOK
  <2> QED  BY <2>5, <2>6, <2>7, <2>8 DEF OneAtATime, BusyWhileServing
<1> QED  BY <1>1, <1>2, CallCases

LEMMA DeliverSequential ==
  ASSUME SequentialInv, NEW r \in Requests, Deliver(r)
  PROVE  OneAtATime' /\ BusyWhileServing'
<1> USE DEF SequentialInv
<1> PICK g \in Handlers : g = via[r]
  BY DEF TypeOK, Deliver
<1>1. stage[r] = "called" /\ UNCHANGED <<via, answers>>
  BY DEF Deliver
<1>2. r \in Serving(g) /\ \A q \in Serving(g) : q = r
  BY <1>1 DEF Quiet, Serving, OneAtATime
<1>3. \A q \in Requests : q # r => stage'[q] = stage[q]
  BY DEF TypeOK, Deliver, Refuse
<1>4. \A h \in Handlers : h # g => Serving(h)' = Serving(h)
  BY <1>1, <1>3 DEF Serving
<1>5. CASE \E reason \in {"malformed", Refusal(g, Ask[r])} \ {"none"} :
              /\ Refuse(r, reason)
              /\ busy' = [busy EXCEPT ![g] = FALSE]
  <2>0. PICK reason \in Refusals : Refuse(r, reason)
    BY <1>5, RefusalType DEF Refusals
  <2>1. stage'[r] \notin {"called", "delivered"}
    BY <2>0 DEF TypeOK, Refuse, Refusals
  <2>2. Serving(g)' = {}
    BY <1>1, <1>2, <1>3, <2>1 DEF Serving
  <2>3. busy'[g] = FALSE /\ \A h \in Handlers : h # g => busy'[h] = busy[h]
    BY <1>5 DEF TypeOK
  <2> QED  BY <1>4, <2>2, <2>3 DEF OneAtATime, BusyWhileServing
<1>6. CASE stage' = [stage EXCEPT ![r] = "delivered"] /\ UNCHANGED busy
  <2>1. stage'[r] = "delivered"
    BY <1>6 DEF TypeOK
  <2>2. Serving(g)' = Serving(g)
    BY <1>1, <1>2, <1>3, <2>1 DEF Serving
  <2> QED  BY <1>4, <1>6, <2>2 DEF OneAtATime, BusyWhileServing
<1> QED  BY <1>5, <1>6 DEF Deliver, SchemaVerdicts

\* The answer to a request ends it, and it was the only one.
LEMMA FreeServing ==
  ASSUME SequentialInv, NEW r \in Requests, answers[r] = 0, Free(r), UNCHANGED <<via, stage>>,
         NEW g \in Handlers, g = via[r]
  PROVE  /\ r \in Serving(g) /\ \A q \in Serving(g) : q = r
         /\ Serving(g)' = {}
         /\ \A h \in Handlers : h # g => Serving(h)' = Serving(h)
         /\ busy'[g] = FALSE /\ \A h \in Handlers : h # g => busy'[h] = busy[h]
<1> USE DEF SequentialInv
<1>1. stage[r] = "delivered" /\ answers[r] = 0
  BY DEF Free, MayAnswer
<1>2. r \in Serving(g) /\ \A q \in Serving(g) : q = r
  BY <1>1 DEF Serving, OneAtATime
<1>3. answers'[r] = 1 /\ \A q \in Requests : q # r => answers'[q] = answers[q]
  BY <1>1 DEF TypeOK, Free
<1>4. Serving(g)' = {}
  BY <1>2, <1>3 DEF Serving
<1>5. \A h \in Handlers : h # g => Serving(h)' = Serving(h)
  BY <1>3 DEF Serving
<1>6. busy'[g] = FALSE /\ \A h \in Handlers : h # g => busy'[h] = busy[h]
  BY DEF TypeOK, Free
<1> QED  BY <1>2, <1>4, <1>5, <1>6

LEMMA AnswerSequential ==
  ASSUME SequentialInv, NEW r \in Requests, answers[r] = 0, Answer(r)
  PROVE  OneAtATime' /\ BusyWhileServing'
<1>1. Free(r) /\ UNCHANGED <<via, stage>>
  BY DEF Answer, Resolve, Reject, Throw
<1> PICK g \in Handlers : g = via[r]
  BY <1>1, FreeTypeOK DEF SequentialInv
<1>2. /\ Serving(g)' = {}
      /\ \A h \in Handlers : h # g => Serving(h)' = Serving(h)
      /\ busy'[g] = FALSE /\ \A h \in Handlers : h # g => busy'[h] = busy[h]
  BY <1>1, FreeServing
<1> QED  BY <1>2 DEF SequentialInv, OneAtATime, BusyWhileServing

\* What a step keeps, as long as it is not the second answer to a request.
LEMMA SequentialStep ==
  ASSUME SequentialInv, [Next]_vars, \A r \in Requests : Answer(r) => answers[r] = 0
  PROVE  SequentialInv'
<1>1. TypeOK'
  BY NextTypeOK DEF SequentialInv
<1>2. Quiet'
  <2>1. CASE UNCHANGED vars
    BY <2>1 DEF SequentialInv, Quiet, vars
  <2> QED  BY <2>1, QuietStep DEF SequentialInv
<1>3. CASE \/ UNCHANGED vars \/ EreaseManager
           \/ \E h \in Handlers : RegisterManager(h)
           \/ \E r \in Requests : Settle(r)
  <2>1. UNCHANGED <<busy, via, stage, answers>>
    BY <1>3 DEF vars, liaison, handler, EreaseManager, RegisterManager, Settle
  <2>2. \A h \in Handlers : Serving(h)' = Serving(h)
    BY <2>1 DEF Serving
  <2>3. OneAtATime' /\ BusyWhileServing'
    BY <2>1, <2>2 DEF SequentialInv, OneAtATime, BusyWhileServing
  <2> QED  BY <1>1, <1>2, <2>3 DEF SequentialInv
<1> QED
  BY <1>1, <1>2, <1>3, CallSequential, DeliverSequential, AnswerSequential
  DEF Next, SequentialInv

LEMMA NextSequential == AnswersOnce => (SequentialInv /\ [Next]_vars => SequentialInv')
<1> SUFFICES ASSUME AnswersOnce, SequentialInv, [Next]_vars  PROVE  SequentialInv'
  OBVIOUS
<1>1. \A r \in Requests : Answer(r) => answers[r] = 0
  BY DEF AnswersOnce, Answer, MayAnswer
<1> QED  BY <1>1, SequentialStep

\* SequentialRequestHandler serves one request at a time, for a manager that
\* answers each of its requests once, whatever it answers.
THEOREM ServesOneAtATime == AnswersOnce => (Spec => []OneAtATime)
<1> SUFFICES ASSUME AnswersOnce  PROVE  Spec => []OneAtATime
  OBVIOUS
<1>1. SequentialInv => OneAtATime
  BY DEF SequentialInv
<1>2. SequentialInv /\ [Next]_vars => SequentialInv'
  BY NextSequential
<1> QED  BY <1>1, <1>2, InitSequential, PTL DEF Spec

\* For such a manager the busy flag is up exactly while it works on a request.
THEOREM BusyIsRight == AnswersOnce => (Spec => []BusyWhileServing)
<1> SUFFICES ASSUME AnswersOnce  PROVE  Spec => []BusyWhileServing
  OBVIOUS
<1>1. SequentialInv => BusyWhileServing
  BY DEF SequentialInv
<1>2. SequentialInv /\ [Next]_vars => SequentialInv'
  BY NextSequential
<1> QED  BY <1>1, <1>2, InitSequential, PTL DEF Spec

-----------------------------------------------------------------------------
(***************************************************************************)
(* Fields, for a manager that answers once, validly, and does not throw.   *)
(***************************************************************************)
Adds(r, f) == Ask[r] \in AddField /\ Ask[r].field = f

FieldsStand ==
  \A h \in Handlers : \A f \in Fields :
      f \in fields[h] <=> \E r \in Standing(h) : Adds(r, f)

\* Otherwise the rollback of one request would forget the field of another.
AddedOnce ==
  \A h \in Handlers : \A r, s \in Standing(h) : \A f \in Fields :
      Adds(r, f) /\ Adds(s, f) => r = s

\* A caller hears of an answer once, after it was given.
Told ==
  \A r \in Requests :
      /\ answers[r] = 0 /\ stage[r] \in {"unsent", "called", "delivered"} =>
            settling[r] = {} /\ reply[r] = "none"
      /\ settling[r] # {} => reply[r] = "none"
      /\ settling[r] \in {{}, {"resolved"}, {"rejected"}}
      /\ answers[r] \in {0, 1}

FieldsInv ==
  SequentialInv /\ FieldsStand /\ AddedOnce /\ Told /\ RevisedFieldsWereGranted

LEMMA InitFields == Init => FieldsInv
<1> SUFFICES ASSUME Init  PROVE  FieldsInv
  OBVIOUS
<1>1. \A h \in Handlers : Standing(h) = {}
  BY DEF Init, Standing
<1> QED
  BY <1>1, InitSequential
  DEF Init, FieldsInv, FieldsStand, AddedOnce, Told, RevisedFieldsWereGranted

LEMMA ToldStep ==
  ASSUME Conforming, FieldsInv, Next  PROVE  Told'
<1> USE DEF FieldsInv, SequentialInv
<1>1. ASSUME NEW r \in Requests, Call(r)  PROVE  Told'
  <2>1. UNCHANGED <<answers, settling>>
    BY <1>1, CallCases
  <2>2. \A q \in Requests : q # r => stage'[q] = stage[q] /\ reply'[q] = reply[q]
    <3>1. CASE UNCHANGED reply /\ stage' = [stage EXCEPT ![r] = "called"]
      BY <3>1 DEF TypeOK
    <3>2. CASE \E reason \in {"no manager", "busy"} : Refuse(r, reason)
      BY <3>2 DEF TypeOK, Refuse
    <3> QED  BY <1>1, <3>1, <3>2, CallCases
  <2>3. settling[r] = {} /\ reply[r] = "none"
    BY <1>1, CallCases DEF Quiet, Told
  <2>4. stage'[r] \in {"unsent", "called", "delivered"} => reply'[r] = "none"
    <3>1. CASE UNCHANGED reply
      BY <2>3, <3>1
    <3>2. CASE \E reason \in {"no manager", "busy"} : Refuse(r, reason)
      BY <3>2 DEF TypeOK, Refuse
    <3> QED  BY <1>1, <3>1, <3>2, CallCases
  <2> QED  BY <2>1, <2>2, <2>3, <2>4 DEF Told
<1>2. ASSUME NEW r \in Requests, Deliver(r)  PROVE  Told'
  <2>1. UNCHANGED <<answers, settling>> /\ stage[r] = "called"
    BY <1>2 DEF Deliver
  <2>2. \A q \in Requests : q # r => stage'[q] = stage[q] /\ reply'[q] = reply[q]
    BY <1>2 DEF TypeOK, Deliver, Refuse
  <2>3. settling[r] = {} /\ reply[r] = "none"
    BY <2>1 DEF Quiet, Told
  <2>4. stage'[r] \in {"unsent", "called", "delivered"} => reply'[r] = "none"
    <3>1. CASE \E reason \in {"malformed", Refusal(via[r], Ask[r])} \ {"none"} : Refuse(r, reason)
      <4>1. PICK reason \in Refusals : Refuse(r, reason)
        BY <3>1, RefusalType DEF Refusals
      <4> QED  BY <4>1 DEF TypeOK, Refuse, Refusals
    <3>2. CASE UNCHANGED reply
      BY <2>3, <3>2
    <3> QED  BY <1>2, <3>1, <3>2 DEF Deliver, SchemaVerdicts
  <2> QED  BY <2>1, <2>2, <2>3, <2>4 DEF Told
<1>3. ASSUME NEW r \in Requests, Answer(r)  PROVE  Told'
  <2>1. UNCHANGED <<stage, reply>> /\ answers[r] = 0 /\ stage[r] = "delivered"
    BY <1>3 DEF Conforming, Answer, Resolve, Reject, Throw, Free, MayAnswer
  <2>2. \A q \in Requests : q # r => answers'[q] = answers[q] /\ settling'[q] = settling[q]
    BY <1>3 DEF TypeOK, Answer, Resolve, Reject, Throw, Free, Await
  <2>3. settling[r] = {} /\ reply[r] = "none"
    BY <2>1 DEF Told
  <2>4. settling'[r] \in {{"resolved"}, {"rejected"}}
    <3>1. PICK outcome \in {"resolved", "rejected"} : Await(r, outcome)
      BY <1>3 DEF Conforming, Answer, Resolve, Reject, Throw
    <3>2. settling'[r] = {outcome}
      BY <2>3, <3>1 DEF TypeOK, Await
    <3> QED  BY <3>1, <3>2
  <2>5. answers'[r] = 1
    <3>1. Free(r)
      BY <1>3 DEF Answer, Resolve, Reject, Throw
    <3> QED  BY <2>1, <3>1 DEF TypeOK, Free
  <2> QED  BY <2>1, <2>2, <2>3, <2>4, <2>5 DEF Told
<1>4. ASSUME NEW r \in Requests, Settle(r)  PROVE  Told'
  <2>1. UNCHANGED <<stage, answers>>
    BY <1>4 DEF Settle
  <2>2. \A q \in Requests : q # r => settling'[q] = settling[q] /\ reply'[q] = reply[q]
    BY <1>4 DEF TypeOK, Settle
  <2>3. settling[r] # {} /\ settling[r] \in {{"resolved"}, {"rejected"}}
    BY <1>4 DEF Settle, Told
  <2>4. settling'[r] = {}
    BY <1>4, <2>3 DEF TypeOK, Settle
  <2>5. ~ (answers[r] = 0 /\ stage[r] \in {"unsent", "called", "delivered"})
    BY <2>3 DEF Told
  <2> QED  BY <2>1, <2>2, <2>4, <2>5 DEF Told
<1>5. CASE EreaseManager \/ \E h \in Handlers : RegisterManager(h)
  BY <1>5 DEF Told, EreaseManager, RegisterManager
<1> QED  BY <1>1, <1>2, <1>3, <1>4, <1>5 DEF Next

\* A step that changes neither the table nor what stands.
LEMMA FieldsKept ==
  ASSUME FieldsInv, UNCHANGED fields,
         \A h \in Handlers : Standing(h)' = Standing(h),
         \A q \in Requests : stage'[q] = "delivered" => stage[q] = "delivered" /\ via'[q] = via[q],
         \A q \in Requests : answers[q] = 1 => answers'[q] = 1
  PROVE  FieldsStand' /\ AddedOnce' /\ RevisedFieldsWereGranted'
<1>1. FieldsStand' /\ AddedOnce'
  BY DEF FieldsInv, FieldsStand, AddedOnce, Adds
<1>2. ASSUME NEW r \in Requests, stage'[r] = "delivered", Ask[r] \in RejectFieldValue
      PROVE  \E s \in Standing(via[r])' :
                Ask[s] \in AddField /\ Ask[s].field = Ask[r].field /\ answers'[s] = 1
  <2>1. stage[r] = "delivered" /\ via'[r] = via[r] /\ via[r] \in Handlers
    BY <1>2 DEF FieldsInv, SequentialInv, TypeOK
  <2> PICK g \in Handlers : g = via[r] /\ g = via'[r]
    BY <2>1
  <2>2. PICK s \in Standing(g) :
            Ask[s] \in AddField /\ Ask[s].field = Ask[r].field /\ answers[s] = 1
    BY <1>2, <2>1 DEF FieldsInv, RevisedFieldsWereGranted
  <2>3. s \in Standing(g)' /\ s \in Requests
    BY <2>2 DEF Standing
  <2> QED  BY <2>2, <2>3
<1> QED  BY <1>1, <1>2 DEF RevisedFieldsWereGranted

LEMMA CallFields ==
  ASSUME FieldsInv, NEW r \in Requests, Call(r)
  PROVE  FieldsStand' /\ AddedOnce' /\ RevisedFieldsWereGranted'
<1>1. stage[r] = "unsent" /\ UNCHANGED <<fields, answers, settling>>
  BY CallCases DEF FieldsInv, SequentialInv
<1>2. stage'[r] # "delivered" /\
      \A q \in Requests : q # r => stage'[q] = stage[q] /\ reply'[q] = reply[q] /\ via'[q] = via[q]
  <2>1. CASE /\ UNCHANGED reply /\ stage' = [stage EXCEPT ![r] = "called"]
             /\ via' = [via EXCEPT ![r] = current]
    BY <2>1 DEF FieldsInv, SequentialInv, TypeOK
  <2>2. CASE /\ \E reason \in {"no manager", "busy"} : Refuse(r, reason)
             /\ \E h \in Handlers \union {NoHandler} : via' = [via EXCEPT ![r] = h]
    BY <2>2 DEF FieldsInv, SequentialInv, TypeOK, Refuse
  <2> QED  BY <2>1, <2>2, CallCases DEF FieldsInv, SequentialInv
<1>3. \A h \in Handlers : Standing(h)' = Standing(h)
  BY <1>1, <1>2 DEF Standing
<1> QED  BY <1>1, <1>2, <1>3, FieldsKept

LEMMA SettleFields ==
  ASSUME FieldsInv, NEW r \in Requests, Settle(r)
  PROVE  FieldsStand' /\ AddedOnce' /\ RevisedFieldsWereGranted'
<1>1. UNCHANGED <<fields, via, stage, answers>>
  BY DEF Settle, handler
<1>2. \A q \in Requests : q # r => settling'[q] = settling[q] /\ reply'[q] = reply[q]
  BY DEF FieldsInv, SequentialInv, TypeOK, Settle
<1>3. "rejected" \in settling'[r] \union {reply'[r]} <=> "rejected" \in settling[r] \union {reply[r]}
  <2>1. PICK outcome \in settling[r] :
            /\ reply' = [reply EXCEPT ![r] = Settled(r, outcome)]
            /\ settling' = [settling EXCEPT ![r] = @ \ {outcome}]
    BY DEF Settle
  <2>2. reply[r] = "none" /\ settling[r] = {outcome}
    BY <2>1 DEF FieldsInv, Told
  <2>3. reply'[r] = outcome /\ settling'[r] = {}
    BY <2>1, <2>2 DEF FieldsInv, SequentialInv, TypeOK, Settled
  <2> QED  BY <2>2, <2>3
<1>4. \A h \in Handlers : Standing(h)' = Standing(h)
  BY <1>1, <1>2, <1>3 DEF Standing
<1> QED  BY <1>1, <1>4, FieldsKept

\* What an answer does to the counts of answers.
LEMMA FreeAnswers ==
  ASSUME Conforming, FieldsInv, NEW r \in Requests, Free(r), UNCHANGED <<via, stage>>
  PROVE  /\ answers[r] = 0 /\ stage[r] = "delivered" /\ via[r] \in Handlers
         /\ settling[r] = {} /\ reply[r] = "none"
         /\ \A q \in Requests : answers[q] = 1 => answers'[q] = 1
<1>1. answers[r] = 0 /\ stage[r] = "delivered"
  BY DEF Conforming, Free, MayAnswer
<1>2. \A q \in Requests : answers[q] = 1 => answers'[q] = 1
  BY <1>1 DEF FieldsInv, SequentialInv, TypeOK, Free
<1> QED  BY <1>1, <1>2 DEF FieldsInv, SequentialInv, TypeOK, Told

LEMMA ResolveFields ==
  ASSUME Conforming, FieldsInv, NEW r \in Requests, Resolve(r)
  PROVE  FieldsStand' /\ AddedOnce' /\ RevisedFieldsWereGranted'
<1>1. Free(r) /\ Await(r, "resolved") /\ UNCHANGED <<fields, via, stage, reply>>
  BY DEF Conforming, Resolve
<1>2. \A q \in Requests : "rejected" \in settling'[q] <=> "rejected" \in settling[q]
  BY <1>1 DEF FieldsInv, SequentialInv, TypeOK, Await
<1>3. \A h \in Handlers : Standing(h)' = Standing(h)
  BY <1>1, <1>2 DEF Standing
<1> QED  BY <1>1, <1>3, FreeAnswers, FieldsKept

LEMMA RejectFields ==
  ASSUME Conforming, FieldsInv, NEW r \in Requests, Reject(r)
  PROVE  FieldsStand' /\ AddedOnce' /\ RevisedFieldsWereGranted'
<1>1. Free(r) /\ Await(r, "rejected") /\ Rollback(via[r], Ask[r]) /\ UNCHANGED <<via, stage, reply>>
  BY DEF Reject
<1>2. /\ answers[r] = 0 /\ stage[r] = "delivered" /\ via[r] \in Handlers
      /\ settling[r] = {} /\ reply[r] = "none"
      /\ \A q \in Requests : answers[q] = 1 => answers'[q] = 1
  BY <1>1, FreeAnswers
<1> PICK g \in Handlers : g = via[r]
  BY <1>2
<1>3. r \in Standing(g)
  BY <1>2 DEF Standing
<1>4. "rejected" \in settling'[r] /\ \A q \in Requests : q # r => settling'[q] = settling[q]
  BY <1>1 DEF FieldsInv, SequentialInv, TypeOK, Await
<1>5. Standing(g)' = Standing(g) \ {r}
  BY <1>1, <1>4 DEF Standing
<1>6. \A h \in Handlers : h # g => Standing(h)' = Standing(h)
  BY <1>1, <1>2, <1>4 DEF Standing
<1>7. AddedOnce'
  BY <1>5, <1>6 DEF FieldsInv, AddedOnce, Adds
<1>8. \A h \in Handlers : h # g => fields'[h] = fields[h]
  BY <1>1 DEF FieldsInv, SequentialInv, TypeOK, Rollback
<1>9. \A f \in Fields : f \in fields'[g] <=> f \in fields[g] /\ ~ Adds(r, f)
  BY <1>1 DEF FieldsInv, SequentialInv, TypeOK, Rollback, Adds
<1>10. FieldsStand'
  <2>1. ASSUME NEW f \in Fields
        PROVE  f \in fields'[g] <=> \E s \in Standing(g)' : Adds(s, f)
    BY <1>3, <1>5, <1>9 DEF FieldsInv, FieldsStand, AddedOnce
  <2>2. ASSUME NEW h \in Handlers, h # g, NEW f \in Fields
        PROVE  f \in fields'[h] <=> \E s \in Standing(h)' : Adds(s, f)
    BY <1>6, <1>8, <2>2 DEF FieldsInv, FieldsStand
  <2> QED  BY <2>1, <2>2 DEF FieldsStand, Adds
<1>11. RevisedFieldsWereGranted'
  <2>1. ASSUME NEW q \in Requests, stage[q] = "delivered", Ask[q] \in RejectFieldValue,
               NEW h \in Handlers, h = via[q]
        PROVE  \E s \in Standing(h)' :
                  Ask[s] \in AddField /\ Ask[s].field = Ask[q].field /\ answers'[s] = 1
    <3>1. PICK s \in Standing(h) :
              Ask[s] \in AddField /\ Ask[s].field = Ask[q].field /\ answers[s] = 1
      BY <2>1 DEF FieldsInv, RevisedFieldsWereGranted
    <3>2. s # r /\ s \in Requests
      BY <1>2, <3>1 DEF Standing
    <3> QED  BY <1>2, <1>5, <1>6, <3>1, <3>2
  <2>2. \A q \in Requests : stage[q] = "delivered" => via[q] \in Handlers
    BY DEF FieldsInv, SequentialInv, TypeOK
  <2>3. UNCHANGED <<via, stage>>
    BY <1>1
  <2>4. ASSUME NEW q \in Requests, stage'[q] = "delivered", Ask[q] \in RejectFieldValue
        PROVE  \E s \in Standing(via[q])' :
                  Ask[s] \in AddField /\ Ask[s].field = Ask[q].field /\ answers'[s] = 1
    <3> PICK h \in Handlers : h = via[q] /\ h = via'[q]
      BY <2>2, <2>3, <2>4
    <3>1. \E s \in Standing(h)' :
                  Ask[s] \in AddField /\ Ask[s].field = Ask[q].field /\ answers'[s] = 1
      BY <2>1, <2>3, <2>4
    <3> QED  BY <3>1
  <2> QED  BY <2>4 DEF RevisedFieldsWereGranted
<1> QED  BY <1>7, <1>10, <1>11

LEMMA DeliverFields ==
  ASSUME FieldsInv, NEW r \in Requests, Deliver(r)
  PROVE  FieldsStand' /\ AddedOnce' /\ RevisedFieldsWereGranted'
<1>1. stage[r] = "called" /\ UNCHANGED <<via, answers, settling>>
  BY DEF Deliver
<1> PICK g \in Handlers : g = via[r]
  BY <1>1 DEF FieldsInv, SequentialInv, TypeOK
<1>2. answers[r] = 0 /\ settling[r] = {} /\ reply[r] = "none"
  BY <1>1 DEF FieldsInv, SequentialInv, Quiet, Told
<1>3. \A q \in Requests : q # r => stage'[q] = stage[q] /\ reply'[q] = reply[q]
  BY DEF FieldsInv, SequentialInv, TypeOK, Deliver, Refuse
<1>4. CASE \E reason \in {"malformed", Refusal(g, Ask[r])} \ {"none"} :
              Refuse(r, reason) /\ UNCHANGED fields
  <2>1. PICK reason \in Refusals : Refuse(r, reason)
    BY <1>4, RefusalType DEF Refusals
  <2>2. stage'[r] # "delivered"
    BY <2>1 DEF FieldsInv, SequentialInv, TypeOK, Refuse, Refusals
  <2>3. \A h \in Handlers : Standing(h)' = Standing(h)
    BY <1>1, <1>3, <2>2 DEF Standing
  <2> QED  BY <1>1, <1>3, <1>4, <2>2, <2>3, FieldsKept
<1>5. CASE /\ Refusal(g, Ask[r]) = "none"
           /\ Consume(g, Ask[r])
           /\ stage' = [stage EXCEPT ![r] = "delivered"]
           /\ UNCHANGED reply
  <2>1. stage'[r] = "delivered" /\ r \notin Standing(g)
    BY <1>1, <1>5 DEF FieldsInv, SequentialInv, TypeOK, Standing
  <2>2. Standing(g)' = Standing(g) \union {r}
    BY <1>1, <1>2, <1>3, <1>5, <2>1 DEF Standing
  <2>3. \A h \in Handlers : h # g => Standing(h)' = Standing(h)
    BY <1>1, <1>3, <1>5 DEF Standing
  <2>4. \A f \in Fields : Adds(r, f) => f \notin fields[g]
    BY <1>5 DEF Refusal, Adds
  <2>5. \A f \in Fields : f \in fields'[g] <=> f \in fields[g] \/ Adds(r, f)
    BY <1>5 DEF FieldsInv, SequentialInv, TypeOK, Consume, Adds
  <2>6. \A h \in Handlers : h # g => fields'[h] = fields[h]
    BY <1>5 DEF FieldsInv, SequentialInv, TypeOK, Consume
  <2>7. AddedOnce'
    <3>1. \A f \in Fields : \A s \in Standing(g) : ~ (Adds(r, f) /\ Adds(s, f))
      BY <2>4 DEF FieldsInv, FieldsStand
    <3> QED  BY <2>2, <2>3, <3>1 DEF FieldsInv, AddedOnce, Adds
  <2>8. FieldsStand'
    <3>1. ASSUME NEW f \in Fields
          PROVE  f \in fields'[g] <=> \E s \in Standing(g)' : Adds(s, f)
      BY <2>2, <2>5 DEF FieldsInv, FieldsStand
    <3>2. ASSUME NEW h \in Handlers, h # g, NEW f \in Fields
          PROVE  f \in fields'[h] <=> \E s \in Standing(h)' : Adds(s, f)
      BY <2>3, <2>6, <3>2 DEF FieldsInv, FieldsStand
    <3> QED  BY <3>1, <3>2 DEF FieldsStand, Adds
  <2>9. ASSUME Ask[r] \in RejectFieldValue
        PROVE  \E s \in Standing(g) :
                  Ask[s] \in AddField /\ Ask[s].field = Ask[r].field /\ answers[s] = 1
    <3>1. Ask[r].field \in fields[g] /\ Ask[r].field \in Fields
      BY <1>5, <2>9 DEF Refusal, RejectFieldValue, AddField
    <3>2. PICK s \in Standing(g) : Adds(s, Ask[r].field)
      BY <3>1 DEF FieldsInv, FieldsStand
    <3>3. s # r
      BY <2>1, <3>2
    <3>4. answers[s] # 0
      <4>1. r \in Serving(g)
        BY <1>1, <1>2 DEF Serving
      <4>2. answers[s] = 0 => s \in Serving(g)
        BY <3>2 DEF Serving, Standing
      <4> QED  BY <3>3, <4>1, <4>2 DEF FieldsInv, SequentialInv, OneAtATime
    <3>5. answers[s] = 1
      BY <3>2, <3>4 DEF FieldsInv, Told, Standing
    <3> QED  BY <3>2, <3>5 DEF Adds
  <2>10. RevisedFieldsWereGranted'
    <3>1. ASSUME NEW q \in Requests, stage'[q] = "delivered", Ask[q] \in RejectFieldValue
          PROVE  \E s \in Standing(via[q])' :
                    Ask[s] \in AddField /\ Ask[s].field = Ask[q].field /\ answers'[s] = 1
      <4>1. stage[q] = "delivered" \/ q = r
        BY <1>3, <3>1
      <4>2. via[q] \in Handlers
        BY <1>1, <4>1 DEF FieldsInv, SequentialInv, TypeOK
      <4> PICK h \in Handlers : h = via[q] /\ h = via'[q]
        BY <1>1, <4>2
      <4>3. \E s \in Standing(h) :
                Ask[s] \in AddField /\ Ask[s].field = Ask[q].field /\ answers[s] = 1
        BY <2>9, <3>1, <4>1 DEF FieldsInv, RevisedFieldsWereGranted
      <4>4. Standing(h) \subseteq Standing(h)'
        BY <2>2, <2>3
      <4> QED  BY <1>1, <4>3, <4>4
    <3> QED  BY <3>1 DEF RevisedFieldsWereGranted
  <2> QED  BY <2>7, <2>8, <2>10
<1> QED  BY <1>4, <1>5 DEF Deliver, SchemaVerdicts

LEMMA NextFields == Conforming => (FieldsInv /\ [Next]_vars => FieldsInv')
<1> SUFFICES ASSUME Conforming, FieldsInv, [Next]_vars  PROVE  FieldsInv'
  OBVIOUS
<1>1. SequentialInv'
  BY NextSequential DEF Conforming, AnswersOnce, FieldsInv
<1>2. CASE UNCHANGED vars
  <2>1. UNCHANGED <<via, stage, answers, settling, reply, fields>>
    BY <1>2 DEF vars, handler
  <2>2. \A h \in Handlers : Standing(h)' = Standing(h)
    BY <2>1 DEF Standing
  <2>3. Told'
    BY <2>1 DEF FieldsInv, Told
  <2> QED  BY <1>1, <2>1, <2>2, <2>3, FieldsKept DEF FieldsInv
<1>3. CASE Next
  <2>1. Told'
    BY <1>3, ToldStep
  <2>2. CASE EreaseManager \/ \E h \in Handlers : RegisterManager(h)
    <3>1. UNCHANGED <<via, stage, answers, settling, reply, fields>>
      BY <2>2 DEF EreaseManager, RegisterManager, handler
    <3>2. \A h \in Handlers : Standing(h)' = Standing(h)
      BY <3>1 DEF Standing
    <3> QED  BY <1>1, <2>1, <3>1, <3>2, FieldsKept DEF FieldsInv
  <2>3. ASSUME NEW r \in Requests, Answer(r)
        PROVE  FieldsStand' /\ AddedOnce' /\ RevisedFieldsWereGranted'
    <3>1. Resolve(r) \/ Reject(r)
      BY <2>3 DEF Answer, Throw, Conforming
    <3> QED  BY <1>1, <3>1, ResolveFields, RejectFields
  <2> QED
    BY <1>1, <1>3, <2>1, <2>2, <2>3, CallFields, DeliverFields, SettleFields
    DEF Next, FieldsInv
<1> QED  BY <1>2, <1>3

\* FieldIdValidator: a manager is only asked to revise a field it was asked to
\* add before, through the same registration, and whose value it had granted,
\* never one it is still working on or has refused.
THEOREM RevisesGrantedFields == Conforming => (Spec => []RevisedFieldsWereGranted)
<1> SUFFICES ASSUME Conforming  PROVE  Spec => []RevisedFieldsWereGranted
  OBVIOUS
<1>1. FieldsInv => RevisedFieldsWereGranted
  BY DEF FieldsInv
<1>2. FieldsInv /\ [Next]_vars => FieldsInv'
  BY NextFields
<1> QED  BY <1>1, <1>2, InitFields, PTL DEF Spec

-----------------------------------------------------------------------------
(***************************************************************************)
(* The tables of the request handler's validators say what the standing    *)
(* requests say, and the handler implements the dialogue, for a manager    *)
(* that answers once, validly, and does not throw.                         *)
(***************************************************************************)
LEMMA NamesAreDistinct ==
  ASSUME NEW t \in DOMAIN Names
  PROVE  /\ Names[t] \in Seq(MessageNames)
         /\ \A i, j \in DOMAIN Names[t] : Names[t][i] = Names[t][j] => i = j
<1>1. CASE t \in {"Identification", "Password", "OffChannelOtp"}
  BY <1>1 DEF Names, MessageNames
<1>2. CASE t = "DigitalSignature"
  BY <1>2 DEF Names, MessageNames
<1>3. CASE t = "SecureRemotePassword"
  <2>1. Names[t] = <<"SelectSecurePassword", "ExchangePublicKeys",
                     "ComputeClientProof", "VerifyServerProof">>
    BY <1>3 DEF Names
  <2>2. Names[t] \in Seq(MessageNames) /\ DOMAIN Names[t] = 1 .. 4
    BY <2>1 DEF MessageNames
  <2> QED  BY <2>1, <2>2
<1> QED  BY <1>1, <1>2, <1>3 DEF Names

\* What a lookup of a challenge's message names rests on.
LEMMA NamesOf ==
  ASSUME NEW c \in Challenges
  PROVE  LET names == Names[ChallengeType[c]]
         IN  /\ Len(names) \in Nat /\ DOMAIN names = 1 .. Len(names)
             /\ \A i \in DOMAIN names : names[i] \in MessageNames
             /\ \A i, j \in DOMAIN names : names[i] = names[j] => i = j
<1>1. ChallengeType[c] \in DOMAIN Names
  BY AsksAssumption
<1> QED  BY <1>1, NamesAreDistinct

-----------------------------------------------------------------------------
(***************************************************************************)
(* What the actions do to the requests that stand.                         *)
(***************************************************************************)
\* r is the only request that h is serving, and nothing is known of its answer.
Serves(h, r) ==
  /\ Serving(h) = {r}
  /\ answers[r] = 0 /\ settling[r] = {} /\ reply[r] = "none"

StandingKept == \A h \in Handlers : Standing(h)' = Standing(h)
ServingKept == \A h \in Handlers : Serving(h)' = Serving(h)

LEMMA RegistrationSteps ==
  ASSUME EreaseManager \/ \E h \in Handlers : RegisterManager(h)
  PROVE  UNCHANGED <<fields, counter, answers>> /\ StandingKept /\ ServingKept
<1>1. UNCHANGED <<via, stage, answers, settling, reply, fields, counter>>
  BY DEF EreaseManager, RegisterManager, handler
<1> QED  BY <1>1 DEF StandingKept, ServingKept, Standing, Serving

\* A call is refused, or becomes what an idle handler serves.
LEMMA CallSteps ==
  ASSUME FieldsInv, NEW r \in Requests, Call(r)
  PROVE  /\ UNCHANGED <<fields, counter, answers>> /\ StandingKept
         /\ \A h \in Handlers : r \notin Standing(h)
         /\ \/ ServingKept
            \/ \E g \in Handlers :
                  /\ Serving(g) = {} /\ Serving(g)' = {r}
                  /\ \A h \in Handlers : h # g => Serving(h)' = Serving(h)
<1> USE DEF FieldsInv, SequentialInv
<1>1. stage[r] = "unsent" /\ UNCHANGED <<fields, counter, answers, settling>>
  BY CallCases
<1>2. answers[r] = 0 /\ \A h \in Handlers : r \notin Standing(h) /\ r \notin Serving(h)
  BY <1>1 DEF Quiet, Standing, Serving
<1>3. CASE /\ \E reason \in {"no manager", "busy"} : Refuse(r, reason)
           /\ \E h \in Handlers \union {NoHandler} : via' = [via EXCEPT ![r] = h]
  <2>1. stage'[r] \notin {"called", "delivered"}
    BY <1>3 DEF TypeOK, Refuse
  <2>2. \A q \in Requests : q # r => stage'[q] = stage[q] /\ via'[q] = via[q] /\ reply'[q] = reply[q]
    BY <1>3 DEF TypeOK, Refuse
  <2>3. StandingKept /\ ServingKept
    BY <1>1, <2>1, <2>2 DEF StandingKept, ServingKept, Standing, Serving
  <2> QED  BY <1>1, <1>2, <2>3
<1>4. CASE /\ current \in Handlers /\ busy[current] = FALSE
           /\ via' = [via EXCEPT ![r] = current]
           /\ stage' = [stage EXCEPT ![r] = "called"]
           /\ UNCHANGED reply
  <2> PICK g \in Handlers : g = current
    BY <1>4
  <2>1. stage'[r] = "called" /\ via'[r] = g
    BY <1>4 DEF TypeOK
  <2>2. \A q \in Requests : q # r => stage'[q] = stage[q] /\ via'[q] = via[q]
    BY <1>4 DEF TypeOK
  <2>3. Serving(g) = {}
    BY <1>4 DEF BusyWhileServing
  <2>4. StandingKept
    BY <1>1, <1>4, <2>1, <2>2 DEF StandingKept, Standing
  <2>5. Serving(g)' = {r}
    BY <1>1, <1>2, <2>1, <2>2, <2>3 DEF Serving
  <2>6. \A h \in Handlers : h # g => Serving(h)' = Serving(h)
    BY <1>1, <2>1, <2>2 DEF Serving
  <2> QED  BY <1>1, <1>2, <2>3, <2>4, <2>5, <2>6
<1> QED  BY <1>3, <1>4, CallCases

\* The request a handler is serving is refused, or stands from now on.
LEMMA DeliverSteps ==
  ASSUME FieldsInv, NEW r \in Requests, Deliver(r)
  PROVE  /\ UNCHANGED answers
         /\ \E g \in Handlers :
              /\ g = via[r] /\ Serves(g, r) /\ r \notin Standing(g)
              /\ \A h \in Handlers : h # g => Serving(h)' = Serving(h) /\ Standing(h)' = Standing(h)
              /\ \/ /\ UNCHANGED <<fields, counter>> /\ StandingKept
                    /\ Serving(g)' = {}
                 \/ /\ Refusal(g, Ask[r]) = "none" /\ Consume(g, Ask[r])
                    /\ Standing(g)' = Standing(g) \union {r}
                    /\ Serving(g)' = Serving(g)
<1> USE DEF FieldsInv, SequentialInv
<1>1. stage[r] = "called" /\ UNCHANGED <<via, answers, settling>>
  BY DEF Deliver
<1> PICK g \in Handlers : g = via[r]
  BY <1>1 DEF TypeOK
<1>2. Serves(g, r) /\ r \notin Standing(g)
  BY <1>1 DEF Serves, Quiet, Told, Serving, Standing, OneAtATime
<1>3. \A q \in Requests : q # r => stage'[q] = stage[q] /\ reply'[q] = reply[q]
  BY DEF TypeOK, Deliver, Refuse
<1>4. \A h \in Handlers : h # g => Serving(h)' = Serving(h) /\ Standing(h)' = Standing(h)
  BY <1>1, <1>3 DEF Serving, Standing
<1>5. CASE \E reason \in {"malformed", Refusal(g, Ask[r])} \ {"none"} :
              Refuse(r, reason) /\ UNCHANGED <<fields, counter>>
  <2>1. PICK reason \in Refusals : Refuse(r, reason)
    BY <1>5, RefusalType DEF Refusals
  <2>2. stage'[r] \notin {"called", "delivered"}
    BY <2>1 DEF TypeOK, Refuse, Refusals
  <2>3. Standing(g)' = Standing(g)
    BY <1>1, <1>3, <2>2 DEF Standing
  <2>4. Serving(g)' = {}
    BY <1>1, <1>2, <1>3, <2>2 DEF Serves, Serving
  <2> QED  BY <1>1, <1>2, <1>4, <1>5, <2>3, <2>4 DEF StandingKept
<1>6. CASE /\ Refusal(g, Ask[r]) = "none"
           /\ Consume(g, Ask[r])
           /\ stage' = [stage EXCEPT ![r] = "delivered"]
           /\ UNCHANGED reply
  <2>1. stage'[r] = "delivered"
    BY <1>6 DEF TypeOK
  <2>2. Standing(g)' = Standing(g) \union {r}
    BY <1>1, <1>2, <1>3, <1>6, <2>1 DEF Serves, Standing
  <2>3. Serving(g)' = Serving(g)
    BY <1>1, <1>3, <2>1 DEF Serving
  <2> QED  BY <1>1, <1>2, <1>4, <1>6, <2>2, <2>3
<1> QED  BY <1>5, <1>6 DEF Deliver, SchemaVerdicts

\* The manager's answer ends what a handler serves; a rejected request no
\* longer stands.
LEMMA AnswerSteps ==
  ASSUME Conforming, FieldsInv, NEW r \in Requests, Answer(r)
  PROVE  \E g \in Handlers :
            /\ g = via[r] /\ Serves(g, r) /\ r \in Standing(g) /\ Serving(g)' = {}
            /\ answers'[r] = 1 /\ \A q \in Requests : q # r => answers'[q] = answers[q]
            /\ \A h \in Handlers : h # g => Serving(h)' = Serving(h) /\ Standing(h)' = Standing(h)
            /\ \/ UNCHANGED <<fields, counter>> /\ Standing(g)' = Standing(g)
               \/ Rollback(g, Ask[r]) /\ Standing(g)' = Standing(g) \ {r}
<1> USE DEF FieldsInv, SequentialInv
<1>1. Free(r) /\ UNCHANGED <<via, stage, reply>> /\ (Resolve(r) \/ Reject(r))
  BY DEF Conforming, Answer, Resolve, Reject, Throw
<1> PICK g \in Handlers : g = via[r]
  BY <1>1, FreeTypeOK
<1>2. answers[r] = 0 /\ stage[r] = "delivered" /\ settling[r] = {} /\ reply[r] = "none"
  BY <1>1, FreeAnswers
<1>3. /\ r \in Serving(g) /\ \A q \in Serving(g) : q = r
      /\ Serving(g)' = {}
      /\ \A h \in Handlers : h # g => Serving(h)' = Serving(h)
  BY <1>1, <1>2, FreeServing
<1>4. Serves(g, r) /\ r \in Standing(g)
  BY <1>2, <1>3 DEF Serves, Standing
<1>5. answers'[r] = 1 /\ \A q \in Requests : q # r => answers'[q] = answers[q]
  BY <1>1, <1>2 DEF TypeOK, Free
<1>6. CASE Resolve(r)
  <2>1. Await(r, "resolved") /\ UNCHANGED <<fields, counter>>
    BY <1>6 DEF Conforming, Resolve
  <2>2. \A q \in Requests : "rejected" \in settling'[q] <=> "rejected" \in settling[q]
    BY <2>1 DEF TypeOK, Await
  <2>3. \A h \in Handlers : Standing(h)' = Standing(h)
    BY <1>1, <2>2 DEF Standing
  <2> QED  BY <1>3, <1>4, <1>5, <2>1, <2>3
<1>7. CASE Reject(r)
  <2>1. Await(r, "rejected") /\ Rollback(g, Ask[r])
    BY <1>7 DEF Reject
  <2>2. "rejected" \in settling'[r] /\ \A q \in Requests : q # r => settling'[q] = settling[q]
    BY <2>1 DEF TypeOK, Await
  <2>3. Standing(g)' = Standing(g) \ {r}
    BY <1>1, <2>2 DEF Standing
  <2>4. \A h \in Handlers : h # g => Standing(h)' = Standing(h)
    BY <1>1, <1>2, <2>2 DEF Standing
  <2> QED  BY <1>3, <1>4, <1>5, <2>1, <2>3, <2>4
<1> QED  BY <1>1, <1>6, <1>7

\* A caller hears of an answer: nothing that counts changes.
LEMMA SettleSteps ==
  ASSUME FieldsInv, NEW r \in Requests, Settle(r)
  PROVE  UNCHANGED <<fields, counter, answers>> /\ StandingKept /\ ServingKept
<1> USE DEF FieldsInv, SequentialInv
<1>1. UNCHANGED <<fields, counter, via, stage, answers>>
  BY DEF Settle, handler
<1>2. \A q \in Requests : q # r => settling'[q] = settling[q] /\ reply'[q] = reply[q]
  BY DEF TypeOK, Settle
<1>3. "rejected" \in settling'[r] \union {reply'[r]} <=> "rejected" \in settling[r] \union {reply[r]}
  <2>1. PICK outcome \in settling[r] :
            /\ reply' = [reply EXCEPT ![r] = Settled(r, outcome)]
            /\ settling' = [settling EXCEPT ![r] = @ \ {outcome}]
    BY DEF Settle
  <2>2. reply[r] = "none" /\ settling[r] = {outcome}
    BY <2>1 DEF Told
  <2>3. reply'[r] = outcome /\ settling'[r] = {}
    BY <2>1, <2>2 DEF TypeOK, Settled
  <2> QED  BY <2>2, <2>3
<1> QED  BY <1>1, <1>2, <1>3 DEF StandingKept, ServingKept, Standing, Serving

-----------------------------------------------------------------------------
(***************************************************************************)
(* The counters.                                                           *)
(***************************************************************************)
Order(c) == Names[ChallengeType[c]]

CountersStand ==
  \A h \in Handlers : \A c \in Challenges :
      /\ counter[h][c] \in 0 .. Len(Order(c))
      /\ \A i \in DOMAIN Order(c) :
            i <= counter[h][c] <=> \E r \in Standing(h) : IsMessage(r, c, Order(c)[i])

\* Otherwise the rollback of one request would leave the message of another
\* standing.
SentOnce ==
  \A h \in Handlers : \A r, s \in Standing(h) : \A c \in Challenges :
      \A i \in DOMAIN Order(c) : IsMessage(r, c, Order(c)[i]) /\ IsMessage(s, c, Order(c)[i]) => r = s

\* The message a manager has not answered is the one the counter has come to:
\* a rollback takes back the last.
LastIsServed ==
  \A h \in Handlers : \A r \in Standing(h) :
      answers[r] = 0 /\ Ask[r] \in RespondToChallengeMessage =>
          LET c == Ask[r].challenge
          IN  counter[h][c] \in DOMAIN Order(c) /\ Order(c)[counter[h][c]] = Ask[r].name

CountersInv == CountersStand /\ SentOnce /\ LastIsServed

LEMMA InitCounters == Init => CountersInv
<1> SUFFICES ASSUME Init  PROVE  CountersInv
  OBVIOUS
<1>1. \A h \in Handlers : Standing(h) = {}
  BY DEF Init, Standing
<1>2. \A h \in Handlers : \A c \in Challenges : counter[h][c] = 0
  BY DEF Init
<1>3. \A c \in Challenges : Len(Order(c)) \in Nat /\ DOMAIN Order(c) = 1 .. Len(Order(c))
  BY NamesOf DEF Order
<1> QED  BY <1>1, <1>2, <1>3 DEF CountersInv, CountersStand, SentOnce, LastIsServed

LEMMA CountersKept ==
  ASSUME CountersInv, UNCHANGED counter, StandingKept,
         \A q \in Requests : answers'[q] = 0 => answers[q] = 0
  PROVE  CountersInv'
<1>1. CountersStand'
  BY DEF CountersInv, CountersStand, StandingKept, Order, IsMessage
<1>2. SentOnce'
  BY DEF CountersInv, SentOnce, StandingKept, Order, IsMessage
<1>3. LastIsServed'
  <2> SUFFICES ASSUME NEW h \in Handlers, NEW r \in Standing(h)', answers'[r] = 0,
                      Ask[r] \in RespondToChallengeMessage
               PROVE  LET c == Ask[r].challenge
                      IN  /\ counter'[h][c] \in DOMAIN Order(c)
                          /\ Order(c)[counter'[h][c]] = Ask[r].name
    BY DEF LastIsServed, Order
  <2>1. r \in Standing(h) /\ r \in Requests
    BY DEF StandingKept, Standing
  <2> QED  BY <2>1 DEF CountersInv, LastIsServed
<1> QED  BY <1>1, <1>2, <1>3 DEF CountersInv

LEMMA MessageType ==
  ASSUME NEW a \in RespondToChallengeMessage
  PROVE  a.challenge \in Challenges /\ a \notin AddField /\ a \notin RejectFieldValue
  BY DEF RespondToChallengeMessage, AddField, RejectFieldValue

\* What standing requests other than r say is left as it is by what r does.
LEMMA OthersServed ==
  ASSUME FieldsInv, CountersInv, NEW g \in Handlers, NEW r \in Requests, Serves(g, r),
         NEW s \in Standing(g), s # r
  PROVE  answers[s] # 0
<1>1. answers[s] = 0 => s \in Serving(g)
  BY DEF Serving, Standing
<1> QED  BY <1>1 DEF Serves

LEMMA DeliverCounters ==
  ASSUME FieldsInv, CountersInv, NEW r \in Requests, Deliver(r)
  PROVE  CountersInv'
<1>1. PICK g \in Handlers :
              /\ g = via[r] /\ Serves(g, r) /\ r \notin Standing(g)
              /\ \A h \in Handlers : h # g => Serving(h)' = Serving(h) /\ Standing(h)' = Standing(h)
              /\ \/ UNCHANGED <<fields, counter>> /\ StandingKept
                 \/ /\ Refusal(g, Ask[r]) = "none" /\ Consume(g, Ask[r])
                    /\ Standing(g)' = Standing(g) \union {r}
  BY DeliverSteps
<1>2. UNCHANGED answers
  BY DeliverSteps
<1>3. CASE UNCHANGED counter /\ StandingKept
  BY <1>2, <1>3, CountersKept
<1>4. CASE /\ Refusal(g, Ask[r]) = "none" /\ Consume(g, Ask[r])
           /\ Standing(g)' = Standing(g) \union {r}
           /\ Ask[r] \notin RespondToChallengeMessage
  <2>1. UNCHANGED counter
    BY <1>4 DEF Consume
  <2>2. \A h \in Handlers : \A c \in Challenges : \A name \in MessageNames :
            (\E q \in Standing(h)' : IsMessage(q, c, name)) <=> \E q \in Standing(h) : IsMessage(q, c, name)
    BY <1>1, <1>4 DEF IsMessage
  <2>3. CountersStand'
    BY <2>1, <2>2, NamesOf DEF CountersInv, CountersStand, Order
  <2>4. SentOnce'
    BY <1>1, <1>4 DEF CountersInv, SentOnce, IsMessage, Order
  <2>5. LastIsServed'
    BY <1>1, <1>2, <1>4, <2>1 DEF CountersInv, LastIsServed, Order
  <2> QED  BY <2>3, <2>4, <2>5 DEF CountersInv
<1>5. CASE /\ Refusal(g, Ask[r]) = "none" /\ Consume(g, Ask[r])
           /\ Standing(g)' = Standing(g) \union {r}
           /\ Ask[r] \in RespondToChallengeMessage
  <2> DEFINE d == Ask[r].challenge
             k == counter[g][d] + 1
  <2>1. d \in Challenges /\ Ask[r] \notin AddField /\ Ask[r] \notin RejectFieldValue
    BY <1>5, MessageType
  <2>2. k \in DOMAIN Order(d) /\ Order(d)[k] = Ask[r].name
    BY <1>5, <2>1 DEF Refusal, IsNextMessage, Order
  <2>3. /\ counter'[g][d] = k
        /\ \A h \in Handlers : \A c \in Challenges : h # g \/ c # d => counter'[h][c] = counter[h][c]
    BY <1>5, <2>1 DEF FieldsInv, SequentialInv, TypeOK, Consume
  <2>4. counter[g][d] \in Int
    BY <2>1 DEF FieldsInv, SequentialInv, TypeOK
  <2>5. IsMessage(r, d, Order(d)[k])
    BY <1>5, <2>2 DEF IsMessage
  <2>6. \A c \in Challenges : \A i \in DOMAIN Order(c) :
            IsMessage(r, c, Order(c)[i]) => c = d /\ i = k
    BY <2>1, <2>2, NamesOf DEF IsMessage, Order
  <2>7. \A s \in Standing(g) : ~ IsMessage(s, d, Order(d)[k])
    BY <2>1, <2>2, <2>4 DEF CountersInv, CountersStand
  <2>8. CountersStand'
    <3>1. ASSUME NEW h \in Handlers, NEW c \in Challenges, h # g \/ c # d
          PROVE  /\ counter'[h][c] \in 0 .. Len(Order(c))
                 /\ \A i \in DOMAIN Order(c) :
                      i <= counter'[h][c] <=> \E q \in Standing(h)' : IsMessage(q, c, Order(c)[i])
      <4>1. \A i \in DOMAIN Order(c) :
              (\E q \in Standing(h)' : IsMessage(q, c, Order(c)[i]))
                <=> \E q \in Standing(h) : IsMessage(q, c, Order(c)[i])
        BY <1>1, <1>5, <2>6, <3>1
      <4> QED  BY <2>3, <3>1, <4>1 DEF CountersInv, CountersStand
    <3>2. counter'[g][d] \in 0 .. Len(Order(d))
      BY <2>1, <2>2, <2>3, NamesOf DEF Order
    <3>3. ASSUME NEW i \in DOMAIN Order(d)
          PROVE  i <= counter'[g][d] <=> \E q \in Standing(g)' : IsMessage(q, d, Order(d)[i])
      <4>1. i \in Int
        BY <2>1, NamesOf DEF Order
      <4>2. (\E q \in Standing(g)' : IsMessage(q, d, Order(d)[i]))
              <=> i = k \/ \E q \in Standing(g) : IsMessage(q, d, Order(d)[i])
        BY <1>5, <2>1, <2>5, <2>6
      <4>3. i <= counter[g][d] <=> \E q \in Standing(g) : IsMessage(q, d, Order(d)[i])
        BY <2>1 DEF CountersInv, CountersStand
      <4> QED  BY <2>3, <2>4, <4>1, <4>2, <4>3
    <3> QED  BY <2>1, <3>1, <3>2, <3>3 DEF CountersStand, Order, IsMessage
  <2>9. SentOnce'
    <3>1. ASSUME NEW h \in Handlers, NEW q \in Standing(h)', NEW s \in Standing(h)',
                 NEW c \in Challenges, NEW i \in DOMAIN Order(c),
                 IsMessage(q, c, Order(c)[i]), IsMessage(s, c, Order(c)[i])
          PROVE  q = s
      <4>1. CASE h = g /\ (q = r \/ s = r)
        BY <1>5, <2>6, <2>7, <3>1, <4>1
      <4>2. CASE ~ (h = g /\ (q = r \/ s = r))
        BY <1>1, <1>5, <3>1, <4>2 DEF CountersInv, SentOnce
      <4> QED  BY <4>1, <4>2
    <3> QED  BY <3>1 DEF SentOnce, Order, IsMessage
  <2>10. LastIsServed'
    <3>1. ASSUME NEW h \in Handlers, NEW s \in Standing(h)', answers'[s] = 0,
                 Ask[s] \in RespondToChallengeMessage
          PROVE  LET c == Ask[s].challenge
                 IN  counter'[h][c] \in DOMAIN Order(c) /\ Order(c)[counter'[h][c]] = Ask[s].name
      <4>1. CASE h # g
        <5>1. s \in Standing(h) /\ answers[s] = 0 /\ Ask[s].challenge \in Challenges
          BY <1>1, <1>2, <3>1, <4>1, MessageType
        <5> QED  BY <2>3, <3>1, <4>1, <5>1 DEF CountersInv, LastIsServed
      <4>2. CASE h = g
        <5>1. s = r
          BY <1>1, <1>2, <1>5, <3>1, <4>2, OthersServed
        <5> QED  BY <2>2, <2>3, <4>2, <5>1
      <4> QED  BY <4>1, <4>2
    <3> QED  BY <3>1 DEF LastIsServed, Order
  <2> QED  BY <2>8, <2>9, <2>10 DEF CountersInv
<1> QED  BY <1>1, <1>3, <1>4, <1>5

LEMMA AnswerCounters ==
  ASSUME Conforming, FieldsInv, CountersInv, NEW r \in Requests, Answer(r)
  PROVE  CountersInv'
<1>1. PICK g \in Handlers :
            /\ g = via[r] /\ Serves(g, r) /\ r \in Standing(g)
            /\ answers'[r] = 1 /\ \A q \in Requests : q # r => answers'[q] = answers[q]
            /\ \A h \in Handlers : h # g => Serving(h)' = Serving(h) /\ Standing(h)' = Standing(h)
            /\ \/ UNCHANGED <<fields, counter>> /\ Standing(g)' = Standing(g)
               \/ Rollback(g, Ask[r]) /\ Standing(g)' = Standing(g) \ {r}
  BY AnswerSteps
<1>2. \A q \in Requests : answers'[q] = 0 => answers[q] = 0
  BY <1>1
<1>3. CASE UNCHANGED counter /\ Standing(g)' = Standing(g)
  BY <1>1, <1>2, <1>3, CountersKept DEF StandingKept
<1>4. CASE /\ Rollback(g, Ask[r]) /\ Standing(g)' = Standing(g) \ {r}
           /\ Ask[r] \notin RespondToChallengeMessage
  <2>1. UNCHANGED counter
    BY <1>4 DEF Rollback
  <2>2. \A h \in Handlers : \A c \in Challenges : \A name \in MessageNames :
            (\E q \in Standing(h)' : IsMessage(q, c, name)) <=> \E q \in Standing(h) : IsMessage(q, c, name)
    BY <1>1, <1>4 DEF IsMessage
  <2>3. \A h \in Handlers : Standing(h)' \subseteq Standing(h)
    BY <1>1, <1>4
  <2>4. CountersStand'
    BY <2>1, <2>2, NamesOf DEF CountersInv, CountersStand, Order
  <2>5. SentOnce'
    BY <2>3 DEF CountersInv, SentOnce, IsMessage, Order
  <2>6. LastIsServed'
    <3>1. ASSUME NEW h \in Handlers, NEW s \in Standing(h)', answers'[s] = 0
          PROVE  s \in Standing(h) /\ answers[s] = 0
      BY <1>2, <2>3, <3>1 DEF Standing
    <3> QED  BY <2>1, <3>1 DEF CountersInv, LastIsServed, Order
  <2> QED  BY <2>4, <2>5, <2>6 DEF CountersInv
<1>5. CASE /\ Rollback(g, Ask[r]) /\ Standing(g)' = Standing(g) \ {r}
           /\ Ask[r] \in RespondToChallengeMessage
  <2> DEFINE d == Ask[r].challenge
             k == counter[g][d]
  <2>1. d \in Challenges /\ Ask[r] \notin AddField
    BY <1>5, MessageType
  <2>2. k \in DOMAIN Order(d) /\ Order(d)[k] = Ask[r].name
    BY <1>1, <1>5 DEF Serves, CountersInv, LastIsServed
  <2>3. /\ counter'[g][d] = k - 1
        /\ \A h \in Handlers : \A c \in Challenges : h # g \/ c # d => counter'[h][c] = counter[h][c]
    BY <1>5, <2>1 DEF FieldsInv, SequentialInv, TypeOK, Rollback
  <2>4. k \in Int
    BY <2>1 DEF FieldsInv, SequentialInv, TypeOK
  <2>5. IsMessage(r, d, Order(d)[k])
    BY <1>5, <2>2 DEF IsMessage
  <2>6. \A c \in Challenges : \A i \in DOMAIN Order(c) :
            IsMessage(r, c, Order(c)[i]) => c = d /\ i = k
    BY <2>1, <2>2, NamesOf DEF IsMessage, Order
  <2>7. \A s \in Standing(g) : IsMessage(s, d, Order(d)[k]) => s = r
    BY <1>1, <2>1, <2>2, <2>5 DEF CountersInv, SentOnce
  <2>8. \A h \in Handlers : Standing(h)' \subseteq Standing(h)
    BY <1>1, <1>5
  <2>9. CountersStand'
    <3>1. ASSUME NEW h \in Handlers, NEW c \in Challenges, h # g \/ c # d
          PROVE  /\ counter'[h][c] \in 0 .. Len(Order(c))
                 /\ \A i \in DOMAIN Order(c) :
                      i <= counter'[h][c] <=> \E q \in Standing(h)' : IsMessage(q, c, Order(c)[i])
      <4>1. \A i \in DOMAIN Order(c) :
              (\E q \in Standing(h)' : IsMessage(q, c, Order(c)[i]))
                <=> \E q \in Standing(h) : IsMessage(q, c, Order(c)[i])
        BY <1>1, <1>5, <2>6, <3>1
      <4> QED  BY <2>3, <3>1, <4>1 DEF CountersInv, CountersStand
    <3>2. counter'[g][d] \in 0 .. Len(Order(d))
      BY <2>1, <2>2, <2>3, NamesOf DEF Order
    <3>3. ASSUME NEW i \in DOMAIN Order(d)
          PROVE  i <= counter'[g][d] <=> \E q \in Standing(g)' : IsMessage(q, d, Order(d)[i])
      <4>1. i \in Int
        BY <2>1, NamesOf DEF Order
      <4>2. (\E q \in Standing(g)' : IsMessage(q, d, Order(d)[i]))
              <=> i # k /\ \E q \in Standing(g) : IsMessage(q, d, Order(d)[i])
        BY <1>5, <2>1, <2>6, <2>7
      <4>3. i <= counter[g][d] <=> \E q \in Standing(g) : IsMessage(q, d, Order(d)[i])
        BY <2>1 DEF CountersInv, CountersStand
      <4> QED  BY <2>3, <2>4, <4>1, <4>2, <4>3
    <3> QED  BY <2>1, <3>1, <3>2, <3>3 DEF CountersStand, Order, IsMessage
  <2>10. SentOnce'
    BY <2>8 DEF CountersInv, SentOnce, IsMessage, Order
  <2>11. LastIsServed'
    <3>1. ASSUME NEW h \in Handlers, NEW s \in Standing(h)', answers'[s] = 0,
                 Ask[s] \in RespondToChallengeMessage
          PROVE  LET c == Ask[s].challenge
                 IN  counter'[h][c] \in DOMAIN Order(c) /\ Order(c)[counter'[h][c]] = Ask[s].name
      <4>1. s \in Standing(h) /\ answers[s] = 0 /\ Ask[s].challenge \in Challenges
        BY <1>2, <2>8, <3>1, MessageType DEF Standing
      <4>2. h # g
        BY <1>1, <1>5, <3>1, <4>1, OthersServed
      <4> QED  BY <2>3, <3>1, <4>1, <4>2 DEF CountersInv, LastIsServed
    <3> QED  BY <3>1 DEF LastIsServed, Order
  <2> QED  BY <2>9, <2>10, <2>11 DEF CountersInv
<1> QED  BY <1>1, <1>3, <1>4, <1>5

TablesInv == FieldsInv /\ CountersInv

LEMMA NextTables == Conforming => (TablesInv /\ [Next]_vars => TablesInv')
<1> SUFFICES ASSUME Conforming, TablesInv, [Next]_vars  PROVE  CountersInv'
  BY NextFields DEF TablesInv
<1> USE DEF TablesInv
<1>1. CASE UNCHANGED vars
  <2>1. UNCHANGED <<via, stage, answers, settling, reply, counter>>
    BY <1>1 DEF vars, handler
  <2> QED  BY <2>1, CountersKept DEF StandingKept, Standing
<1>2. ASSUME NEW r \in Requests, Call(r) \/ Settle(r)  PROVE  CountersInv'
  BY <1>2, CallSteps, SettleSteps, CountersKept
<1>3. CASE EreaseManager \/ \E h \in Handlers : RegisterManager(h)
  BY <1>3, RegistrationSteps, CountersKept
<1> QED  BY <1>1, <1>2, <1>3, DeliverCounters, AnswerCounters DEF Next

\* The validators' tables agree with the history of each registration: a field
\* is in the table if one of its standing requests added it, and a challenge's
\* counter is the number of its messages that stand, which are its first ones.
THEOREM TablesTellTheHistory == Conforming => (Spec => []TablesAreRight)
<1> SUFFICES ASSUME Conforming  PROVE  Spec => []TablesAreRight
  OBVIOUS
<1>1. Init => TablesInv
  BY InitFields, InitCounters DEF TablesInv
<1>2. TablesInv => TablesAreRight
  BY DEF TablesInv, FieldsInv, FieldsStand, Adds, CountersInv, CountersStand, Order, TablesAreRight
<1>3. TablesInv /\ [Next]_vars => TablesInv'
  BY NextTables
<1> QED  BY <1>1, <1>2, <1>3, PTL DEF Spec

-----------------------------------------------------------------------------
(***************************************************************************)
(* The handler implements the dialogue.                                    *)
(***************************************************************************)
LEMMA InitDialogue == Init => DialogueOf!Init
<1> SUFFICES ASSUME Init  PROVE  DialogueOf!Init
  OBVIOUS
<1>1. \A h \in Handlers : Standing(h) = {} /\ Serving(h) = {}
  BY DEF Init, Standing, Serving
<1> QED  BY <1>1 DEF DialogueOf!Init

\* The dialogue sees nothing of a step that leaves what is served and stands.
LEMMA DialogueKept ==
  ASSUME StandingKept, ServingKept  PROVE  UNCHANGED DialogueOf!vars
  BY DEF StandingKept, ServingKept, DialogueOf!vars

LEMMA CallRefines ==
  ASSUME FieldsInv, NEW r \in Requests, Call(r)
  PROVE  [DialogueOf!Next]_(DialogueOf!vars)
<1>1. CASE ServingKept
  BY <1>1, CallSteps, DialogueKept
<1>2. ASSUME NEW g \in Handlers, Serving(g) = {}, Serving(g)' = {r},
             \A h \in Handlers : h # g => Serving(h)' = Serving(h)
      PROVE  DialogueOf!Next
  <2>1. StandingKept /\ \A h \in Handlers : r \notin Standing(h)
    BY CallSteps
  <2>2. DialogueOf!Begin(g, r)
    BY <1>2, <2>1 DEF DialogueOf!Begin, StandingKept
  <2> QED  BY <2>2 DEF DialogueOf!Next
<1> QED  BY <1>1, <1>2, CallSteps

\* What the validators let through is what the dialogue allows.
LEMMA RefusalIsLegal ==
  ASSUME TablesInv, NEW g \in Handlers, NEW r \in Requests, Refusal(g, Ask[r]) = "none"
  PROVE  DialogueOf!Legal(g, r)
<1> DEFINE a == Ask[r]
           asked == {Ask[s] : s \in Standing(g)}
<1> USE DEF TablesInv
<1>1. CASE a \in AddField
  <2>1. a.field \in Fields /\ a.field \notin fields[g] /\ a \notin RejectFieldValue
             /\ a \notin RespondToChallengeMessage
    BY <1>1 DEF Refusal, AddField, RejectFieldValue, RespondToChallengeMessage
  <2>2. a \notin asked
    BY <1>1, <2>1 DEF FieldsInv, FieldsStand, Adds
  <2> QED  BY <2>1, <2>2 DEF DialogueOf!Legal, DialogueOf!Asked, Requires
<1>2. CASE a \in RejectFieldValue
  <2>1. a.field \in Fields /\ a.field \in fields[g] /\ a \notin AddField
             /\ a \notin RespondToChallengeMessage
    BY <1>2 DEF Refusal, AddField, RejectFieldValue, RespondToChallengeMessage
  <2>2. PICK s \in Standing(g) : Adds(s, a.field)
    BY <2>1 DEF FieldsInv, FieldsStand
  <2>3. \A x \in AddField : x.field = a.field => x = Ask[s]
    BY <2>2 DEF Adds, AddField
  <2> QED  BY <1>2, <2>1, <2>2, <2>3 DEF DialogueOf!Legal, DialogueOf!Asked, Requires, Once
<1>3. CASE a \in RespondToChallengeMessage
  <2> DEFINE d == a.challenge
             k == counter[g][d] + 1
  <2>1. d \in Challenges /\ a \notin AddField /\ a \notin RejectFieldValue
    BY <1>3, MessageType
  <2>2. k \in DOMAIN Order(d) /\ Order(d)[k] = a.name
    BY <1>3, <2>1 DEF Refusal, IsNextMessage, Order
  <2>3. counter[g][d] \in Int
    BY <2>1 DEF FieldsInv, SequentialInv, TypeOK
  <2>4. \A i \in DOMAIN Order(d) :
            i <= counter[g][d] <=> \E s \in Standing(g) : IsMessage(s, d, Order(d)[i])
    BY <2>1 DEF CountersInv, CountersStand
  <2>5. a \notin asked
    BY <1>3, <2>2, <2>3, <2>4 DEF IsMessage
  <2>6. ASSUME NEW j \in DOMAIN Order(d), NEW n \in DOMAIN Order(d), j < n, Order(d)[n] = a.name
        PROVE  [a EXCEPT !.name = Order(d)[j]] \in asked
    <3>1. /\ DOMAIN Order(d) = 1 .. Len(Order(d)) /\ Len(Order(d)) \in Nat
          /\ \A x, y \in DOMAIN Order(d) : Order(d)[x] = Order(d)[y] => x = y
      BY <2>1, NamesOf DEF Order
    <3> HIDE DEF d, k
    <3>2. n = k
      BY <2>2, <2>6, <3>1
    <3>3. j \in Int
      BY <2>6, <3>1
    <3>4. PICK s \in Standing(g) : IsMessage(s, d, Order(d)[j])
      BY <2>3, <2>4, <2>6, <3>2, <3>3 DEF k
    <3>5. Ask[s] = [a EXCEPT !.name = Order(d)[j]]
      BY <1>3, <3>4 DEF IsMessage, RespondToChallengeMessage, d
    <3> QED  BY <3>4, <3>5
  <2>7. Requires(a) \subseteq asked
    BY <1>3, <2>1, <2>6 DEF Requires, Order
  <2> QED  BY <2>5, <2>7 DEF DialogueOf!Legal, DialogueOf!Asked
<1>4. CASE a \notin AddField \union RejectFieldValue \union RespondToChallengeMessage
  BY <1>4 DEF DialogueOf!Legal, Requires, Once
<1> QED  BY <1>1, <1>2, <1>3, <1>4

LEMMA DeliverRefines ==
  ASSUME TablesInv, NEW r \in Requests, Deliver(r)
  PROVE  DialogueOf!Next
<1>1. PICK g \in Handlers :
              /\ Serves(g, r) /\ r \notin Standing(g)
              /\ \A h \in Handlers : h # g => Serving(h)' = Serving(h) /\ Standing(h)' = Standing(h)
              /\ \/ StandingKept /\ Serving(g)' = {}
                 \/ /\ Refusal(g, Ask[r]) = "none"
                    /\ Standing(g)' = Standing(g) \union {r}
                    /\ Serving(g)' = Serving(g)
  BY DeliverSteps DEF TablesInv
<1>2. CASE StandingKept /\ Serving(g)' = {}
  BY <1>1, <1>2 DEF Serves, StandingKept, DialogueOf!Finish, DialogueOf!Next
<1>3. CASE /\ Refusal(g, Ask[r]) = "none"
           /\ Standing(g)' = Standing(g) \union {r}
           /\ Serving(g)' = Serving(g)
  <2>1. DialogueOf!Legal(g, r)
    BY <1>3, RefusalIsLegal
  <2>2. DialogueOf!Accept(g, r)
    BY <1>1, <1>3, <2>1 DEF Serves, DialogueOf!Accept
  <2> QED  BY <2>2 DEF DialogueOf!Next
<1> QED  BY <1>1, <1>2, <1>3

LEMMA AnswerRefines ==
  ASSUME Conforming, TablesInv, NEW r \in Requests, Answer(r)
  PROVE  DialogueOf!Next
<1>1. PICK g \in Handlers :
            /\ Serves(g, r) /\ Serving(g)' = {}
            /\ \A h \in Handlers : h # g => Serving(h)' = Serving(h) /\ Standing(h)' = Standing(h)
            /\ Standing(g)' \in {Standing(g), Standing(g) \ {r}}
  BY AnswerSteps DEF TablesInv
<1>2. DialogueOf!Finish(g, r)
  BY <1>1 DEF Serves, DialogueOf!Finish
<1> QED  BY <1>2 DEF DialogueOf!Next

\* The busy flag and the validators' tables, which the code updates at
\* different moments, implement the dialogue: one request at a time, and only
\* such as the standing requests of the registration allow.
THEOREM HandlerImplementsDialogue == Conforming => (Spec => ImplementsDialogue)
<1> SUFFICES ASSUME Conforming  PROVE  Spec => DialogueOf!Spec
  BY DEF ImplementsDialogue
<1>1. Init => TablesInv
  BY InitFields, InitCounters DEF TablesInv
<1>2. TablesInv /\ [Next]_vars => TablesInv'
  BY NextTables
<1>3. TablesInv /\ [Next]_vars => [DialogueOf!Next]_(DialogueOf!vars)
  <2> SUFFICES ASSUME TablesInv, [Next]_vars  PROVE  [DialogueOf!Next]_(DialogueOf!vars)
    OBVIOUS
  <2>1. CASE UNCHANGED vars
    <3>1. UNCHANGED <<via, stage, answers, settling, reply>>
      BY <2>1 DEF vars
    <3>2. StandingKept /\ ServingKept
      BY <3>1 DEF StandingKept, ServingKept, Standing, Serving
    <3> QED  BY <3>2, DialogueKept
  <2>2. CASE EreaseManager \/ \E h \in Handlers : RegisterManager(h)
    BY <2>2, RegistrationSteps, DialogueKept
  <2>3. ASSUME NEW r \in Requests, Settle(r)  PROVE  [DialogueOf!Next]_(DialogueOf!vars)
    BY <2>3, SettleSteps, DialogueKept DEF TablesInv
  <2> QED
    BY <2>1, <2>2, <2>3, CallRefines, DeliverRefines, AnswerRefines DEF Next, TablesInv
<1> QED  BY <1>1, <1>2, <1>3, InitDialogue, PTL DEF Spec, DialogueOf!Spec
=============================================================================
