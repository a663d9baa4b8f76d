-------------------------- MODULE OperationProofs --------------------------
(***************************************************************************)
(* What holds of a page's two operations, for any values of the constants. *)
(*                                                                         *)
(* First the Registration module: for any fields, any lists that a page    *)
(* adds and revises and any number of calls under way, the page's objects  *)
(* are the record the manager keeps, and the account is saved as it was    *)
(* built.  Then the Authentication module: for any challenges, what the    *)
(* page, the manager and the validator know of them.                       *)
(***************************************************************************)
EXTENDS Registration, Authentication, SequenceTheorems, WellFoundedInduction, TLAPS

\* Calls that change fields of the record, step by step.
Works(q) == q.kind \in {"addFields", "rejectAndReviseFields"}
Adds(t) == tasks[t].kind = "addFields"
\* The step a task waits for.
Asked(q) == q.list[Len(q.got) + 1]
IsTask(t) == tasks[t] # Idle
InService(t) == call # NoCall /\ call.task = t
Answers(n, t) == n \in DOMAIN replies /\ replies[n].task = t

\* A call waits for one thing, the manager or an answer on its way.
OneEach ==
  \A t \in Tasks :
    /\ IsTask(t) => InService(t) \/ \E n \in DOMAIN replies : Answers(n, t)
    /\ InService(t) => IsTask(t) /\ \A n \in DOMAIN replies : ~ Answers(n, t)
    /\ \A n \in DOMAIN replies : Answers(n, t) => IsTask(t)
    /\ \A m, n \in DOMAIN replies : Answers(m, t) /\ Answers(n, t) => m = n

\* A call has a step that it waits for; a call on fields has one step for each
\* field it was given, and the others one or two.
Steps(kind) == IF kind \in {"login", "transitionToAuthOperation"} THEN 2 ELSE 1

TaskFits(q) ==
  /\ q.kind # "none" /\ Len(q.got) < Len(q.list)
  /\ Works(q) => \A i \in DOMAIN q.list : q.list[i].id \in Fields
  /\ ~ Works(q) => Len(q.list) = Steps(q.kind)
  /\ q.kind = "setUserAttributes" => q.list[1].id \in UserAttributes

TasksFit == \A t \in Tasks : IsTask(t) => TaskFits(tasks[t])
CallFits == \A t \in Tasks : InService(t) => call = RequestOf(t, tasks[t])

\* The first call is login, and no other starts before it has succeeded.
PhaseFits ==
  /\ \A t \in Tasks : tasks[t].kind = "login" => phase = "creating"
  /\ \A s, t \in Tasks : tasks[t].kind = "login" /\ tasks[s].kind = "login" => s = t
  /\ phase # "open" => \A t \in Tasks : tasks[t].kind \in {"none", "login", "close"}

CallsFit == OneEach /\ TasksFit /\ CallFits /\ PhaseFits

\* The manager gives a field the value it was asked to, or one of its own.
ValueFits(q, i, v) == v \in Values /\ (q.list[i].value # Null => v = q.list[i].value)

ValuesFit ==
  \A t \in Tasks : Works(tasks[t]) =>
    /\ \A i \in DOMAIN tasks[t].got : ValueFits(tasks[t], i, tasks[t].got[i])
    /\ \A n \in DOMAIN replies : Answers(n, t) /\ replies[n].ok =>
          ValueFits(tasks[t], Len(tasks[t].got) + 1, replies[n].value)

\* What the validator knows, and what it has let through.
KnownFits ==
  \A f \in Fields :
    f \in known <=> \/ record.fields[f] # Null
                    \/ call # NoCall /\ call.method = "addField" /\ call.item.id = f

CallIsRight ==
  call # NoCall =>
    /\ call.method = "addField" => record.fields[call.item.id] = Null
    /\ call.method = "rejectFieldValue" => record.fields[call.item.id] # Null

\* A field the manager has not been given is as the page constructed it.
Untold == \A f \in Fields : record.fields[f] = Null => f \notin fields /\ values[f] = Desired[f]

\* Steps that were granted and that the page has not taken over: their answer is
\* on its way, or kept until all of the call's are there.
On(n, f) ==
  /\ n \in DOMAIN replies /\ replies[n].ok
  /\ Works(tasks[replies[n].task]) /\ Asked(tasks[replies[n].task]).id = f
Kept(t, i, f) == i \in DOMAIN tasks[t].got /\ Works(tasks[t]) /\ tasks[t].list[i].id = f

Obtained(t, i) ==
  \/ i \in DOMAIN tasks[t].got
  \/ i = Len(tasks[t].got) + 1 /\ \E n \in DOMAIN replies : Answers(n, t) /\ replies[n].ok

\* What a page offers for a field that is added is what it constructed it with.
OffersFit ==
  \A t \in Tasks : Adds(t) =>
    \A i \in DOMAIN tasks[t].list :
      record.fields[tasks[t].list[i].id] = Null \/ Obtained(t, i)
        => tasks[t].list[i].value = Desired[tasks[t].list[i].id]

\* A field whose step was granted is in the record: nothing takes one out.
GrantedAreHeld ==
  \A t \in Tasks : Works(tasks[t]) =>
    \A i \in DOMAIN tasks[t].list : Obtained(t, i) => record.fields[tasks[t].list[i].id] # Null

\* A call adds a field once.
AddedOnce ==
  \A t \in Tasks : Adds(t) =>
    \A i, j \in DOMAIN tasks[t].list :
      Obtained(t, i) /\ Obtained(t, j) /\ tasks[t].list[i].id = tasks[t].list[j].id => i = j

ObjectsFit ==
  /\ ValuesFit /\ KnownFits /\ CallIsRight /\ Untold
  /\ OffersFit /\ GrantedAreHeld /\ AddedOnce

\* The field was added to the record, and the page has not taken it over.
IsPending(f) ==
  \/ \E n \in DOMAIN replies : On(n, f) /\ Adds(replies[n].task)
  \/ \E t \in Tasks : Adds(t) /\ \E i \in DOMAIN tasks[t].got : Kept(t, i, f)

\* The last step that was granted decides on the record's field; an addition is
\* the first of them, and the page has not got the field before it is taken over.
LastDecides(f) ==
  /\ \A n \in DOMAIN replies :
        On(n, f) /\ (\A m \in DOMAIN replies : On(m, f) => m <= n)
          => record.fields[f] = replies[n].value
  /\ (\A n \in DOMAIN replies : ~ On(n, f)) =>
        /\ \A t \in Tasks : \A i \in DOMAIN tasks[t].got :
              Kept(t, i, f) /\ (\A j \in DOMAIN tasks[t].got : Kept(t, j, f) => j <= i)
                => record.fields[f] = tasks[t].got[i]
        /\ (\A t \in Tasks : \A i \in DOMAIN tasks[t].got : ~ Kept(t, i, f)) /\ f \in fields
              => values[f] = record.fields[f]

\* Until then the field is not in the page's map and its object is as it was
\* constructed; and no other field of the record is missing from the map.
AdditionsFit(f) ==
  /\ IsPending(f) => f \notin fields /\ values[f] = Desired[f]
  /\ record.fields[f] # Null /\ f \notin fields => IsPending(f)
  /\ \A m, n \in DOMAIN replies :
        On(m, f) /\ On(n, f) /\ Adds(replies[n].task) /\ m # n => n < m

\* Of two calls on a field none is on several fields, or the field is torn.
Shared(f) ==
  \A s, t \in Tasks :
    f \in Touches(tasks[s]) /\ f \in Touches(tasks[t]) /\ s # t
      => ~ IsBatch(tasks[s]) /\ ~ IsBatch(tasks[t])

FieldsFit == \A f \in Fields \ torn : LastDecides(f) /\ AdditionsFit(f) /\ Shared(f)

\* The same for the metadata and, one by one, for the user attributes: the last
\* call that was granted decides, and without one the page is as the record.
Sets(n) == n \in DOMAIN replies /\ replies[n].ok /\ tasks[replies[n].task].kind = "setMetadata"

MetadataFits ==
  /\ \A n \in DOMAIN replies :
        Sets(n) /\ (\A m \in DOMAIN replies : Sets(m) => m <= n)
          => tasks[replies[n].task].metadata = record.metadata
  /\ (\A n \in DOMAIN replies : ~ Sets(n)) =>
        record.metadata = RecordDefault \/ metadata = record.metadata

SetsAttribute(n, a) ==
  /\ n \in DOMAIN replies /\ replies[n].ok
  /\ tasks[replies[n].task].kind = "setUserAttributes"
  /\ tasks[replies[n].task].list[1].id = a

AttributesFit ==
  \A a \in UserAttributes :
    /\ \A n \in DOMAIN replies :
          SetsAttribute(n, a) /\ (\A m \in DOMAIN replies : SetsAttribute(m, a) => m <= n)
            => tasks[replies[n].task].list[1].value = record.attributes[a]
    /\ (\A n \in DOMAIN replies : ~ SetsAttribute(n, a)) /\ phase = "open"
            => attributes[a] = record.attributes[a]

\* While save is the page's only call, nothing changes the record, and nothing
\* does after it.
SaveIsAlone ==
  ~ late => \A s, t \in Tasks : tasks[t].kind = "save" /\ s # t => tasks[s] = Idle

\* The calls that ask for no change of the record.
Quiet == {"none", "transitionToAuthOperation", "close"}

\* Until a late call, the account is the record as it was when save was granted,
\* and the page no longer makes calls once save has returned.
AccountFits ==
  account # NoAccount /\ ~ late =>
    /\ account.fields = record.fields /\ phase = "open"
    /\ \/ \E n \in DOMAIN replies : replies[n].ok /\ tasks[replies[n].task].kind = "save"
       \/ ~ active /\ \A t \in Tasks : tasks[t].kind \in Quiet

\* The manager approves the transition of an account that it has saved.
TransitionFits ==
  \A t \in Tasks : tasks[t].kind = "transitionToAuthOperation" /\ Obtained(t, 1)
                     => account \in Record

RecordFits == MetadataFits /\ AttributesFit /\ SaveIsAlone /\ AccountFits /\ TransitionFits

\* The invariant: inductive, for any values of the constants.
PageRecordInv == TypeOK /\ CallsFit /\ ObjectsFit /\ FieldsFit /\ RecordFits

-----------------------------------------------------------------------------
(***************************************************************************)
(* Requests, answers and steps                                             *)
(***************************************************************************)
LEMMA MethodFits ==
  ASSUME NEW kind \in Kinds, NEW k
  PROVE  /\ MethodOf(kind, k) \in Methods
         /\ MethodOf(kind, k) = "addField" <=> kind = "addFields"
         /\ MethodOf(kind, k) = "rejectFieldValue" <=> kind = "rejectAndReviseFields"
         /\ MethodOf(kind, k) = "updateMetadata" <=> kind = "setMetadata"
         /\ MethodOf(kind, k) = "updateUserAttributes" <=> kind = "setUserAttributes"
         /\ MethodOf(kind, k) = "closeOperation" <=> kind = "save"
         /\ MethodOf(kind, k) = "approveOperation" => kind = "login"
         /\ MethodOf(kind, k) = "approveTransitionToAuthOp" <=> kind = "transitionToAuthOperation" /\ k = 1
  BY DEF MethodOf, Kinds, Methods

LEMMA TaskParts ==
  ASSUME NEW q \in Task
  PROVE  /\ q.kind \in Kinds \union {"none"} /\ q.metadata \in Metadata
         /\ q.list \in Seq(Item) /\ q.got \in Seq(Values \union {Null})
         /\ Len(q.list) \in Nat /\ DOMAIN q.list = 1 .. Len(q.list)
         /\ Len(q.got) \in Nat /\ DOMAIN q.got = 1 .. Len(q.got)
         /\ \A i \in DOMAIN q.list : q.list[i] \in Item
         /\ \A i \in DOMAIN q.got : q.got[i] \in Values \union {Null}
  BY DEF Task

LEMMA IdleParts ==
  /\ Idle.kind = "none" /\ Idle.list = <<>> /\ Idle.got = <<>> /\ Idle \in Task
  /\ ~ Works(Idle) /\ ~ IsBatch(Idle) /\ Touches(Idle) = {}
<1>1. PageDefault \in Metadata
  BY DEF PageDefault, Metadata
<1>2. Idle.kind = "none" /\ Idle.list = <<>> /\ Idle.got = <<>> /\ Idle \in Task
  BY <1>1 DEF Idle, Task
<1> QED  BY <1>2 DEF Works, IsBatch, Touches

LEMMA RequestFits ==
  ASSUME NEW t \in Tasks, NEW q \in Task, TaskFits(q)
  PROVE  /\ Len(q.got) + 1 \in DOMAIN q.list
         /\ RequestOf(t, q) \in Request /\ RequestOf(t, q).task = t
         /\ RequestOf(t, q).method = MethodOf(q.kind, Len(q.got) + 1)
         /\ RequestOf(t, q).item = Asked(q) /\ RequestOf(t, q).metadata = q.metadata
         /\ Asked(q) \in Item
<1>1. Len(q.got) + 1 \in DOMAIN q.list
  BY TaskParts DEF TaskFits
<1>2. q.list[Len(q.got) + 1] \in Item
  BY <1>1, TaskParts
<1>3. MethodOf(q.kind, Len(q.got) + 1) \in Methods
  BY MethodFits, TaskParts DEF TaskFits
<1> QED  BY <1>1, <1>2, <1>3, TaskParts DEF RequestOf, Request, Asked

\* The first answer is heard.
LEMMA AnswersGone ==
  ASSUME TypeOK, replies # <<>>, replies' = Tail(replies)
  PROVE  /\ replies' \in Seq(Reply) /\ Len(replies) \in Nat \ {0}
         /\ DOMAIN replies = 1 .. Len(replies) /\ DOMAIN replies' = 1 .. Len(replies) - 1
         /\ Head(replies) = replies[1] /\ replies[1] \in Reply
         /\ 1 \in DOMAIN replies
         /\ \A n \in DOMAIN replies' : n \in Nat \ {0} /\ n + 1 \in DOMAIN replies /\ replies'[n] = replies[n + 1]
         /\ \A n \in DOMAIN replies : n \in Nat /\ (n = 1 \/ (n - 1 \in DOMAIN replies' /\ replies'[n - 1] = replies[n]))
         /\ \A n \in DOMAIN replies : replies[n] \in Reply
<1>1. replies \in Seq(Reply)
  BY DEF TypeOK
<1>2. /\ replies' \in Seq(Reply) /\ Len(replies) \in Nat \ {0}
      /\ DOMAIN replies = 1 .. Len(replies) /\ DOMAIN replies' = 1 .. Len(replies) - 1
      /\ Head(replies) = replies[1]
  BY <1>1, HeadTailProperties, EmptySeq
<1>3. \A n \in DOMAIN replies' : n + 1 \in DOMAIN replies /\ replies'[n] = replies[n + 1]
  BY <1>1, <1>2, HeadTailProperties
<1>4. \A n \in DOMAIN replies : n = 1 \/ n - 1 \in DOMAIN replies'
  BY <1>2
<1>5. \A n \in DOMAIN replies : n - 1 \in DOMAIN replies' => replies'[n - 1] = replies[n]
  BY <1>2, <1>3
<1>6. \A n \in DOMAIN replies : replies[n] \in Reply
  BY <1>1, <1>2
<1> QED  BY <1>1, <1>2, <1>3, <1>4, <1>5, <1>6

\* The manager answers.
LEMMA AnswerAdded ==
  ASSUME TypeOK, NEW x \in Reply, replies' = Append(replies, x)
  PROVE  /\ replies' \in Seq(Reply) /\ Len(replies) \in Nat
         /\ DOMAIN replies = 1 .. Len(replies) /\ DOMAIN replies' = 1 .. Len(replies) + 1
         /\ replies'[Len(replies) + 1] = x
         /\ \A n \in DOMAIN replies : n \in DOMAIN replies' /\ replies'[n] = replies[n] /\ replies[n] \in Reply
         /\ \A n \in DOMAIN replies' : n \in Nat /\ (n \in DOMAIN replies \/ n = Len(replies) + 1)
<1>1. replies \in Seq(Reply)
  BY DEF TypeOK
<1>2. /\ replies' \in Seq(Reply) /\ Len(replies) \in Nat /\ DOMAIN replies = 1 .. Len(replies)
      /\ Len(replies') = Len(replies) + 1 /\ replies'[Len(replies) + 1] = x
      /\ \A n \in 1 .. Len(replies) : replies'[n] = replies[n]
  BY <1>1, AppendProperties
<1>3. DOMAIN replies' = 1 .. Len(replies) + 1
  BY <1>2
<1>4. \A n \in DOMAIN replies : replies[n] \in Reply
  BY <1>1, <1>2
<1> QED  BY <1>2, <1>3, <1>4

-----------------------------------------------------------------------------
(***************************************************************************)
(* The steps, as what the invariants need of them                          *)
(***************************************************************************)
\* A call of the page, as what it asks for.
Starts(t, q) ==
  /\ q \in Task /\ TaskFits(q) /\ q.got = <<>>
  /\ Begin(t, q)
  /\ UNCHANGED <<active, objects, authMetadata>>
  /\ IF q.kind = "login" THEN phase = "none" /\ phase' = "creating"
     ELSE UNCHANGED phase /\ (q.kind = "close" \/ phase = "open") /\ (q.kind \in Quiet \/ active)
  /\ q.kind = "addFields" =>
        \A i \in DOMAIN q.list : q.list[i].id \in Fields /\ q.list[i].value = values[q.list[i].id]

\* An answer arrives that settles its call.
Settles(t) ==
  /\ Heard(t) /\ replies' = Tail(replies)
  /\ tasks' = [tasks EXCEPT ![t] = Idle]
  /\ phase' = phase \/ (tasks[t].kind = "login" /\ phase' \in {"open", "failed"})
  /\ torn \subseteq torn'
  /\ UNCHANGED <<call, manager, late, calls>>

\* An answer arrives, and the call's next request is sent.
GoesOn(t, q) ==
  /\ Heard(t) /\ replies' = Tail(replies) /\ replies[1].ok
  /\ q = [tasks[t] EXCEPT !.got = Append(@, replies[1].value)]
  /\ tasks' = [tasks EXCEPT ![t] = q] /\ Len(q.got) < Len(q.list)
  /\ call = NoCall /\ IsValid(RequestOf(t, q)) /\ Send(RequestOf(t, q))
  /\ UNCHANGED <<channel, objects, phase, torn, authMetadata, record, account, granted, late, calls>>
  /\ active' = (IF tasks[t].kind = "login" THEN TRUE
                ELSE IF tasks[t].kind = "transitionToAuthOperation" THEN FALSE ELSE active)

LEMMA ItemsFit ==
  ASSUME NEW ids \in Fields \union UserAttributes \union {Null}, NEW v \in Values \union {Null}
  PROVE  [id |-> ids, value |-> v] \in Item
  BY DEF Item

LEMMA NewTasks ==
  ASSUME NEW kind \in Kinds, NEW list \in Seq(Item)
  PROVE  /\ NewTask(kind, list) \in Task /\ NewTask(kind, list).kind = kind
         /\ NewTask(kind, list).list = list
         /\ NewTask(kind, list).got = <<>> /\ Len(NewTask(kind, list).got) = 0
<1>1. Idle \in Task /\ Idle.got = <<>> /\ Len(<<>>) = 0
  BY IdleParts
<1> QED  BY <1>1 DEF NewTask, Task

LEMMA Singles ==
  ASSUME NEW S, NEW x \in S
  PROVE  /\ <<x>> \in Seq(S) /\ Len(<<x>>) = 1 /\ DOMAIN <<x>> = {1} /\ <<x>>[1] = x
         /\ <<x, x>> \in Seq(S) /\ Len(<<x, x>>) = 2
  OBVIOUS

LEMMA OthersFit ==
  ASSUME NEW q \in Task, Len(q.got) = 0, Len(q.list) = Steps(q.kind), ~ Works(q), q.kind # "none",
         q.kind = "setUserAttributes" => q.list[1].id \in UserAttributes
  PROVE  TaskFits(q)
<1>1. Steps(q.kind) \in {1, 2}
  BY DEF Steps
<1>2. Len(q.got) < Len(q.list)
  BY <1>1
<1> QED  BY <1>2 DEF TaskFits

\* Each call a page makes is a start of a task that fits.
LEMMA PlainCalls ==
  ASSUME NEW t \in Tasks, NEW kind \in {"login", "save", "transitionToAuthOperation", "close"},
         NEW list, list = (IF Steps(kind) = 2 THEN <<NoItem, NoItem>> ELSE <<NoItem>>)
  PROVE  /\ NewTask(kind, list) \in Task /\ TaskFits(NewTask(kind, list))
         /\ NewTask(kind, list).kind = kind /\ NewTask(kind, list).got = <<>>
<1>1. NoItem \in Item
  BY ItemsFit DEF NoItem
<1>2. list \in Seq(Item) /\ Len(list) = Steps(kind) /\ Steps(kind) \in {1, 2}
  BY <1>1, Singles DEF Steps
<1>3. kind \in Kinds
  BY DEF Kinds
<1> PICK q : q = NewTask(kind, list)
  OBVIOUS
<1>4. q \in Task /\ q.kind = kind /\ q.list = list /\ q.got = <<>> /\ Len(q.got) = 0
  BY <1>2, <1>3, NewTasks
<1>5. ~ Works(q) /\ q.kind \notin {"none", "setUserAttributes"}
  BY <1>4 DEF Works
<1>6. q.kind # "none" /\ Len(q.list) = Steps(q.kind) /\ q.kind # "setUserAttributes"
  BY <1>2, <1>4, <1>5
<1>7. TaskFits(q)
  BY <1>4, <1>5, <1>6, OthersFit
<1> QED  BY <1>4, <1>7

LEMMA LoginStarts ==
  ASSUME TypeOK, NEW t \in Tasks, Login(t)
  PROVE  \E q \in Task : Starts(t, q)
<1> PICK q : q = NewTask("login", <<NoItem, NoItem>>)
  OBVIOUS
<1>1. q \in Task /\ TaskFits(q) /\ q.kind = "login" /\ q.got = <<>>
  BY PlainCalls DEF Steps
<1> QED  BY <1>1 DEF Login, Starts

LEMMA PlainCallStarts ==
  ASSUME TypeOK, NEW t \in Tasks, Save(t) \/ TransitionToAuthOperation(t) \/ CloseChannel(t)
  PROVE  \E q \in Task : Starts(t, q)
<1>1. CASE Save(t)
  <2> PICK q : q = NewTask("save", <<NoItem>>)
    OBVIOUS
  <2>1. q \in Task /\ TaskFits(q) /\ q.kind = "save" /\ q.got = <<>>
    BY PlainCalls DEF Steps
  <2> QED  BY <1>1, <2>1 DEF Save, Call, Active, Starts
<1>2. CASE TransitionToAuthOperation(t)
  <2> PICK q : q = NewTask("transitionToAuthOperation", <<NoItem, NoItem>>)
    OBVIOUS
  <2>1. q \in Task /\ TaskFits(q) /\ q.kind = "transitionToAuthOperation" /\ q.got = <<>>
    BY PlainCalls DEF Steps
  <2> QED  BY <1>2, <2>1 DEF TransitionToAuthOperation, Call, Starts, Quiet
<1>3. CASE CloseChannel(t)
  <2> PICK q : q = NewTask("close", <<NoItem>>)
    OBVIOUS
  <2>1. q \in Task /\ TaskFits(q) /\ q.kind = "close" /\ q.got = <<>>
    BY PlainCalls DEF Steps
  <2> QED  BY <1>3, <2>1 DEF CloseChannel, Call, Starts, Quiet
<1> QED  BY <1>1, <1>2, <1>3

LEMMA SettersStart ==
  ASSUME TypeOK, NEW t \in Tasks,
         \/ \E v \in Versions : SetVersion(t, v)
         \/ \E s \in Statuses : SetStatus(t, s)
  PROVE  \E q \in Task : Starts(t, q)
<1>1. \E m \in Metadata : Active /\ Call(t, [NewTask("setMetadata", <<NoItem>>) EXCEPT !.metadata = m])
  <2>1. metadata \in Metadata
    BY DEF TypeOK
  <2>2. \A v \in Versions : [metadata EXCEPT !.version = v] \in Metadata
    BY <2>1 DEF Metadata
  <2>3. \A s \in Statuses : [metadata EXCEPT !.status = s] \in Metadata
    BY <2>1 DEF Metadata
  <2> QED  BY <2>2, <2>3 DEF SetVersion, SetStatus
<1> PICK m \in Metadata : Active /\ Call(t, [NewTask("setMetadata", <<NoItem>>) EXCEPT !.metadata = m])
  BY <1>1
<1> PICK p : p = NewTask("setMetadata", <<NoItem>>)
  OBVIOUS
<1>2. NoItem \in Item
  BY ItemsFit DEF NoItem
<1>3. p \in Task /\ p.kind = "setMetadata" /\ p.list = <<NoItem>> /\ p.got = <<>>
  <2>1. <<NoItem>> \in Seq(Item) /\ "setMetadata" \in Kinds
    BY <1>2, Singles DEF Kinds
  <2> QED  BY <2>1, NewTasks
<1> PICK q : q = [p EXCEPT !.metadata = m]
  OBVIOUS
<1>4. q \in Task /\ q.kind = "setMetadata" /\ q.list = <<NoItem>> /\ q.got = <<>>
  BY <1>3 DEF Task
<1>5. TaskFits(q)
  <2>1. Len(q.list) = 1 /\ Len(q.got) = 0 /\ ~ Works(q)
    BY <1>2, <1>4, Singles DEF Works
  <2>2. Len(q.list) = Steps(q.kind) /\ q.kind \notin {"none", "setUserAttributes"}
    BY <1>4, <2>1 DEF Steps
  <2> QED  BY <1>4, <2>1, <2>2, OthersFit
<1> QED  BY <1>4, <1>5 DEF Call, Active, Starts

LEMMA AttributeStarts ==
  ASSUME TypeOK, NEW t \in Tasks, NEW a \in UserAttributes, NEW v \in Values,
         SetUserAttributes(t, a, v)
  PROVE  \E q \in Task : Starts(t, q)
<1> PICK x : x = [id |-> a, value |-> v]
  OBVIOUS
<1> PICK q : q = NewTask("setUserAttributes", <<x>>)
  OBVIOUS
<1>1. x \in Item /\ x.id = a
  BY ItemsFit
<1>2. q \in Task /\ q.kind = "setUserAttributes" /\ q.list = <<x>> /\ q.got = <<>>
  <2>1. <<x>> \in Seq(Item) /\ "setUserAttributes" \in Kinds
    BY <1>1, Singles DEF Kinds
  <2> QED  BY <2>1, NewTasks
<1>3. TaskFits(q)
  <2>1. Len(q.list) = 1 /\ q.list[1] = x /\ Len(q.got) = 0 /\ ~ Works(q)
    BY <1>1, <1>2, Singles DEF Works
  <2>2. Len(q.list) = Steps(q.kind) /\ q.kind # "none" /\ q.list[1].id \in UserAttributes
    BY <1>1, <1>2, <2>1 DEF Steps
  <2> QED  BY <1>2, <2>1, <2>2, OthersFit
<1> QED  BY <1>2, <1>3 DEF SetUserAttributes, Call, Active, Starts

LEMMA AddFieldsStarts ==
  ASSUME TypeOK, NEW t \in Tasks, NEW ids \in Additions, AddFields(t, ids)
  PROVE  \E q \in Task : Starts(t, q)
<1>1. ids \in Seq(Fields) /\ ids # <<>>
  BY RegistrationAssumption
<1>2. Len(ids) \in Nat \ {0} /\ DOMAIN ids = 1 .. Len(ids) /\ \A i \in DOMAIN ids : ids[i] \in Fields
  BY <1>1, EmptySeq
<1> PICK list : list = [i \in DOMAIN ids |-> [id |-> ids[i], value |-> values[ids[i]]]]
  OBVIOUS
<1>3. \A i \in DOMAIN ids : list[i] \in Item /\ list[i].id = ids[i] /\ list[i].value = values[ids[i]]
  BY <1>2, ItemsFit DEF TypeOK
<1>4. DOMAIN list = 1 .. Len(ids)
  BY <1>2
<1>5. list \in Seq(Item) /\ Len(list) = Len(ids)
  <2>1. list \in [1 .. Len(ids) -> Item]
    BY <1>2, <1>3, <1>4
  <2> QED  BY <1>2, <2>1, SeqDef
<1> PICK q : q = NewTask("addFields", list)
  OBVIOUS
<1>6. q \in Task /\ q.kind = "addFields" /\ q.list = list /\ q.got = <<>>
  BY <1>5, NewTasks DEF Kinds
<1>7. TaskFits(q)
  BY <1>2, <1>3, <1>4, <1>5, <1>6 DEF TaskFits, Works
<1>8. \A i \in DOMAIN q.list : q.list[i].id \in Fields /\ q.list[i].value = values[q.list[i].id]
  BY <1>2, <1>3, <1>4, <1>6
<1> QED  BY <1>6, <1>7, <1>8 DEF AddFields, Call, Active, Starts

LEMMA RevisionStarts ==
  ASSUME TypeOK, NEW t \in Tasks, NEW list \in Revisions, NEW asObjects \in BOOLEAN,
         RejectAndReviseFields(t, list, asObjects)
  PROVE  \E q \in Task : Starts(t, q)
<1>1. list \in Seq([id : Fields, value : Values \union {Null}]) /\ list # <<>>
  BY RegistrationAssumption
<1>2. Len(list) \in Nat \ {0} /\ DOMAIN list = 1 .. Len(list) /\ \A i \in DOMAIN list : list[i] \in [id : Fields, value : Values \union {Null}]
  <2> PICK S : S = [id : Fields, value : Values \union {Null}]
    OBVIOUS
  <2>1. list \in Seq(S) /\ list # <<>>
    BY <1>1
  <2>2. Len(list) \in Nat \ {0} /\ DOMAIN list = 1 .. Len(list)
    BY <2>1, EmptySeq
  <2>3. \A i \in DOMAIN list : list[i] \in S
    BY <2>1, <2>2, ElementOfSeq
  <2> QED  BY <2>2, <2>3
<1>3. \A i \in DOMAIN list : list[i] \in Item /\ list[i].id \in Fields
  BY <1>2 DEF Item
<1>4. list \in Seq(Item)
  <2>1. list \in [1 .. Len(list) -> Item]
    BY <1>1, <1>2, <1>3
  <2> QED  BY <1>2, <2>1, SeqDef
<1> PICK q : q = NewTask("rejectAndReviseFields", list)
  OBVIOUS
<1>5. q \in Task /\ q.kind = "rejectAndReviseFields" /\ q.list = list /\ q.got = <<>>
  BY <1>4, NewTasks DEF Kinds
<1>6. TaskFits(q)
  BY <1>2, <1>3, <1>5 DEF TaskFits, Works
<1> QED  BY <1>5, <1>6 DEF RejectAndReviseFields, Call, Active, Starts

\* The answer that is heard is the only one of its call, which the manager is
\* not serving.
LEMMA HeardOne ==
  ASSUME TypeOK, CallsFit, NEW t \in Tasks, Heard(t)
  PROVE  /\ 1 \in DOMAIN replies /\ replies[1] = Head(replies) /\ replies[1] \in Reply
         /\ replies[1].task = t /\ IsTask(t) /\ ~ InService(t)
         /\ \A n \in DOMAIN replies : replies[n].task = t => n = 1
         /\ tasks[t] \in Task /\ TaskFits(tasks[t])
         /\ Latest(t) = Append(tasks[t].got, replies[1].value)
         /\ Latest(t) \in Seq(Values \union {Null}) /\ Len(Latest(t)) = Len(tasks[t].got) + 1
         /\ DOMAIN Latest(t) = 1 .. Len(tasks[t].got) + 1
         /\ \A i \in 1 .. Len(tasks[t].got) : Latest(t)[i] = tasks[t].got[i]
         /\ Latest(t)[Len(tasks[t].got) + 1] = replies[1].value
<1>1. replies \in Seq(Reply) /\ replies # <<>>
  BY DEF Heard, TypeOK
<1>2. 1 \in DOMAIN replies /\ replies[1] = Head(replies) /\ replies[1] \in Reply
  BY <1>1, HeadTailProperties, EmptySeq
<1>3. replies[1].task = t
  BY <1>2 DEF Heard
<1>4. IsTask(t) /\ ~ InService(t) /\ \A n \in DOMAIN replies : replies[n].task = t => n = 1
  BY <1>2, <1>3 DEF CallsFit, OneEach, Answers
<1>5. tasks[t] \in Task /\ TaskFits(tasks[t])
  BY <1>4 DEF CallsFit, TasksFit, TypeOK
<1>6. Latest(t) = Append(tasks[t].got, replies[1].value)
  BY <1>2 DEF Latest
<1>7. tasks[t].got \in Seq(Values \union {Null}) /\ replies[1].value \in Values \union {Null}
  BY <1>2, <1>5, TaskParts DEF Reply
<1>8. /\ Latest(t) \in Seq(Values \union {Null}) /\ Len(Latest(t)) = Len(tasks[t].got) + 1
      /\ \A i \in 1 .. Len(tasks[t].got) : Latest(t)[i] = tasks[t].got[i]
      /\ Latest(t)[Len(tasks[t].got) + 1] = replies[1].value
  BY <1>6, <1>7, AppendProperties
<1>9. DOMAIN Latest(t) = 1 .. Len(tasks[t].got) + 1
  BY <1>8, LenProperties
<1> QED  BY <1>2, <1>3, <1>4, <1>5, <1>6, <1>8, <1>9

\* A call fails: what the manager had granted of it is remembered as torn.
Failing(t) ==
  /\ Settles(t) /\ UNCHANGED <<channel, objects, authMetadata>>
  /\ phase' = IF tasks[t].kind = "login" THEN "failed" ELSE phase
  /\ active' \in BOOLEAN
  /\ active' => active \/ tasks[t].kind = "login"
  /\ torn' \subseteq Fields
  /\ tasks[t].kind \in {"save", "setMetadata", "setUserAttributes"} => ~ replies[1].ok
  /\ Works(tasks[t]) => \A i \in DOMAIN tasks[t].list : Obtained(t, i) => tasks[t].list[i].id \in torn'

LEMMA Torn ==
  ASSUME TypeOK, NEW t \in Tasks, tasks[t] \in Task, TaskFits(tasks[t]),
         NEW n \in Nat, n < Len(tasks[t].list), End(t, n)
  PROVE  /\ torn \subseteq torn' /\ torn' \subseteq Fields
         /\ phase' = IF tasks[t].kind = "login" THEN "failed" ELSE phase
         /\ tasks' = [tasks EXCEPT ![t] = Idle]
         /\ Works(tasks[t]) => \A i \in DOMAIN tasks[t].list : i <= n => tasks[t].list[i].id \in torn'
<1> PICK q : q = tasks[t]
  OBVIOUS
<1> PICK p : p = [q EXCEPT !.list = SubSeq(@, 1, n)]
  OBVIOUS
<1>1. q \in Task /\ q.list \in Seq(Item) /\ Len(q.list) \in Nat /\ DOMAIN q.list = 1 .. Len(q.list)
  BY TaskParts
<1>2. p.kind = q.kind /\ p.list = SubSeq(q.list, 1, n)
  BY <1>1 DEF Task
<1>3. Len(p.list) = n /\ DOMAIN p.list = 1 .. n /\ \A i \in 1 .. n : p.list[i] = q.list[i]
  <2>1. \A i \in 1 .. n : q.list[i] \in Item
    BY <1>1
  <2>2. n = 0 \/ n \in 1 .. Len(q.list)
    BY <1>1
  <2> QED  BY <1>1, <1>2, <2>2, SubSeqProperties, SubSeqEmpty
<1>4. Works(q) => \A i \in 1 .. n : q.list[i].id \in Fields
  BY <1>1 DEF TaskFits
<1>5. Works(q) => Touches(p) = {q.list[i].id : i \in 1 .. n}
  BY <1>2, <1>3 DEF Works, Touches
<1>6. ~ Works(q) => Touches(p) = {}
  BY <1>2 DEF Works, Touches
<1>7. torn' = IF n = 0 THEN torn ELSE torn \union Touches(p)
  BY <1>1 DEF End
<1>8. torn \subseteq torn' /\ torn' \subseteq Fields
  BY <1>4, <1>5, <1>6, <1>7 DEF TypeOK
<1>9. Works(q) => \A i \in DOMAIN q.list : i <= n => q.list[i].id \in torn'
  <2> SUFFICES ASSUME Works(q), NEW i \in DOMAIN q.list, i <= n  PROVE  q.list[i].id \in torn'
    OBVIOUS
  <2>1. i \in 1 .. n /\ n # 0
    BY <1>1
  <2> QED  BY <1>5, <1>7, <2>1
<1>10. phase' = (IF tasks[t].kind = "login" THEN "failed" ELSE phase) /\ tasks' = [tasks EXCEPT ![t] = Idle]
  BY <1>1 DEF End
<1> QED  BY <1>8, <1>9, <1>10

LEMMA RejectedFails ==
  ASSUME TypeOK, CallsFit, NEW t \in Tasks, Rejected(t)
  PROVE  Failing(t)
<1>1. Heard(t) /\ replies' = Tail(replies) /\ ~ replies[1].ok
  BY HeardOne DEF Rejected
<1>2. Len(tasks[t].got) \in Nat /\ Len(tasks[t].got) < Len(tasks[t].list)
  BY <1>1, HeardOne, TaskParts DEF TaskFits
<1>3. End(t, Len(tasks[t].got))
  BY DEF Rejected
<1>4. \A i \in DOMAIN tasks[t].list : Obtained(t, i) => i <= Len(tasks[t].got)
  BY <1>1, HeardOne, TaskParts DEF Obtained, Answers
<1>5. /\ torn \subseteq torn' /\ torn' \subseteq Fields
      /\ phase' = IF tasks[t].kind = "login" THEN "failed" ELSE phase
      /\ tasks' = [tasks EXCEPT ![t] = Idle]
      /\ Works(tasks[t]) => \A i \in DOMAIN tasks[t].list : i <= Len(tasks[t].got) => tasks[t].list[i].id \in torn'
  BY <1>1, <1>2, <1>3, HeardOne, Torn
<1>6. UNCHANGED <<channel, active, objects, authMetadata, call, manager, late, calls>>
  BY DEF Rejected
<1> QED  BY <1>1, <1>4, <1>5, <1>6 DEF Failing, Settles, TypeOK

LEMMA ContinuedFits ==
  ASSUME TypeOK, CallsFit, NEW t \in Tasks, Continued(t)
  PROVE  Failing(t) \/ \E q \in Task : GoesOn(t, q)
<1>1. Heard(t) /\ replies' = Tail(replies) /\ replies[1].ok
  BY HeardOne DEF Continued
<1> PICK q : q = [tasks[t] EXCEPT !.got = Latest(t)]
  OBVIOUS
<1>2. q \in Task /\ q.got = Latest(t) /\ q.list = tasks[t].list /\ q.kind = tasks[t].kind
  <2>1. tasks[t] \in Task /\ Latest(t) \in Seq(Values \union {Null})
    BY <1>1, HeardOne
  <2> QED  BY <2>1 DEF Task
<1>3. Len(tasks[t].got) \in Nat /\ Len(tasks[t].list) \in Nat /\ Len(q.got) = Len(tasks[t].got) + 1
  BY <1>1, <1>2, HeardOne, TaskParts
<1>4. Len(q.got) < Len(q.list)
  BY <1>1, <1>2, <1>3, HeardOne DEF Continued, IsLast, TaskFits
<1>5. /\ active' = (IF tasks[t].kind = "login" THEN TRUE
                    ELSE IF tasks[t].kind = "transitionToAuthOperation" THEN FALSE ELSE active)
      /\ UNCHANGED <<channel, objects, authMetadata, record, account, granted, late, calls>>
  BY DEF Continued
<1>6. CASE CanSend(RequestOf(t, q))
  <2>1. /\ Send(RequestOf(t, q)) /\ tasks' = [tasks EXCEPT ![t] = q] /\ UNCHANGED <<phase, torn>>
        /\ call = NoCall /\ IsValid(RequestOf(t, q))
    BY <1>6 DEF Continued, Proceed, CanSend
  <2>2. q = [tasks[t] EXCEPT !.got = Append(@, replies[1].value)]
    BY <1>1, <1>2, HeardOne
  <2> QED  BY <1>1, <1>2, <1>4, <1>5, <2>1, <2>2 DEF GoesOn
<1>7. CASE ~ CanSend(RequestOf(t, q))
  <2>1. End(t, Len(q.got)) /\ UNCHANGED <<call, known>>
    BY <1>7 DEF Continued, Proceed
  <2>2. \A i \in DOMAIN tasks[t].list : Obtained(t, i) => i <= Len(q.got)
    BY <1>1, <1>3, HeardOne, TaskParts DEF Obtained
  <2>3. Len(q.got) \in Nat /\ Len(q.got) < Len(tasks[t].list)
    BY <1>2, <1>3, <1>4
  <2>4. /\ torn \subseteq torn' /\ torn' \subseteq Fields
        /\ phase' = IF tasks[t].kind = "login" THEN "failed" ELSE phase
        /\ tasks' = [tasks EXCEPT ![t] = Idle]
        /\ Works(tasks[t]) => \A i \in DOMAIN tasks[t].list : i <= Len(q.got) => tasks[t].list[i].id \in torn'
    BY <1>1, <2>1, <2>3, HeardOne, Torn
  <2>5. tasks[t].kind \notin {"save", "setMetadata", "setUserAttributes"}
    <3> SUFFICES ASSUME tasks[t].kind \in {"save", "setMetadata", "setUserAttributes"}  PROVE  FALSE
      OBVIOUS
    <3>1. ~ Works(tasks[t]) /\ Steps(tasks[t].kind) = 1
      BY DEF Works, Steps
    <3>2. Len(tasks[t].list) = 1
      BY <1>1, <3>1, HeardOne DEF TaskFits
    <3> QED  BY <1>3, <2>3, <3>2
  <2>6. active' \in BOOLEAN /\ (active' => active \/ tasks[t].kind = "login")
    BY <1>5 DEF TypeOK
  <2>7. Works(tasks[t]) => \A i \in DOMAIN tasks[t].list : Obtained(t, i) => tasks[t].list[i].id \in torn'
    BY <2>2, <2>4
  <2>8. Settles(t)
    BY <1>1, <1>5, <2>1, <2>4 DEF Settles, manager
  <2> QED  BY <1>5, <2>4, <2>5, <2>6, <2>7, <2>8 DEF Failing
<1> QED  BY <1>6, <1>7

LEMMA CompletedSettles ==
  ASSUME TypeOK, CallsFit, NEW t \in Tasks, Completed(t)
  PROVE  /\ Settles(t) /\ Heard(t) /\ replies[1].ok /\ Len(tasks[t].list) = Len(tasks[t].got) + 1
         /\ phase' = (IF tasks[t].kind = "login" THEN "open" ELSE phase) /\ UNCHANGED torn
<1>1. Heard(t) /\ replies' = Tail(replies) /\ replies[1].ok
  BY HeardOne DEF Completed
<1>2. Len(tasks[t].list) = Len(tasks[t].got) + 1
  BY <1>1, HeardOne DEF Completed, IsLast
<1>3. End(t, Len(tasks[t].list)) /\ UNCHANGED <<call, manager, late, calls>>
  BY DEF Completed
<1> QED  BY <1>1, <1>2, <1>3 DEF End, Settles

-----------------------------------------------------------------------------
(***************************************************************************)
(* Each call waits for one thing                                           *)
(***************************************************************************)
LEMMA StartsFacts ==
  ASSUME TypeOK, CallsFit, NEW t \in Tasks, NEW q, Starts(t, q)
  PROVE  /\ q \in Task /\ TaskFits(q) /\ q.got = <<>> /\ Len(q.got) = 0
         /\ tasks[t] = Idle /\ (\A n \in DOMAIN replies : replies[n].task # t)
         /\ tasks'[t] = q /\ (\A s \in Tasks \ {t} : tasks'[s] = tasks[s])
         /\ tasks' \in [Tasks -> Task]
         /\ call = NoCall /\ call' = RequestOf(t, q) /\ call' # NoCall /\ call' \in Request
         /\ call'.task = t /\ call'.method = MethodOf(q.kind, 1) /\ call'.item = Asked(q) /\ call'.item = q.list[1]
         /\ call'.metadata = q.metadata
         /\ IsValid(call')
         /\ known' = (IF call'.method = "addField" THEN known \union {call'.item.id} ELSE known)
         /\ UNCHANGED <<channel, replies, record, account, granted>>
<1>1. q \in Task /\ TaskFits(q) /\ q.got = <<>> /\ Len(q.got) = 0
  BY EmptySeq DEF Starts
<1>2. tasks[t] = Idle /\ CanSend(RequestOf(t, q)) /\ Send(RequestOf(t, q)) /\ tasks' = [tasks EXCEPT ![t] = q]
      /\ UNCHANGED <<channel, replies, record, account, granted>>
  BY DEF Starts, Begin
<1>3. \A n \in DOMAIN replies : replies[n].task # t
  BY <1>2 DEF CallsFit, OneEach, Answers, IsTask
<1>4. tasks'[t] = q /\ (\A s \in Tasks \ {t} : tasks'[s] = tasks[s]) /\ tasks' \in [Tasks -> Task]
  BY <1>1, <1>2 DEF TypeOK
<1>5. call = NoCall /\ call' = RequestOf(t, q) /\ IsValid(call')
      /\ known' = (IF call'.method = "addField" THEN known \union {call'.item.id} ELSE known)
  BY <1>2 DEF CanSend, Send
<1>6. RequestOf(t, q) \in Request /\ RequestOf(t, q).task = t /\ RequestOf(t, q).method = MethodOf(q.kind, 1)
      /\ RequestOf(t, q).item = Asked(q) /\ Asked(q) = q.list[1] /\ RequestOf(t, q).metadata = q.metadata
  BY <1>1, RequestFits DEF Asked
<1>7. RequestOf(t, q) # NoCall
  BY <1>6, NoCallAssumption
<1> QED  BY <1>1, <1>2, <1>3, <1>4, <1>5, <1>6, <1>7

LEMMA StartsCallsFit ==
  ASSUME TypeOK, CallsFit, NEW t \in Tasks, NEW q, Starts(t, q)
  PROVE  CallsFit'
<1>1. /\ q \in Task /\ TaskFits(q) /\ tasks[t] = Idle /\ (\A n \in DOMAIN replies : replies[n].task # t)
      /\ tasks'[t] = q /\ (\A s \in Tasks \ {t} : tasks'[s] = tasks[s])
      /\ call = NoCall /\ call' = RequestOf(t, q) /\ call' # NoCall /\ call'.task = t /\ UNCHANGED replies
  BY StartsFacts
<1>2. q # Idle /\ q.kind # "none"
  BY <1>1, IdleParts DEF TaskFits
<1>3. OneEach'
  BY <1>1, <1>2 DEF CallsFit, OneEach, IsTask, InService, Answers
<1>4. TasksFit' /\ CallFits'
  BY <1>1 DEF CallsFit, TasksFit, CallFits, IsTask, InService
<1>5. PhaseFits'
  <2>1. CASE q.kind = "login"
    <3>1. phase = "none" /\ phase' = "creating"
      BY <2>1 DEF Starts
    <3> QED  BY <1>1, <2>1, <3>1 DEF CallsFit, PhaseFits
  <2>2. CASE q.kind # "login"
    <3>1. phase' = phase /\ (q.kind = "close" \/ phase = "open")
      BY <2>2 DEF Starts
    <3> QED  BY <1>1, <2>2, <3>1 DEF CallsFit, PhaseFits
  <2> QED  BY <2>1, <2>2
<1> QED  BY <1>3, <1>4, <1>5 DEF CallsFit

LEMMA SettlesFacts ==
  ASSUME TypeOK, CallsFit, NEW t \in Tasks, Settles(t)
  PROVE  /\ tasks'[t] = Idle /\ (\A s \in Tasks \ {t} : tasks'[s] = tasks[s]) /\ tasks' \in [Tasks -> Task]
         /\ replies # <<>> /\ replies' = Tail(replies)
  BY IdleParts DEF Settles, Heard, TypeOK

LEMMA SettlesCallsFit ==
  ASSUME TypeOK, CallsFit, NEW t \in Tasks, Settles(t)
  PROVE  CallsFit'
<1>1. /\ tasks'[t] = Idle /\ (\A s \in Tasks \ {t} : tasks'[s] = tasks[s])
      /\ replies # <<>> /\ replies' = Tail(replies) /\ UNCHANGED call
  BY SettlesFacts DEF Settles
<1>2. /\ 1 \in DOMAIN replies /\ replies[1].task = t /\ IsTask(t) /\ ~ InService(t)
      /\ \A n \in DOMAIN replies : replies[n].task = t => n = 1
  BY HeardOne DEF Settles
<1>3. /\ \A n \in DOMAIN replies' : n \in Nat \ {0} /\ n + 1 \in DOMAIN replies /\ replies'[n] = replies[n + 1]
      /\ \A n \in DOMAIN replies : n \in Nat /\ (n = 1 \/ (n - 1 \in DOMAIN replies' /\ replies'[n - 1] = replies[n]))
  BY <1>1, AnswersGone
<1>4. OneEach'
  <2> SUFFICES ASSUME NEW s \in Tasks
               PROVE  /\ IsTask(s)' => InService(s)' \/ \E n \in DOMAIN replies' : Answers(n, s)'
                      /\ InService(s)' => IsTask(s)' /\ \A n \in DOMAIN replies' : ~ Answers(n, s)'
                      /\ \A n \in DOMAIN replies' : Answers(n, s)' => IsTask(s)'
                      /\ \A m, n \in DOMAIN replies' : Answers(m, s)' /\ Answers(n, s)' => m = n
    BY DEF OneEach
  <2>1. \A n \in DOMAIN replies' : replies'[n].task # t
    BY <1>2, <1>3
  <2>2. CASE s = t
    BY <1>1, <1>2, <2>1, <2>2 DEF IsTask, InService, Answers
  <2>3. CASE s # t
    <3>1. /\ IsTask(s) => InService(s) \/ \E n \in DOMAIN replies : Answers(n, s)
          /\ InService(s) => IsTask(s) /\ \A n \in DOMAIN replies : ~ Answers(n, s)
          /\ \A n \in DOMAIN replies : Answers(n, s) => IsTask(s)
          /\ \A m, n \in DOMAIN replies : Answers(m, s) /\ Answers(n, s) => m = n
      BY DEF CallsFit, OneEach
    <3>2. (IsTask(s)' <=> IsTask(s)) /\ (InService(s)' <=> InService(s))
      BY <1>1, <2>3 DEF IsTask, InService
    <3>3. \A n \in DOMAIN replies' : Answers(n, s)' <=> Answers(n + 1, s)
      BY <1>3 DEF Answers
    <3>4. \A n \in DOMAIN replies : Answers(n, s) => n - 1 \in DOMAIN replies' /\ Answers(n - 1, s)'
      BY <1>2, <1>3, <2>3 DEF Answers
    <3> QED  BY <1>3, <3>1, <3>2, <3>3, <3>4
  <2> QED  BY <2>2, <2>3
<1>5. TasksFit' /\ CallFits'
  BY <1>1, <1>2 DEF CallsFit, TasksFit, CallFits, IsTask, InService
<1>6. PhaseFits'
  <2>1. phase' = phase \/ (tasks[t].kind = "login" /\ phase' \in {"open", "failed"})
    BY DEF Settles
  <2>2. tasks'[t].kind = "none"
    BY <1>1, IdleParts
  <2>3. PhaseFits
    BY DEF CallsFit
  <2> QED  BY <1>1, <2>1, <2>2, <2>3 DEF PhaseFits
<1> QED  BY <1>4, <1>5, <1>6 DEF CallsFit

LEMMA GoesOnFacts ==
  ASSUME TypeOK, CallsFit, NEW t \in Tasks, NEW q, GoesOn(t, q)
  PROVE  /\ q \in Task /\ TaskFits(q) /\ q.kind = tasks[t].kind /\ q.list = tasks[t].list
         /\ q.metadata = tasks[t].metadata
         /\ q.got = Latest(t) /\ Len(q.got) = Len(tasks[t].got) + 1
         /\ tasks'[t] = q /\ (\A s \in Tasks \ {t} : tasks'[s] = tasks[s]) /\ tasks' \in [Tasks -> Task]
         /\ replies # <<>> /\ replies' = Tail(replies)
         /\ call = NoCall /\ call' = RequestOf(t, q) /\ call' # NoCall /\ call' \in Request
         /\ call'.task = t /\ call'.method = MethodOf(q.kind, Len(q.got) + 1) /\ call'.item = Asked(q)
         /\ IsValid(call') /\ Len(q.got) + 1 \in DOMAIN q.list
         /\ known' = (IF call'.method = "addField" THEN known \union {call'.item.id} ELSE known)
<1>1. Heard(t)
  BY DEF GoesOn
<1>2. /\ tasks[t] \in Task /\ TaskFits(tasks[t]) /\ Latest(t) = Append(tasks[t].got, replies[1].value)
      /\ Latest(t) \in Seq(Values \union {Null}) /\ Len(Latest(t)) = Len(tasks[t].got) + 1
  BY <1>1, HeardOne
<1>3. q = [tasks[t] EXCEPT !.got = Latest(t)]
  BY <1>2 DEF GoesOn
<1>4. q \in Task /\ q.kind = tasks[t].kind /\ q.list = tasks[t].list /\ q.got = Latest(t) /\ q.metadata = tasks[t].metadata
  BY <1>2, <1>3 DEF Task
<1>5. TaskFits(q)
  BY <1>2, <1>4 DEF TaskFits, Works, GoesOn
<1>6. tasks'[t] = q /\ (\A s \in Tasks \ {t} : tasks'[s] = tasks[s]) /\ tasks' \in [Tasks -> Task]
  BY <1>4 DEF GoesOn, TypeOK
<1>7. call = NoCall /\ call' = RequestOf(t, q) /\ IsValid(call') /\ replies' = Tail(replies)
      /\ known' = (IF call'.method = "addField" THEN known \union {call'.item.id} ELSE known)
  BY DEF GoesOn, Send
<1>8. /\ RequestOf(t, q) \in Request /\ RequestOf(t, q).task = t
      /\ RequestOf(t, q).method = MethodOf(q.kind, Len(q.got) + 1) /\ RequestOf(t, q).item = Asked(q)
      /\ Len(q.got) + 1 \in DOMAIN q.list
  BY <1>4, <1>5, RequestFits
<1>9. RequestOf(t, q) # NoCall
  BY <1>8, NoCallAssumption
<1> QED  BY <1>1, <1>2, <1>4, <1>5, <1>6, <1>7, <1>8, <1>9 DEF Heard

LEMMA GoesOnCallsFit ==
  ASSUME TypeOK, CallsFit, NEW t \in Tasks, NEW q, GoesOn(t, q)
  PROVE  CallsFit'
<1>1. /\ q \in Task /\ TaskFits(q) /\ q.kind = tasks[t].kind /\ tasks'[t] = q
      /\ (\A s \in Tasks \ {t} : tasks'[s] = tasks[s])
      /\ replies # <<>> /\ replies' = Tail(replies)
      /\ call = NoCall /\ call' = RequestOf(t, q) /\ call' # NoCall /\ call'.task = t
  BY GoesOnFacts
<1>2. /\ 1 \in DOMAIN replies /\ replies[1].task = t
      /\ \A n \in DOMAIN replies : replies[n].task = t => n = 1
  BY HeardOne DEF GoesOn
<1>3. /\ \A n \in DOMAIN replies' : n \in Nat \ {0} /\ n + 1 \in DOMAIN replies /\ replies'[n] = replies[n + 1]
      /\ \A n \in DOMAIN replies : n \in Nat /\ (n = 1 \/ (n - 1 \in DOMAIN replies' /\ replies'[n - 1] = replies[n]))
  BY <1>1, AnswersGone
<1>4. q # Idle
  BY <1>1, IdleParts DEF TaskFits
<1>5. OneEach'
  <2> SUFFICES ASSUME NEW s \in Tasks
               PROVE  /\ IsTask(s)' => InService(s)' \/ \E n \in DOMAIN replies' : Answers(n, s)'
                      /\ InService(s)' => IsTask(s)' /\ \A n \in DOMAIN replies' : ~ Answers(n, s)'
                      /\ \A n \in DOMAIN replies' : Answers(n, s)' => IsTask(s)'
                      /\ \A m, n \in DOMAIN replies' : Answers(m, s)' /\ Answers(n, s)' => m = n
    BY DEF OneEach
  <2>1. \A n \in DOMAIN replies' : replies'[n].task # t
    BY <1>2, <1>3
  <2>2. CASE s = t
    BY <1>1, <1>2, <1>4, <2>1, <2>2 DEF IsTask, InService, Answers
  <2>3. CASE s # t
    <3>1. /\ IsTask(s) => \E n \in DOMAIN replies : Answers(n, s)
          /\ \A n \in DOMAIN replies : Answers(n, s) => IsTask(s)
          /\ \A m, n \in DOMAIN replies : Answers(m, s) /\ Answers(n, s) => m = n
      BY <1>1 DEF CallsFit, OneEach, InService
    <3>2. (IsTask(s)' <=> IsTask(s)) /\ ~ InService(s)'
      BY <1>1, <2>3 DEF IsTask, InService
    <3>3. \A n \in DOMAIN replies' : Answers(n, s)' <=> Answers(n + 1, s)
      BY <1>3 DEF Answers
    <3>4. \A n \in DOMAIN replies : Answers(n, s) => n - 1 \in DOMAIN replies' /\ Answers(n - 1, s)'
      BY <1>2, <1>3, <2>3 DEF Answers
    <3> QED  BY <1>3, <3>1, <3>2, <3>3, <3>4
  <2> QED  BY <2>2, <2>3
<1>6. TasksFit' /\ CallFits'
  BY <1>1 DEF CallsFit, TasksFit, CallFits, IsTask, InService
<1>7. PhaseFits'
  <2>1. phase' = phase /\ PhaseFits /\ (\A s \in Tasks : tasks'[s].kind = tasks[s].kind)
    BY <1>1 DEF GoesOn, CallsFit
  <2> QED  BY <2>1 DEF PhaseFits
<1> QED  BY <1>5, <1>6, <1>7 DEF CallsFit

\* The manager answers the request of a call.
Answered(t, x) ==
  /\ InService(t) /\ call' = NoCall
  /\ x.task = t /\ replies' = Append(replies, x)
  /\ UNCHANGED <<page, tasks, torn, late, calls>>

LEMMA AnsweredCallsFit ==
  ASSUME TypeOK, CallsFit, NEW t \in Tasks, NEW x \in Reply, Answered(t, x)
  PROVE  CallsFit'
<1>1. /\ call' = NoCall /\ x.task = t /\ InService(t) /\ UNCHANGED <<page, tasks>>
      /\ replies' = Append(replies, x)
  BY DEF Answered
<1>2. /\ Len(replies) + 1 \in DOMAIN replies' /\ replies'[Len(replies) + 1] = x
      /\ \A n \in DOMAIN replies : n \in DOMAIN replies' /\ replies'[n] = replies[n] /\ n # Len(replies) + 1
      /\ \A n \in DOMAIN replies' : n \in Nat /\ (n \in DOMAIN replies \/ n = Len(replies) + 1)
  BY <1>1, AnswerAdded
<1>3. IsTask(t) /\ \A n \in DOMAIN replies : replies[n].task # t
  BY <1>1 DEF CallsFit, OneEach, Answers
<1>4. \A s \in Tasks \ {t} : ~ InService(s)
  BY <1>1 DEF InService
<1>5. OneEach'
  <2> SUFFICES ASSUME NEW s \in Tasks
               PROVE  /\ IsTask(s)' => InService(s)' \/ \E n \in DOMAIN replies' : Answers(n, s)'
                      /\ InService(s)' => IsTask(s)' /\ \A n \in DOMAIN replies' : ~ Answers(n, s)'
                      /\ \A n \in DOMAIN replies' : Answers(n, s)' => IsTask(s)'
                      /\ \A m, n \in DOMAIN replies' : Answers(m, s)' /\ Answers(n, s)' => m = n
    BY DEF OneEach
  <2>1. (IsTask(s)' <=> IsTask(s)) /\ ~ InService(s)'
    BY <1>1 DEF IsTask, InService
  <2>2. CASE s = t
    <3>1. \A n \in DOMAIN replies' : Answers(n, s)' <=> n = Len(replies) + 1
      BY <1>1, <1>2, <1>3, <2>2 DEF Answers
    <3> QED  BY <1>2, <1>3, <2>1, <2>2, <3>1
  <2>3. CASE s # t
    <3>1. \A n \in DOMAIN replies' : Answers(n, s)' <=> n \in DOMAIN replies /\ Answers(n, s)
      BY <1>1, <1>2, <2>3 DEF Answers
    <3>2. /\ IsTask(s) => \E n \in DOMAIN replies : Answers(n, s)
          /\ \A n \in DOMAIN replies : Answers(n, s) => IsTask(s)
          /\ \A m, n \in DOMAIN replies : Answers(m, s) /\ Answers(n, s) => m = n
      BY <1>4, <2>3 DEF CallsFit, OneEach
    <3> QED  BY <1>2, <2>1, <3>1, <3>2
  <2> QED  BY <2>2, <2>3
<1> QED  BY <1>1, <1>5 DEF CallsFit, TasksFit, CallFits, PhaseFits, IsTask, InService, page

\* What is served, as the call has it.
LEMMA ServedFacts ==
  ASSUME TypeOK, CallsFit, NEW t \in Tasks, InService(t)
  PROVE  /\ tasks[t] \in Task /\ TaskFits(tasks[t]) /\ IsTask(t)
         /\ tasks[t].kind \in Kinds
         /\ call.method = MethodOf(tasks[t].kind, Len(tasks[t].got) + 1)
         /\ call.item = Asked(tasks[t]) /\ call.item \in Item /\ call.metadata = tasks[t].metadata
         /\ Len(tasks[t].got) + 1 \in DOMAIN tasks[t].list
         /\ Works(tasks[t]) => call.item.id \in Fields
         /\ ~ Works(tasks[t]) /\ Steps(tasks[t].kind) = 1 => call.item = tasks[t].list[1] /\ Len(tasks[t].got) = 0
<1>1. IsTask(t) /\ tasks[t] \in Task /\ TaskFits(tasks[t]) /\ call = RequestOf(t, tasks[t])
  BY DEF CallsFit, OneEach, TasksFit, CallFits, TypeOK
<1>2. tasks[t].kind \in Kinds
  BY <1>1, TaskParts DEF TaskFits
<1>3. /\ Len(tasks[t].got) + 1 \in DOMAIN tasks[t].list
      /\ call.method = MethodOf(tasks[t].kind, Len(tasks[t].got) + 1)
      /\ call.item = Asked(tasks[t]) /\ call.item \in Item /\ call.metadata = tasks[t].metadata
  BY <1>1, RequestFits
<1>4. Works(tasks[t]) => call.item.id \in Fields
  BY <1>1, <1>3 DEF TaskFits, Asked
<1>5. ~ Works(tasks[t]) /\ Steps(tasks[t].kind) = 1 => call.item = tasks[t].list[1] /\ Len(tasks[t].got) = 0
  <2> SUFFICES ASSUME ~ Works(tasks[t]), Steps(tasks[t].kind) = 1
               PROVE  call.item = tasks[t].list[1] /\ Len(tasks[t].got) = 0
    OBVIOUS
  <2>1. Len(tasks[t].list) = 1 /\ Len(tasks[t].got) < 1 /\ Len(tasks[t].got) \in Nat
    BY <1>1, TaskParts DEF TaskFits
  <2>2. Len(tasks[t].got) = 0
    BY <2>1
  <2> QED  BY <1>3, <2>2 DEF Asked
<1> QED  BY <1>1, <1>2, <1>3, <1>4, <1>5

LEMMA RecordParts ==
  ASSUME TypeOK
  PROVE  /\ record \in Record
         /\ record.fields \in [Fields -> Values \union {Null}] /\ record.metadata \in Metadata
         /\ record.attributes \in [UserAttributes -> Values \union {Null}]
  BY DEF TypeOK, Record

\* What granting a call's request does to the record.
GrantsTo(t, x) ==
  /\ Answered(t, x) /\ x.ok /\ UNCHANGED known /\ granted' \in BOOLEAN
  /\ record' \in Record
  /\ IF Works(tasks[t])
     THEN /\ ValueFits(tasks[t], Len(tasks[t].got) + 1, x.value)
          /\ record'.fields = [record.fields EXCEPT ![Asked(tasks[t]).id] = x.value]
     ELSE record'.fields = record.fields
  /\ record'.metadata = IF tasks[t].kind = "setMetadata" THEN tasks[t].metadata ELSE record.metadata
  /\ record'.attributes =
        IF tasks[t].kind = "setUserAttributes"
        THEN [record.attributes EXCEPT ![tasks[t].list[1].id] = tasks[t].list[1].value] ELSE record.attributes
  /\ account' = IF tasks[t].kind = "save" THEN record ELSE account
  /\ tasks[t].kind = "transitionToAuthOperation" /\ Len(tasks[t].got) = 0 => account # NoAccount

LEMMA GrantFacts ==
  ASSUME TypeOK, CallsFit, Grant
  PROVE  \E t \in Tasks, x \in Reply : GrantsTo(t, x)
<1>1. call # NoCall /\ call \in Request /\ call.task \in Tasks
  BY DEF Grant, TypeOK, Request
<1> PICK t : t = call.task
  OBVIOUS
<1>2. t \in Tasks /\ InService(t)
  BY <1>1 DEF InService
<1>3. /\ tasks[t] \in Task /\ TaskFits(tasks[t]) /\ tasks[t].kind \in Kinds
      /\ call.method = MethodOf(tasks[t].kind, Len(tasks[t].got) + 1)
      /\ call.item = Asked(tasks[t]) /\ call.item \in Item /\ call.metadata = tasks[t].metadata
      /\ Len(tasks[t].got) + 1 \in DOMAIN tasks[t].list
      /\ Works(tasks[t]) => call.item.id \in Fields
      /\ ~ Works(tasks[t]) /\ Steps(tasks[t].kind) = 1 => call.item = tasks[t].list[1] /\ Len(tasks[t].got) = 0
  BY <1>2, ServedFacts
<1>4. \A v \in Values \union {Null} :
         [task |-> t, ok |-> TRUE, value |-> v] \in Reply
         /\ (Resolve(v) => Answered(t, [task |-> t, ok |-> TRUE, value |-> v]) /\ UNCHANGED known)
  BY <1>2 DEF Reply, Resolve, Answered
<1>5. /\ call.method = "addField" <=> tasks[t].kind = "addFields"
      /\ call.method = "rejectFieldValue" <=> tasks[t].kind = "rejectAndReviseFields"
      /\ call.method = "updateMetadata" <=> tasks[t].kind = "setMetadata"
      /\ call.method = "updateUserAttributes" <=> tasks[t].kind = "setUserAttributes"
      /\ call.method = "closeOperation" <=> tasks[t].kind = "save"
      /\ call.method = "approveOperation" => tasks[t].kind = "login"
      /\ call.method = "approveTransitionToAuthOp"
            <=> tasks[t].kind = "transitionToAuthOperation" /\ Len(tasks[t].got) + 1 = 1
  BY <1>3, MethodFits
<1>6. /\ record \in Record /\ record.fields \in [Fields -> Values \union {Null}] /\ record.metadata \in Metadata
      /\ record.attributes \in [UserAttributes -> Values \union {Null}] /\ granted \in BOOLEAN
  BY RecordParts DEF TypeOK
<1>7. call.item.value \in Values \union {Null} /\ call.item = tasks[t].list[Len(tasks[t].got) + 1] /\ Null \notin Values
  BY <1>3, RegistrationAssumption DEF Item, Asked
<1>8. ASSUME NEW v \in Values, Resolve(v), tasks[t].kind \in {"addFields", "rejectAndReviseFields"},
             call.item.value # Null => v = call.item.value,
             record' = [record EXCEPT !.fields[call.item.id] = v], UNCHANGED <<account, granted>>
      PROVE  \E x \in Reply : GrantsTo(t, x)
  <2> PICK x : x = [task |-> t, ok |-> TRUE, value |-> v]
    OBVIOUS
  <2>1. x \in Reply /\ Answered(t, x) /\ UNCHANGED known /\ x.ok /\ x.value = v
    BY <1>4, <1>8
  <2>2. Works(tasks[t]) /\ call.item.id \in Fields
    BY <1>3, <1>8 DEF Works
  <2> PICK f : f = call.item.id
    OBVIOUS
  <2>3. /\ record' \in Record /\ record'.fields = [record.fields EXCEPT ![f] = v]
        /\ record'.metadata = record.metadata /\ record'.attributes = record.attributes
    BY <1>6, <1>8, <2>2 DEF Record
  <2>4. ValueFits(tasks[t], Len(tasks[t].got) + 1, x.value)
    BY <1>7, <1>8, <2>1 DEF ValueFits
  <2>5. tasks[t].kind \notin {"setMetadata", "setUserAttributes", "save", "transitionToAuthOperation"}
    BY <1>8
  <2>6. record'.fields = [record.fields EXCEPT ![Asked(tasks[t]).id] = x.value]
    BY <1>3, <2>1, <2>3
  <2>7. UNCHANGED account /\ granted' \in BOOLEAN
    BY <1>6, <1>8
  <2> QED  BY <2>1, <2>2, <2>3, <2>4, <2>5, <2>6, <2>7 DEF GrantsTo
<1>9. CASE AddField
  <2>1. tasks[t].kind = "addFields"
    BY <1>5, <1>9 DEF AddField, Serving
  <2> PICK v \in IF call.item.value = Null THEN Values ELSE {call.item.value} :
              Resolve(v) /\ record' = [record EXCEPT !.fields[call.item.id] = v]
    BY <1>9 DEF AddField
  <2>2. v \in Values /\ (call.item.value # Null => v = call.item.value)
    BY <1>7
  <2> QED  BY <1>2, <1>8, <1>9, <2>1, <2>2 DEF AddField
<1>10. CASE RejectFieldValue
  <2>1. tasks[t].kind = "rejectAndReviseFields"
    BY <1>5, <1>10 DEF RejectFieldValue, Serving
  <2> PICK v \in IF call.item.value = Null THEN Values \ {record.fields[call.item.id]} ELSE {call.item.value} :
              Resolve(v) /\ record' = [record EXCEPT !.fields[call.item.id] = v]
    BY <1>10 DEF RejectFieldValue
  <2>2. v \in Values /\ (call.item.value # Null => v = call.item.value)
    BY <1>7
  <2> QED  BY <1>2, <1>8, <1>10, <2>1, <2>2 DEF RejectFieldValue
<1> PICK x : x = [task |-> t, ok |-> TRUE, value |-> Null]
  OBVIOUS
<1>11. x \in Reply /\ x.ok /\ (Resolve(Null) => Answered(t, x) /\ UNCHANGED known)
  BY <1>4
<1>12. CASE UpdateRecord
  <2>1. Resolve(Null) /\ UNCHANGED <<account, granted>> /\ tasks[t].kind \in {"setMetadata", "setUserAttributes"}
        /\ ~ Works(tasks[t])
    BY <1>5, <1>12 DEF UpdateRecord, Serving, Works
  <2>2. CASE tasks[t].kind = "setMetadata"
    <3>1. record' = [record EXCEPT !.metadata = tasks[t].metadata] /\ tasks[t].metadata \in Metadata
      BY <1>3, <1>5, <1>12, <2>2, TaskParts DEF UpdateRecord
    <3>2. /\ record' \in Record /\ record'.fields = record.fields /\ record'.metadata = tasks[t].metadata
          /\ record'.attributes = record.attributes
      BY <1>6, <3>1 DEF Record
    <3> QED  BY <1>2, <1>6, <1>11, <2>1, <2>2, <3>2 DEF GrantsTo
  <2>3. CASE tasks[t].kind = "setUserAttributes"
    <3>1. call.item = tasks[t].list[1] /\ call.item.id \in UserAttributes
      BY <1>3, <2>1, <2>3 DEF Steps, TaskFits
    <3> PICK a : a = call.item.id
      OBVIOUS
    <3> PICK v : v = call.item.value
      OBVIOUS
    <3>2. record' = [record EXCEPT !.attributes[a] = v] /\ a \in UserAttributes /\ v \in Values \union {Null}
      BY <1>5, <1>7, <1>12, <2>3, <3>1 DEF UpdateRecord
    <3>3. /\ record' \in Record /\ record'.fields = record.fields /\ record'.metadata = record.metadata
          /\ record'.attributes = [record.attributes EXCEPT ![a] = v]
      BY <1>6, <3>2 DEF Record
    <3>4. record'.attributes = [record.attributes EXCEPT ![tasks[t].list[1].id] = tasks[t].list[1].value]
      BY <3>1, <3>3
    <3> QED  BY <1>2, <1>6, <1>11, <2>1, <2>3, <3>3, <3>4 DEF GrantsTo
  <2> QED  BY <2>1, <2>2, <2>3
<1>13. CASE CloseOperation
  <2>1. Resolve(Null) /\ account' = record /\ UNCHANGED <<record, granted>> /\ tasks[t].kind = "save" /\ ~ Works(tasks[t])
    BY <1>5, <1>13 DEF CloseOperation, Serving, Works
  <2> QED  BY <1>2, <1>6, <1>11, <2>1 DEF GrantsTo
<1>14. CASE ApproveOperation \/ GetRecord \/ ApproveTransitionToAuthOp \/ HandleCloseChannel
  <2>1. Resolve(Null) /\ UNCHANGED <<record, account>> /\ granted' \in BOOLEAN
    BY <1>6, <1>14 DEF ApproveOperation, GetRecord, ApproveTransitionToAuthOp,
        HandleCloseChannel
  <2>2. call.method \notin {"addField", "rejectFieldValue", "updateMetadata", "updateUserAttributes", "closeOperation"}
    BY <1>14 DEF ApproveOperation, GetRecord, ApproveTransitionToAuthOp, HandleCloseChannel,
        Serving
  <2>3. tasks[t].kind \notin {"addFields", "rejectAndReviseFields", "setMetadata", "setUserAttributes", "save"}
    BY <1>5, <2>2
  <2>4. call.method = "approveTransitionToAuthOp" => account # NoAccount
    BY <1>14 DEF ApproveOperation, GetRecord, ApproveTransitionToAuthOp, HandleCloseChannel,
        Serving
  <2>5. tasks[t].kind = "transitionToAuthOperation" /\ Len(tasks[t].got) = 0 => account # NoAccount
    BY <1>5, <2>4
  <2>6. ~ Works(tasks[t])
    BY <2>3 DEF Works
  <2> QED  BY <1>2, <1>6, <1>11, <2>1, <2>3, <2>5, <2>6 DEF GrantsTo
<1> QED  BY <1>2, <1>9, <1>10, <1>12, <1>13, <1>14 DEF Grant

LEMMA RejectFacts ==
  ASSUME TypeOK, CallsFit, Reject
  PROVE  /\ UNCHANGED <<page, tasks, record, account, granted, torn, late, calls>>
         /\ call # NoCall /\ call' = NoCall
         /\ known' = IF call.method = "addField" THEN known \ {call.item.id} ELSE known
         /\ \/ UNCHANGED replies /\ \A t \in Tasks : ~ InService(t)
            \/ \E t \in Tasks, x \in Reply : Answered(t, x) /\ ~ x.ok
<1>1. /\ call # NoCall /\ call' = NoCall /\ call.task \in Tasks \union {0}
      /\ UNCHANGED <<page, tasks, record, account, granted, torn, late, calls>>
      /\ known' = IF call.method = "addField" THEN known \ {call.item.id} ELSE known
  BY DEF Reject, TypeOK, Request
<1>2. CASE call.task = 0
  <2>1. UNCHANGED replies /\ 0 \notin Tasks
    BY <1>2 DEF Reject, Tasks
  <2> QED  BY <1>1, <1>2, <2>1 DEF InService
<1>3. CASE call.task # 0
  <2> PICK x : x = [task |-> call.task, ok |-> FALSE, value |-> Null]
    OBVIOUS
  <2>1. x \in Reply /\ x.task = call.task /\ ~ x.ok
    BY <1>1, <1>3 DEF Reply
  <2>2. replies' = Append(replies, x)
    BY <1>3 DEF Reject
  <2> QED  BY <1>1, <1>3, <2>1, <2>2 DEF Answered, InService
<1> QED  BY <1>1, <1>2, <1>3

-----------------------------------------------------------------------------
(***************************************************************************)
(* Types                                                                   *)
(***************************************************************************)
\* A non-empty set of positions has a last one.
LEMMA LastOne ==
  ASSUME NEW n \in Nat, NEW S, S \subseteq 1 .. n, S # {}
  PROVE  \E m \in S : \A k \in S : k <= m
<1>1. \A k \in S : k \in Nat /\ n - k \in Nat
  <2> SUFFICES ASSUME NEW k \in S  PROVE  k \in Nat /\ n - k \in Nat
    OBVIOUS
  <2>1. k \in 1 .. n
    OBVIOUS
  <2>2. k \in Nat /\ k <= n
    BY <2>1
  <2> QED  BY <2>2
<1>2. PICK T : T = {n - k : k \in S}
  OBVIOUS
<1>3. T \subseteq Nat /\ T # {}
  BY <1>1, <1>2
<1>4. IsWellFoundedOn(OpToRel(<, Nat), Nat)
  BY NatLessThanWellFounded
<1>5. PICK m \in T : \A k \in T : ~ (<<k, m>> \in OpToRel(<, Nat))
  BY <1>3, <1>4, WFMin
<1>6. \A k \in T : ~ (k < m)
  BY <1>3, <1>5 DEF OpToRel
<1>7. PICK k \in S : m = n - k
  BY <1>2
<1>8. ASSUME NEW j \in S  PROVE  j <= k
  <2>1. ~ (n - j < n - k)
    BY <1>2, <1>6, <1>7
  <2>2. j \in Nat /\ k \in Nat
    BY <1>1
  <2> QED  BY <2>1, <2>2
<1> QED  BY <1>8

LEMMA TouchesFields ==
  ASSUME NEW q \in Task, TaskFits(q) \/ q = Idle
  PROVE  /\ Touches(q) \subseteq Fields
         /\ ~ Works(q) => Touches(q) = {}
         /\ Works(q) => \A f : f \in Touches(q) <=> \E i \in DOMAIN q.list : q.list[i].id = f
<1>1. ~ Works(q) => Touches(q) = {}
  BY DEF Works, Touches
<1>2. CASE Works(q)
  <2>1. q # Idle
    BY <1>2, IdleParts
  <2> QED  BY <1>2, <2>1 DEF Touches, TaskFits, Works
<1> QED  BY <1>1, <1>2

LEMMA TaskTouches ==
  ASSUME TypeOK, CallsFit, NEW t \in Tasks
  PROVE  /\ tasks[t] \in Task /\ (TaskFits(tasks[t]) \/ tasks[t] = Idle)
         /\ Touches(tasks[t]) \subseteq Fields
         /\ ~ Works(tasks[t]) => Touches(tasks[t]) = {}
         /\ Works(tasks[t]) => \A f : f \in Touches(tasks[t]) <=> \E i \in DOMAIN tasks[t].list : tasks[t].list[i].id = f
         /\ Works(tasks[t]) => TaskFits(tasks[t]) /\ IsTask(t)
<1>1. tasks[t] \in Task /\ (TaskFits(tasks[t]) \/ tasks[t] = Idle)
  BY DEF TypeOK, CallsFit, TasksFit, IsTask
<1> QED  BY <1>1, TouchesFields, IdleParts DEF IsTask

LEMMA StartsTypeOK ==
  ASSUME TypeOK, CallsFit, NEW t \in Tasks, NEW q, Starts(t, q)
  PROVE  TypeOK'
<1>1. /\ q \in Task /\ TaskFits(q) /\ tasks' \in [Tasks -> Task] /\ call' \in Request
      /\ call'.method = MethodOf(q.kind, 1) /\ call'.item = q.list[1] /\ Len(q.got) = 0
      /\ known' = (IF call'.method = "addField" THEN known \union {call'.item.id} ELSE known)
      /\ UNCHANGED <<channel, replies, record, account, granted>>
  BY StartsFacts
<1>2. torn' = torn \union Overlap(t, q) /\ calls' = calls + 1 /\ calls < MaxCalls
      /\ late' = (late \/ \E s \in Tasks \ {t} : tasks[s] # Idle /\ "save" \in {q.kind, tasks[s].kind})
  BY DEF Starts, Begin
<1>3. Overlap(t, q) \subseteq Fields
  BY <1>1, TouchesFields DEF Overlap
<1>4. known' \subseteq Fields
  <2>1. CASE call'.method = "addField"
    <3>1. q.kind = "addFields"
      BY <1>1, <2>1, MethodFits, TaskParts DEF TaskFits
    <3>2. 1 \in DOMAIN q.list
      BY <1>1, TaskParts DEF TaskFits
    <3>3. q.list[1].id \in Fields
      BY <1>1, <3>1, <3>2 DEF TaskFits, Works
    <3> QED  BY <1>1, <3>3 DEF TypeOK
  <2> QED  BY <1>1, <2>1 DEF TypeOK
<1>5. calls' \in 0 .. MaxCalls /\ late' \in BOOLEAN
  <2>1. late \in BOOLEAN /\ calls \in 0 .. MaxCalls /\ MaxCalls \in Nat
    BY RegistrationAssumption DEF TypeOK
  <2>2. calls' \in 0 .. MaxCalls
    BY <1>2, <2>1
  <2>3. late' \in BOOLEAN
    BY <1>2
  <2> QED  BY <2>2, <2>3
<1>6. phase' \in {"none", "creating", "open", "failed"} /\ UNCHANGED <<active, objects, authMetadata>>
  BY DEF Starts, TypeOK
<1> QED  BY <1>1, <1>2, <1>3, <1>4, <1>5, <1>6 DEF TypeOK, objects

LEMMA AnsweredTypeOK ==
  ASSUME TypeOK, CallsFit, NEW t \in Tasks, NEW x \in Reply, Answered(t, x),
         known' \subseteq Fields, record' \in Record, account' \in Record \union {NoAccount}, granted' \in BOOLEAN
  PROVE  TypeOK'
<1>1. replies' \in Seq(Reply) /\ call' = NoCall /\ UNCHANGED <<page, tasks, torn, late, calls>>
  BY AnswerAdded DEF Answered
<1> QED  BY <1>1 DEF TypeOK, page

LEMMA SettlesTypes ==
  ASSUME TypeOK, CallsFit, NEW t \in Tasks, Settles(t),
         channel' \in BOOLEAN, active' \in BOOLEAN, torn' \subseteq Fields,
         fields' \subseteq Fields, values' \in [Fields -> Values \union {Null}],
         \A f \in fields' : values'[f] # Null,
         metadata' \in Metadata, attributes' \in [UserAttributes -> Values \union {Null}],
         authMetadata' \in AuthMetadata \union {Null}
  PROVE  TypeOK'
<1>1. replies' \in Seq(Reply) /\ tasks' \in [Tasks -> Task]
  BY SettlesFacts, AnswersGone
<1>2. phase' \in {"none", "creating", "open", "failed"}
  BY DEF Settles, TypeOK
<1>3. UNCHANGED <<call, manager, late, calls>>
  BY DEF Settles
<1> QED  BY <1>1, <1>2, <1>3 DEF TypeOK, manager

LEMMA GoesOnTypeOK ==
  ASSUME TypeOK, CallsFit, NEW t \in Tasks, NEW q, GoesOn(t, q)
  PROVE  TypeOK'
<1>1. /\ q \in Task /\ TaskFits(q) /\ tasks' \in [Tasks -> Task] /\ replies # <<>> /\ replies' = Tail(replies)
      /\ call' \in Request /\ call'.method = MethodOf(q.kind, Len(q.got) + 1) /\ call'.item = Asked(q)
      /\ Len(q.got) + 1 \in DOMAIN q.list
      /\ known' = (IF call'.method = "addField" THEN known \union {call'.item.id} ELSE known)
  BY GoesOnFacts
<1>2. replies' \in Seq(Reply)
  BY <1>1, AnswersGone
<1>3. known' \subseteq Fields
  <2>1. CASE call'.method = "addField"
    <3>1. q.kind = "addFields"
      BY <1>1, <2>1, MethodFits, TaskParts DEF TaskFits
    <3>2. Asked(q).id \in Fields
      BY <1>1, <3>1 DEF TaskFits, Works, Asked
    <3> QED  BY <1>1, <3>2 DEF TypeOK
  <2> QED  BY <1>1, <2>1 DEF TypeOK
<1>4. active' \in BOOLEAN /\ UNCHANGED <<channel, objects, phase, torn, authMetadata, record, account, granted, late, calls>>
  BY DEF GoesOn, TypeOK
<1> QED  BY <1>1, <1>2, <1>3, <1>4 DEF TypeOK, objects

\* The values a call brings, one for each of its steps.
LEMMA LatestFits ==
  ASSUME TypeOK, CallsFit, ObjectsFit, NEW t \in Tasks, Heard(t), replies[1].ok, Works(tasks[t])
  PROVE  \A i \in DOMAIN Latest(t) : Obtained(t, i) /\ ValueFits(tasks[t], i, Latest(t)[i])
<1>1. /\ 1 \in DOMAIN replies /\ replies[1].task = t
      /\ tasks[t] \in Task
      /\ DOMAIN Latest(t) = 1 .. Len(tasks[t].got) + 1
      /\ \A i \in 1 .. Len(tasks[t].got) : Latest(t)[i] = tasks[t].got[i]
      /\ Latest(t)[Len(tasks[t].got) + 1] = replies[1].value
  BY HeardOne
<1>2. Len(tasks[t].got) \in Nat /\ DOMAIN tasks[t].got = 1 .. Len(tasks[t].got)
  BY <1>1, TaskParts
<1>3. \A i \in DOMAIN tasks[t].got : ValueFits(tasks[t], i, tasks[t].got[i])
  BY DEF ObjectsFit, ValuesFit
<1>4. ValueFits(tasks[t], Len(tasks[t].got) + 1, replies[1].value)
  BY <1>1 DEF ObjectsFit, ValuesFit, Answers
<1>5. \A i \in DOMAIN tasks[t].got : Obtained(t, i)
  BY DEF Obtained
<1>6. Obtained(t, Len(tasks[t].got) + 1)
  BY <1>1 DEF Obtained, Answers
<1>7. \A i \in DOMAIN Latest(t) : i \in DOMAIN tasks[t].got \/ i = Len(tasks[t].got) + 1
  BY <1>1, <1>2
<1> QED  BY <1>1, <1>2, <1>3, <1>4, <1>5, <1>6, <1>7

\* What a call on fields leaves on the page.
LEMMA CompletedFields ==
  ASSUME TypeOK, CallsFit, ObjectsFit, NEW t \in Tasks, Completed(t)
  PROVE  /\ fields' = (IF Adds(t) THEN fields \union Touches(tasks[t]) ELSE fields)
         /\ values' \in [Fields -> Values \union {Null}]
         /\ \A f \in Fields \ Touches(tasks[t]) : values'[f] = values[f]
         /\ \A f \in Touches(tasks[t]) : Adds(t) =>
               \E i \in DOMAIN tasks[t].list :
                  tasks[t].list[i].id = f /\ values'[f] = IF values[f] = Null THEN Latest(t)[i] ELSE values[f]
         /\ \A f \in Touches(tasks[t]) : ~ Adds(t) =>
               \E i \in DOMAIN tasks[t].list :
                  /\ tasks[t].list[i].id = f /\ values'[f] = Latest(t)[i]
                  /\ \A j \in DOMAIN tasks[t].list : tasks[t].list[j].id = f => j <= i
         /\ Touches(tasks[t]) \subseteq Fields
         /\ DOMAIN Latest(t) = DOMAIN tasks[t].list
<1> PICK q : q = tasks[t]
  OBVIOUS
<1>1. q \in Task /\ Heard(t) /\ replies[1].ok /\ Len(q.list) = Len(q.got) + 1
      /\ DOMAIN Latest(t) = 1 .. Len(q.got) + 1
  BY CompletedSettles, HeardOne
<1>2. Len(q.list) \in Nat /\ DOMAIN q.list = 1 .. Len(q.list) /\ DOMAIN Latest(t) = DOMAIN q.list
  BY <1>1, TaskParts
<1>3. Touches(q) \subseteq Fields /\ (~ Works(q) => Touches(q) = {})
      /\ (Works(q) => \A f : f \in Touches(q) <=> \E i \in DOMAIN q.list : q.list[i].id = f)
  BY TaskTouches
<1>4. Works(q) => \A i \in DOMAIN q.list : Latest(t)[i] \in Values /\ (q.list[i].value # Null => Latest(t)[i] = q.list[i].value)
  BY <1>1, <1>2, LatestFits DEF ValueFits
<1>5. fields \subseteq Fields /\ values \in [Fields -> Values \union {Null}]
  BY DEF TypeOK
<1>6. CASE q.kind = "addFields"
  <2>1. Added(q, Latest(t)) /\ Works(q) /\ Adds(t)
    BY <1>6 DEF Completed, Works, Adds
  <2> DEFINE at(f) == CHOOSE i \in DOMAIN q.list : q.list[i].id = f
  <2>2. \A f \in Touches(q) : at(f) \in DOMAIN q.list /\ q.list[at(f)].id = f
    BY <1>3, <2>1
  <2>3. fields' = fields \union Touches(q)
        /\ values' = [f \in Fields |-> IF values[f] = Null /\ f \in Touches(q) THEN Latest(t)[at(f)] ELSE values[f]]
    BY <2>1 DEF Added
  <2> HIDE DEF at
  <2>4. \A f \in Fields : values'[f] = IF values[f] = Null /\ f \in Touches(q) THEN Latest(t)[at(f)] ELSE values[f]
    BY <2>3
  <2>5. values' \in [Fields -> Values \union {Null}]
    BY <1>4, <1>5, <2>1, <2>2, <2>3
  <2> QED  BY <1>2, <1>3, <2>1, <2>2, <2>3, <2>4, <2>5
<1>7. CASE q.kind = "rejectAndReviseFields"
  <2>1. Revised(q, Latest(t)) /\ Works(q) /\ ~ Adds(t)
    BY <1>7 DEF Completed, Works, Adds
  <2> DEFINE last(f, i) == /\ q.list[i].id = f
                           /\ \A j \in DOMAIN q.list : q.list[j].id = f => j <= i
  <2> DEFINE at(f) == CHOOSE i \in DOMAIN q.list : last(f, i)
  <2>2. \A f \in Touches(q) : /\ at(f) \in DOMAIN q.list /\ q.list[at(f)].id = f
                              /\ \A j \in DOMAIN q.list : q.list[j].id = f => j <= at(f)
    <3>1. \A f \in Touches(q) :
             \E i \in DOMAIN q.list : q.list[i].id = f /\ \A j \in DOMAIN q.list : q.list[j].id = f => j <= i
      <4> SUFFICES ASSUME NEW f \in Touches(q)
                   PROVE  \E i \in DOMAIN q.list : /\ q.list[i].id = f
                                                   /\ \A j \in DOMAIN q.list : q.list[j].id = f => j <= i
        OBVIOUS
      <4> PICK S : S = {i \in DOMAIN q.list : q.list[i].id = f}
        OBVIOUS
      <4>1. S \subseteq 1 .. Len(q.list) /\ S # {}
        BY <1>2, <1>3, <2>1
      <4>2. \E m \in S : \A k \in S : k <= m
        BY <1>2, <4>1, LastOne
      <4> QED  BY <4>2
    <3>2. \A f \in Touches(q) : \E i \in DOMAIN q.list : last(f, i)
      BY <3>1
    <3> HIDE DEF last
    <3>3. \A f \in Touches(q) : at(f) \in DOMAIN q.list /\ last(f, at(f))
      BY <3>2
    <3> QED  BY <3>3 DEF last
  <2>3. fields' = fields
        /\ values' = [f \in Fields |-> IF f \notin Touches(q) THEN values[f]
                                       ELSE IF q.list[at(f)].value = Null THEN Latest(t)[at(f)] ELSE q.list[at(f)].value]
    BY <2>1 DEF Revised
  <2> HIDE DEF at
  <2>4. \A f \in Touches(q) : values'[f] = Latest(t)[at(f)] /\ Latest(t)[at(f)] \in Values
    BY <1>3, <1>4, <2>1, <2>2, <2>3
  <2>5. \A f \in Fields \ Touches(q) : values'[f] = values[f]
    BY <2>3
  <2>6. values' \in [Fields -> Values \union {Null}]
    <3>1. \A f \in Fields : values'[f] \in Values \union {Null}
      BY <1>5, <2>4, <2>5
    <3> QED  BY <2>3, <3>1
  <2> QED  BY <1>2, <1>3, <2>1, <2>2, <2>3, <2>4, <2>5, <2>6
<1>8. CASE ~ Works(q)
  <2>1. UNCHANGED <<fields, values>> /\ ~ Adds(t)
    BY <1>8 DEF Completed, Works, Adds
  <2> QED  BY <1>2, <1>3, <1>5, <1>8, <2>1
<1> QED  BY <1>6, <1>7, <1>8 DEF Works

LEMMA CompletedTypeOK ==
  ASSUME TypeOK, CallsFit, ObjectsFit, TransitionFits, NEW t \in Tasks, Completed(t)
  PROVE  TypeOK'
<1> PICK q : q = tasks[t]
  OBVIOUS
<1>1. /\ Settles(t) /\ Heard(t) /\ replies[1].ok /\ Len(q.list) = Len(q.got) + 1 /\ UNCHANGED torn
      /\ q \in Task /\ TaskFits(q)
  BY CompletedSettles, HeardOne
<1>2. channel' \in BOOLEAN /\ active' \in BOOLEAN
  BY DEF Completed, TypeOK
<1>3. fields' \subseteq Fields /\ values' \in [Fields -> Values \union {Null}] /\ \A f \in fields' : values'[f] # Null
  <2>1. /\ fields' = (IF Adds(t) THEN fields \union Touches(q) ELSE fields)
        /\ values' \in [Fields -> Values \union {Null}]
        /\ \A f \in Fields \ Touches(q) : values'[f] = values[f]
        /\ \A f \in Touches(q) : Adds(t) =>
              \E i \in DOMAIN q.list : values'[f] = IF values[f] = Null THEN Latest(t)[i] ELSE values[f]
        /\ \A f \in Touches(q) : ~ Adds(t) => \E i \in DOMAIN q.list : values'[f] = Latest(t)[i]
        /\ Touches(q) \subseteq Fields /\ DOMAIN Latest(t) = DOMAIN q.list
    BY CompletedFields
  <2>2. Works(q) => \A i \in DOMAIN q.list : Latest(t)[i] # Null
    BY <1>1, <2>1, LatestFits, RegistrationAssumption DEF ValueFits
  <2>3. ~ Works(q) => Touches(q) = {}
    BY TaskTouches
  <2>4. \A f \in Touches(q) : values'[f] # Null
    BY <2>1, <2>2, <2>3
  <2> QED  BY <2>1, <2>4 DEF TypeOK
<1>4. metadata' \in Metadata
  BY <1>1, TaskParts DEF Completed, Updated, TypeOK
<1>5. attributes' \in [UserAttributes -> Values \union {Null}]
  <2>1. CASE q.kind = "setUserAttributes"
    <3>1. attributes' = [attributes EXCEPT ![q.list[1].id] = q.list[1].value]
      BY <2>1 DEF Completed
    <3>2. q.list[1] \in Item
      BY <1>1, TaskParts
    <3>3. q.list[1].value \in Values \union {Null}
      BY <3>2 DEF Item
    <3> QED  BY <3>1, <3>3 DEF TypeOK
  <2>2. CASE q.kind # "setUserAttributes"
    <3>1. attributes' \in {attributes, record.attributes}
      BY <2>2 DEF Completed, PopulatedAttributes
    <3> QED  BY <3>1, RecordParts DEF TypeOK
  <2> QED  BY <2>1, <2>2
<1>6. authMetadata' \in AuthMetadata \union {Null}
  <2>1. CASE q.kind = "transitionToAuthOperation"
    <3>1. 1 \in DOMAIN q.got
      <4>1. Len(q.list) = 2
        BY <1>1, <2>1 DEF TaskFits, Works, Steps
      <4>2. Len(q.got) \in Nat
        BY <1>1, TaskParts
      <4>3. Len(q.list) = Len(q.got) + 1
        BY <1>1
      <4>4. 2 = Len(q.got) + 1
        BY <4>1, <4>3
      <4>5. 1 \in 1 .. Len(q.got)
        BY <4>2, <4>4
      <4> QED  BY <1>1, <4>5, TaskParts
    <3>2. account \in Record
      BY <2>1, <3>1 DEF TransitionFits, Obtained
    <3>3. account.metadata \in Metadata
      BY <3>2 DEF Record
    <3> PICK m : m = account.metadata
      OBVIOUS
    <3>4. \E v \in VersionRead(m.version) : authMetadata' = [m EXCEPT !.version = v]
      BY <2>1 DEF Completed
    <3>5. m.version \in Nat /\ m \in Metadata
      <4>1. m \in Metadata
        BY <3>3
      <4>2. m.version \in Versions \union (0 .. 1)
        BY <4>1 DEF Metadata
      <4>3. \A v \in Versions \union (0 .. 1) : v \in Nat
        BY RegistrationAssumption
      <4> QED  BY <4>1, <4>2, <4>3
    <3>6. VersionRead(m.version) \subseteq 0 .. 255
      <4>1. m.version < 256 => m.version \in 0 .. 255
        BY <3>5
      <4>2. m.version % 256 \in 0 .. 255
        BY <3>5
      <4> QED  BY <4>1, <4>2 DEF VersionRead
    <3>7. \A v \in 0 .. 255 : [m EXCEPT !.version = v] \in AuthMetadata
      BY <3>5 DEF Metadata, AuthMetadata
    <3> QED  BY <3>4, <3>6, <3>7
  <2>2. CASE q.kind # "transitionToAuthOperation"
    BY <2>2 DEF Completed, TypeOK
  <2> QED  BY <2>1, <2>2
<1>7. torn' \subseteq Fields
  BY <1>1 DEF TypeOK
<1> QED  BY <1>1, <1>2, <1>3, <1>4, <1>5, <1>6, <1>7, SettlesTypes

LEMMA FailsTypeOK ==
  ASSUME TypeOK, CallsFit, NEW t \in Tasks, Failing(t)
  PROVE  TypeOK'
<1>1. Settles(t) /\ torn' \subseteq Fields /\ UNCHANGED <<channel, objects, authMetadata>>
  BY DEF Failing
<1>3. active' \in BOOLEAN
  BY Zenon DEF Failing
<1>2. /\ channel \in BOOLEAN /\ fields \subseteq Fields /\ values \in [Fields -> Values \union {Null}]
      /\ \A f \in fields : values[f] # Null
      /\ metadata \in Metadata /\ attributes \in [UserAttributes -> Values \union {Null}]
      /\ authMetadata \in AuthMetadata \union {Null}
  BY DEF TypeOK
<1> QED  BY <1>1, <1>2, <1>3, SettlesTypes DEF objects

-----------------------------------------------------------------------------
(***************************************************************************)
(* Values, and what the manager knows                                      *)
(***************************************************************************)
LEMMA StartsObjectsFit ==
  ASSUME TypeOK, CallsFit, ObjectsFit, NEW t \in Tasks, NEW q, Starts(t, q)
  PROVE  ObjectsFit'
<1>1. /\ q \in Task /\ TaskFits(q) /\ Len(q.got) = 0
      /\ tasks[t] = Idle /\ (\A n \in DOMAIN replies : replies[n].task # t)
      /\ tasks'[t] = q /\ (\A s \in Tasks \ {t} : tasks'[s] = tasks[s])
      /\ call = NoCall /\ call' # NoCall /\ call'.item = q.list[1] /\ call'.method = MethodOf(q.kind, 1)
      /\ IsValid(call')
      /\ known' = (IF call'.method = "addField" THEN known \union {call'.item.id} ELSE known)
      /\ UNCHANGED <<replies, record>>
  BY StartsFacts
<1>2. DOMAIN q.got = {} /\ 1 \in DOMAIN q.list /\ DOMAIN q.list = 1 .. Len(q.list)
  BY <1>1, TaskParts DEF TaskFits
<1>3. UNCHANGED <<fields, values>>
  BY DEF Starts, objects
<1>4. /\ call'.method = "addField" <=> q.kind = "addFields"
      /\ call'.method = "rejectFieldValue" <=> q.kind = "rejectAndReviseFields"
  BY <1>1, MethodFits, TaskParts DEF TaskFits
<1>5. Works(q) => \A i \in DOMAIN q.list : q.list[i].id \in Fields
  BY <1>1 DEF TaskFits
<1>6. \A f \in Fields : f \in known <=> record.fields[f] # Null
  BY <1>1 DEF ObjectsFit, KnownFits
<1>7. ValuesFit'
  <2> SUFFICES ASSUME NEW s \in Tasks, Works(tasks'[s])
               PROVE  /\ \A i \in DOMAIN tasks'[s].got : ValueFits(tasks'[s], i, tasks'[s].got[i])
                      /\ \A n \in DOMAIN replies' : Answers(n, s)' /\ replies'[n].ok =>
                            ValueFits(tasks'[s], Len(tasks'[s].got) + 1, replies'[n].value)
    BY DEF ValuesFit, Works, ValueFits
  <2>1. CASE s = t
    BY <1>1, <1>2, <2>1 DEF Answers
  <2>2. CASE s # t
    BY <1>1, <2>2 DEF ObjectsFit, ValuesFit, Answers
  <2> QED  BY <2>1, <2>2
<1>8. KnownFits' /\ CallIsRight'
  <2>1. q.kind = "addFields" => q.list[1].id \in Fields /\ record.fields[q.list[1].id] = Null
    BY <1>1, <1>2, <1>4, <1>5, <1>6 DEF IsValid, Works
  <2>2. q.kind = "rejectAndReviseFields" => q.list[1].id \in Fields /\ record.fields[q.list[1].id] # Null
    BY <1>1, <1>2, <1>4, <1>5, <1>6 DEF IsValid, Works
  <2>3. KnownFits'
    BY <1>1, <1>4, <1>6, <2>1 DEF KnownFits
  <2>4. CallIsRight'
    BY <1>1, <1>4, <2>1, <2>2 DEF CallIsRight
  <2> QED  BY <2>3, <2>4
<1>9. Untold'
  BY <1>1, <1>3 DEF ObjectsFit, Untold
<1>10. \A s \in Tasks : \A i : Obtained(s, i)' => s # t /\ Obtained(s, i)
  BY <1>1, <1>2 DEF Obtained, Answers
<1>11. OffersFit'
  <2> SUFFICES ASSUME NEW s \in Tasks, Adds(s)', NEW i \in DOMAIN tasks'[s].list,
                      record'.fields[tasks'[s].list[i].id] = Null \/ Obtained(s, i)'
               PROVE  tasks'[s].list[i].value = Desired[tasks'[s].list[i].id]
    BY DEF OffersFit
  <2>1. CASE s = t
    <3>1. q.kind = "addFields"
      BY <1>1, <2>1 DEF Adds
    <3>2. q.list[i].id \in Fields /\ q.list[i].value = values[q.list[i].id]
      BY <1>1, <2>1, <3>1 DEF Starts
    <3>3. record.fields[q.list[i].id] = Null
      BY <1>1, <1>10, <2>1
    <3> QED  BY <1>1, <2>1, <3>2, <3>3 DEF ObjectsFit, Untold
  <2>2. CASE s # t
    BY <1>1, <1>10, <2>2 DEF ObjectsFit, OffersFit, Adds
  <2> QED  BY <2>1, <2>2
<1>12. GrantedAreHeld'
  BY <1>1, <1>10 DEF ObjectsFit, GrantedAreHeld, Works
<1>13. AddedOnce'
  BY <1>1, <1>10 DEF ObjectsFit, AddedOnce, Adds
<1> QED  BY <1>7, <1>8, <1>9, <1>11, <1>12, <1>13 DEF ObjectsFit

\* A step that neither grants a request nor takes an answer over.
Silent ==
  /\ UNCHANGED <<page, tasks, record, account, granted, torn, late>>
  /\ \A n \in DOMAIN replies : n \in DOMAIN replies' /\ replies'[n] = replies[n]
  /\ \A n \in DOMAIN replies' : n \in DOMAIN replies \/ ~ replies'[n].ok

LEMMA SilentFits ==
  ASSUME Silent, ObjectsFit, FieldsFit, RecordFits
  PROVE  /\ ValuesFit' /\ Untold' /\ OffersFit' /\ GrantedAreHeld' /\ AddedOnce'
         /\ FieldsFit' /\ RecordFits'
<1>1. /\ UNCHANGED <<phase, active, fields, values, metadata, attributes, tasks, record, account, torn, late>>
      /\ \A n : n \in DOMAIN replies' /\ replies'[n].ok <=> n \in DOMAIN replies /\ replies[n].ok
      /\ \A n : n \in DOMAIN replies /\ replies[n].ok => replies'[n] = replies[n]
  BY DEF Silent, page
<1>2. \A n, f : On(n, f)' <=> On(n, f)
  BY <1>1 DEF On
<1>3. \A t, i, f : Kept(t, i, f)' <=> Kept(t, i, f)
  BY <1>1 DEF Kept, Works
<1>4. \A t, i : Obtained(t, i)' <=> Obtained(t, i)
  BY <1>1 DEF Obtained, Answers
<1>5. ValuesFit'
  BY <1>1 DEF ObjectsFit, ValuesFit, Answers
<1>6. Untold' /\ OffersFit' /\ GrantedAreHeld' /\ AddedOnce'
  BY <1>1, <1>4 DEF ObjectsFit, Untold, OffersFit, GrantedAreHeld, AddedOnce, Adds
<1>7. FieldsFit'
  <2> SUFFICES ASSUME NEW f \in Fields \ torn
               PROVE  LastDecides(f)' /\ AdditionsFit(f)' /\ Shared(f)'
    BY <1>1 DEF FieldsFit
  <2>1. LastDecides(f) /\ AdditionsFit(f) /\ Shared(f)
    BY DEF FieldsFit
  <2>2. \A n : On(n, f) => n \in DOMAIN replies /\ n \in DOMAIN replies' /\ replies'[n] = replies[n]
    BY <1>1 DEF On
  <2>3. LastDecides(f)'
    BY <1>1, <1>2, <1>3, <2>1, <2>2 DEF LastDecides
  <2>4. IsPending(f)' <=> IsPending(f)
    BY <1>1, <1>2, <1>3, <2>2 DEF IsPending, Adds
  <2>5. AdditionsFit(f)'
    BY <1>1, <1>2, <2>1, <2>2, <2>4 DEF AdditionsFit, Adds
  <2>6. Shared(f)'
    BY <1>1, <2>1 DEF Shared
  <2> QED  BY <2>3, <2>5, <2>6
<1>8. \A n : Sets(n)' <=> Sets(n)
  BY <1>1 DEF Sets
<1>9. \A n, a : SetsAttribute(n, a)' <=> SetsAttribute(n, a)
  BY <1>1 DEF SetsAttribute
<1>10. MetadataFits' /\ AttributesFit'
  <2>1. \A n : n \in DOMAIN replies /\ replies[n].ok => n \in DOMAIN replies'
    BY <1>1
  <2>2. MetadataFits'
    BY <1>1, <1>8, <2>1 DEF RecordFits, MetadataFits, Sets
  <2>3. AttributesFit'
    BY <1>1, <1>9, <2>1 DEF RecordFits, AttributesFit, SetsAttribute
  <2> QED  BY <2>2, <2>3
<1>11. SaveIsAlone' /\ AccountFits' /\ TransitionFits'
  BY <1>1, <1>4 DEF RecordFits, SaveIsAlone, AccountFits, TransitionFits
<1> QED  BY <1>5, <1>6, <1>7, <1>10, <1>11 DEF RecordFits

LEMMA RejectFits ==
  ASSUME PageRecordInv, Reject
  PROVE  PageRecordInv'
<1>1. TypeOK /\ CallsFit /\ ObjectsFit /\ FieldsFit /\ RecordFits
  BY DEF PageRecordInv
<1>2. /\ UNCHANGED <<page, tasks, record, account, granted, torn, late, calls>>
      /\ call # NoCall /\ call' = NoCall
      /\ known' = IF call.method = "addField" THEN known \ {call.item.id} ELSE known
      /\ \/ UNCHANGED replies /\ \A t \in Tasks : ~ InService(t)
         \/ \E t \in Tasks, x \in Reply : Answered(t, x) /\ ~ x.ok
  BY <1>1, RejectFacts
<1>3. known' \subseteq Fields
  BY <1>1, <1>2 DEF TypeOK
<1>4. KnownFits' /\ CallIsRight'
  <2>1. KnownFits /\ CallIsRight
    BY <1>1 DEF ObjectsFit
  <2> QED  BY <1>2, <2>1 DEF KnownFits, CallIsRight
<1>5. CASE UNCHANGED replies /\ \A t \in Tasks : ~ InService(t)
  <2>1. UNCHANGED <<phase, channel, active, fields, values, metadata, attributes, authMetadata>>
    BY <1>2 DEF page
  <2>2. TypeOK'
    BY <1>1, <1>2, <1>3, <1>5, <2>1 DEF TypeOK
  <2>3. \A t : ~ InService(t)'
    BY <1>2 DEF InService
  <2>4. OneEach'
    BY <1>1, <1>2, <1>5, <2>3 DEF CallsFit, OneEach, Answers, IsTask
  <2>5. TasksFit' /\ CallFits' /\ PhaseFits'
    BY <1>1, <1>2, <2>1, <2>3 DEF CallsFit, TasksFit, CallFits, PhaseFits, IsTask
  <2>6. Silent
    BY <1>2, <1>5 DEF Silent
  <2> QED  BY <1>1, <1>4, <2>2, <2>4, <2>5, <2>6, SilentFits DEF PageRecordInv, CallsFit,
               ObjectsFit
<1>6. CASE \E t \in Tasks, x \in Reply : Answered(t, x) /\ ~ x.ok
  <2> PICK t \in Tasks, x \in Reply : Answered(t, x) /\ ~ x.ok
    BY <1>6
  <2>1. CallsFit'
    BY <1>1, AnsweredCallsFit
  <2>2. TypeOK'
    <3>1. record \in Record /\ account \in Record \union {NoAccount} /\ granted \in BOOLEAN
      BY <1>1 DEF TypeOK
    <3>2. record' = record /\ account' = account /\ granted' = granted
      BY <1>2
    <3>3. record' \in Record /\ account' \in Record \union {NoAccount} /\ granted' \in BOOLEAN
      BY <3>1, <3>2, Zenon
    <3> QED  BY <1>1, <1>3, <3>3, AnsweredTypeOK
  <2>3. Silent
    <3>1. replies' = Append(replies, x)
      BY DEF Answered
    <3>2. /\ replies'[Len(replies) + 1] = x
          /\ \A n \in DOMAIN replies : n \in DOMAIN replies' /\ replies'[n] = replies[n]
          /\ \A n \in DOMAIN replies' : n \in DOMAIN replies \/ n = Len(replies) + 1
      BY <1>1, <3>1, AnswerAdded
    <3> QED  BY <1>2, <3>2 DEF Silent
  <2> QED  BY <1>1, <1>4, <2>1, <2>2, <2>3, SilentFits DEF PageRecordInv, ObjectsFit
<1> QED  BY <1>2, <1>5, <1>6

LEMMA ServeAnotherFits ==
  ASSUME PageRecordInv, ServeAnother
  PROVE  PageRecordInv'
<1>1. TypeOK /\ CallsFit /\ ObjectsFit /\ FieldsFit /\ RecordFits
  BY DEF PageRecordInv
<1>2. /\ UNCHANGED <<page, tasks, replies, known, record, account, granted, torn, late, calls>>
      /\ call = NoCall
      /\ call' = [task |-> 0, method |-> "getRecordMetadata", item |-> NoItem, metadata |-> PageDefault]
  BY DEF ServeAnother, manager
<1>3. UNCHANGED <<phase, channel, active, fields, values, metadata, attributes, authMetadata>>
  BY <1>2 DEF page
<1>4. call' \in Request /\ call'.task = 0 /\ call'.method = "getRecordMetadata"
  <2>1. NoItem \in Item /\ PageDefault \in Metadata
    BY ItemsFit DEF NoItem, PageDefault, Metadata
  <2> QED  BY <1>2, <2>1 DEF Request, Methods
<1>5. TypeOK'
  BY <1>1, <1>2, <1>3, <1>4 DEF TypeOK
<1>6. \A t \in Tasks : ~ InService(t) /\ ~ InService(t)'
  BY <1>2, <1>4 DEF InService, Tasks
<1>7. OneEach'
  BY <1>1, <1>2, <1>6 DEF CallsFit, OneEach, Answers, IsTask
<1>8. TasksFit' /\ CallFits' /\ PhaseFits'
  BY <1>1, <1>2, <1>3, <1>6 DEF CallsFit, TasksFit, CallFits, PhaseFits, IsTask
<1>9. KnownFits' /\ CallIsRight'
  <2>1. \A f \in Fields : f \in known <=> record.fields[f] # Null
    BY <1>1, <1>2 DEF ObjectsFit, KnownFits
  <2> QED  BY <1>2, <1>4, <2>1 DEF KnownFits, CallIsRight
<1>10. Silent
  BY <1>2 DEF Silent
<1> QED  BY <1>1, <1>5, <1>7, <1>8, <1>9, <1>10, SilentFits DEF PageRecordInv, CallsFit,
             ObjectsFit

-----------------------------------------------------------------------------
(***************************************************************************)
(* The manager grants a request                                            *)
(***************************************************************************)
\* A field with a step granted is in the record, and is not about to be added.
LEMMA OnHeld ==
  ASSUME TypeOK, CallsFit, ObjectsFit, NEW n, NEW f, On(n, f)
  PROVE  record.fields[f] # Null /\ f \in Fields
<1>1. n \in DOMAIN replies /\ replies[n].ok /\ replies[n].task \in Tasks
  <2>1. n \in DOMAIN replies /\ replies[n].ok
    BY DEF On
  <2>2. replies \in Seq(Reply)
    BY DEF TypeOK
  <2>3. DOMAIN replies = 1 .. Len(replies)
    BY <2>2, LenProperties
  <2>4. replies[n] \in Reply
    BY <2>1, <2>2, <2>3, ElementOfSeq
  <2> QED  BY <2>1, <2>4 DEF Reply
<1> PICK t : t = replies[n].task
  OBVIOUS
<1>2. t \in Tasks /\ Works(tasks[t]) /\ Asked(tasks[t]).id = f
  BY <1>1 DEF On
<1>3. Obtained(t, Len(tasks[t].got) + 1)
  BY <1>1 DEF Obtained, Answers
<1>4. tasks[t] \in Task /\ TaskFits(tasks[t])
  BY <1>2, TaskTouches
<1>5. Len(tasks[t].got) + 1 \in DOMAIN tasks[t].list
  BY <1>4, TaskParts DEF TaskFits
<1>6. record.fields[tasks[t].list[Len(tasks[t].got) + 1].id] # Null
  BY <1>2, <1>3, <1>5 DEF ObjectsFit, GrantedAreHeld
<1>7. tasks[t].list[Len(tasks[t].got) + 1].id \in Fields
  BY <1>2, <1>4, <1>5 DEF TaskFits
<1> QED  BY <1>2, <1>6, <1>7 DEF Asked

LEMMA GrantedFacts ==
  ASSUME TypeOK, CallsFit, ObjectsFit, NEW t \in Tasks, NEW x \in Reply, GrantsTo(t, x),
         NEW n0, n0 = Len(replies) + 1, NEW k, k = Len(tasks[t].got) + 1, NEW g, g = Asked(tasks[t]).id
  PROVE  /\ UNCHANGED <<phase, active, fields, values, metadata, attributes, tasks, known, torn, late>>
         /\ call' = NoCall /\ InService(t) /\ IsTask(t) /\ tasks[t] \in Task /\ TaskFits(tasks[t])
         /\ k \in DOMAIN tasks[t].list /\ g = tasks[t].list[k].id
         /\ n0 \in Nat /\ n0 \in DOMAIN replies' /\ n0 \notin DOMAIN replies /\ replies'[n0] = x
         /\ x.ok /\ x.task = t
         /\ \A n \in DOMAIN replies : n \in Nat /\ n < n0 /\ n \in DOMAIN replies' /\ replies'[n] = replies[n] /\ replies[n].task # t
         /\ \A n \in DOMAIN replies' : n \in DOMAIN replies \/ n = n0
         /\ \A n, f : On(n, f)' <=> On(n, f) \/ (n = n0 /\ Works(tasks[t]) /\ f = g)
         /\ \A s, i, f : Kept(s, i, f)' <=> Kept(s, i, f)
         /\ \A s, i : Obtained(s, i)' <=> Obtained(s, i) \/ (s = t /\ i = k)
         /\ \A f \in Fields : record'.fields[f] = IF Works(tasks[t]) /\ f = g THEN x.value ELSE record.fields[f]
         /\ Works(tasks[t]) => g \in Fields /\ x.value \in Values /\ x.value # Null
         /\ Adds(t) => record.fields[g] = Null /\ g \in known
         /\ Works(tasks[t]) /\ ~ Adds(t) => record.fields[g] # Null
         /\ \A f \in Fields : f \in known => record.fields[f] # Null \/ (Adds(t) /\ f = g)
<1>1. /\ Answered(t, x) /\ InService(t) /\ call' = NoCall /\ x.task = t /\ replies' = Append(replies, x)
      /\ UNCHANGED <<phase, active, fields, values, metadata, attributes, tasks, known, torn, late>> /\ x.ok
  BY DEF GrantsTo, Answered, page
<1>2. /\ tasks[t] \in Task /\ TaskFits(tasks[t]) /\ IsTask(t)
      /\ tasks[t].kind \in Kinds
      /\ call.method = MethodOf(tasks[t].kind, Len(tasks[t].got) + 1)
      /\ call.item = Asked(tasks[t])
      /\ k \in DOMAIN tasks[t].list /\ g = tasks[t].list[k].id
      /\ Works(tasks[t]) => g \in Fields
  BY <1>1, ServedFacts DEF Asked
<1>3. /\ n0 \in Nat /\ n0 \in DOMAIN replies' /\ n0 \notin DOMAIN replies /\ replies'[n0] = x
      /\ \A n \in DOMAIN replies : n \in Nat /\ n < n0 /\ n \in DOMAIN replies' /\ replies'[n] = replies[n]
      /\ \A n \in DOMAIN replies' : n \in DOMAIN replies \/ n = n0
  BY <1>1, AnswerAdded
<1>4. \A n \in DOMAIN replies : replies[n].task # t
  BY <1>1 DEF CallsFit, OneEach, Answers
<1>5. \A n, f : On(n, f)' <=> On(n, f) \/ (n = n0 /\ Works(tasks[t]) /\ f = g)
  BY <1>1, <1>3 DEF On
<1>6. \A s, i, f : Kept(s, i, f)' <=> Kept(s, i, f)
  BY <1>1 DEF Kept
<1>7. \A s, i : Obtained(s, i)' <=> Obtained(s, i) \/ (s = t /\ i = k)
  <2> SUFFICES ASSUME NEW s, NEW i
               PROVE  Obtained(s, i)' <=> Obtained(s, i) \/ (s = t /\ i = k)
    OBVIOUS
  <2>1. (\E n \in DOMAIN replies' : Answers(n, s)' /\ replies'[n].ok)
           <=> (\E n \in DOMAIN replies : Answers(n, s) /\ replies[n].ok) \/ s = t
    BY <1>1, <1>3 DEF Answers
  <2> QED  BY <1>1, <2>1 DEF Obtained
<1>8. record.fields \in [Fields -> Values \union {Null}]
  BY RecordParts
<1>9. Works(tasks[t]) => /\ record'.fields = [record.fields EXCEPT ![g] = x.value]
                         /\ x.value \in Values /\ x.value # Null
  BY RegistrationAssumption DEF GrantsTo, ValueFits
<1>10. ~ Works(tasks[t]) => record'.fields = record.fields
  BY DEF GrantsTo
<1>11. \A f \in Fields : record'.fields[f] = IF Works(tasks[t]) /\ f = g THEN x.value ELSE record.fields[f]
  BY <1>8, <1>9, <1>10
<1>12. (call.method = "addField" <=> Adds(t)) /\ (call.method = "rejectFieldValue" <=> tasks[t].kind = "rejectAndReviseFields")
       /\ call.item.id = g /\ call # NoCall
  BY <1>1, <1>2, MethodFits DEF Adds, InService
<1>13. /\ Adds(t) => record.fields[g] = Null
       /\ Works(tasks[t]) /\ ~ Adds(t) => record.fields[g] # Null
  BY <1>12 DEF ObjectsFit, CallIsRight, Works, Adds
<1>14. \A f \in Fields : f \in known <=> record.fields[f] # Null \/ (Adds(t) /\ f = g)
  BY <1>12 DEF ObjectsFit, KnownFits
<1>15. Adds(t) => g \in known
  BY <1>2, <1>14 DEF Adds, Works
<1> QED  BY <1>1, <1>2, <1>3, <1>4, <1>5, <1>6, <1>7, <1>9, <1>11, <1>13, <1>14, <1>15

LEMMA GrantsObjectsFit ==
  ASSUME TypeOK, CallsFit, ObjectsFit, NEW t \in Tasks, NEW x \in Reply, GrantsTo(t, x)
  PROVE  ObjectsFit'
<1> PICK n0 : n0 = Len(replies) + 1
  OBVIOUS
<1> PICK k : k = Len(tasks[t].got) + 1
  OBVIOUS
<1> PICK g : g = Asked(tasks[t]).id
  OBVIOUS
<1>1. /\ UNCHANGED <<fields, values, tasks, known>>
      /\ call' = NoCall /\ tasks[t] \in Task /\ TaskFits(tasks[t])
      /\ k \in DOMAIN tasks[t].list /\ g = tasks[t].list[k].id
      /\ replies'[n0] = x /\ x.task = t
      /\ \A n \in DOMAIN replies : replies'[n] = replies[n] /\ replies[n].task # t
      /\ \A n \in DOMAIN replies' : n \in DOMAIN replies \/ n = n0
  BY GrantedFacts
<1>2. \A s, i : Obtained(s, i)' <=> Obtained(s, i) \/ (s = t /\ i = k)
  BY GrantedFacts
<1>3. /\ \A f \in Fields : record'.fields[f] = IF Works(tasks[t]) /\ f = g THEN x.value ELSE record.fields[f]
      /\ Works(tasks[t]) => g \in Fields /\ x.value \in Values /\ x.value # Null
      /\ Adds(t) => record.fields[g] = Null /\ g \in known
      /\ Works(tasks[t]) /\ ~ Adds(t) => record.fields[g] # Null
      /\ \A f \in Fields : f \in known => record.fields[f] # Null \/ (Adds(t) /\ f = g)
  BY GrantedFacts
<1>4. \A s \in Tasks : Works(tasks[s]) => \A i \in DOMAIN tasks[s].list : tasks[s].list[i].id \in Fields
  BY TaskTouches DEF TaskFits
<1>5. Adds(t) => Works(tasks[t])
  BY DEF Adds, Works
<1>6. \A f \in Fields : record'.fields[f] = Null => record.fields[f] = Null
  BY <1>3
<1>7. ValuesFit'
  <2> SUFFICES ASSUME NEW s \in Tasks, Works(tasks[s])
               PROVE  /\ \A i \in DOMAIN tasks[s].got : ValueFits(tasks[s], i, tasks[s].got[i])
                      /\ \A n \in DOMAIN replies' : Answers(n, s)' /\ replies'[n].ok =>
                            ValueFits(tasks[s], Len(tasks[s].got) + 1, replies'[n].value)
    BY <1>1 DEF ValuesFit
  <2>1. Works(tasks[t]) => ValueFits(tasks[t], Len(tasks[t].got) + 1, x.value)
    BY DEF GrantsTo
  <2> QED  BY <1>1, <2>1 DEF ObjectsFit, ValuesFit, Answers
<1>8. KnownFits' /\ CallIsRight'
  <2> SUFFICES ASSUME NEW f \in Fields  PROVE  f \in known <=> record'.fields[f] # Null
    BY <1>1 DEF KnownFits, CallIsRight
  <2>1. record.fields[f] # Null => f \in known
    BY DEF ObjectsFit, KnownFits
  <2> QED  BY <1>3, <1>5, <2>1
<1>9. Untold'
  BY <1>1, <1>6 DEF ObjectsFit, Untold
<1>10. OffersFit'
  <2> SUFFICES ASSUME NEW s \in Tasks, Adds(s), NEW i \in DOMAIN tasks[s].list,
                      record'.fields[tasks[s].list[i].id] = Null \/ Obtained(s, i)'
               PROVE  tasks[s].list[i].value = Desired[tasks[s].list[i].id]
    BY <1>1 DEF OffersFit, Adds
  <2>1. tasks[s].list[i].id \in Fields
    BY <1>4 DEF Adds, Works
  <2>2. record.fields[tasks[s].list[i].id] = Null \/ Obtained(s, i)
    BY <1>1, <1>2, <1>3, <1>6, <2>1
  <2> QED  BY <2>2 DEF ObjectsFit, OffersFit
<1>11. GrantedAreHeld'
  <2> SUFFICES ASSUME NEW s \in Tasks, Works(tasks[s]), NEW i \in DOMAIN tasks[s].list, Obtained(s, i)'
               PROVE  record'.fields[tasks[s].list[i].id] # Null
    BY <1>1 DEF GrantedAreHeld
  <2>1. CASE Obtained(s, i)
    BY <1>4, <1>6, <2>1 DEF ObjectsFit, GrantedAreHeld
  <2>2. CASE s = t /\ i = k
    BY <1>1, <1>3, <2>2
  <2> QED  BY <1>2, <2>1, <2>2
<1>12. AddedOnce'
  <2> SUFFICES ASSUME NEW s \in Tasks, Adds(s), NEW i \in DOMAIN tasks[s].list, NEW j \in DOMAIN tasks[s].list,
                      Obtained(s, i)', Obtained(s, j)', tasks[s].list[i].id = tasks[s].list[j].id
               PROVE  i = j
    BY <1>1 DEF AddedOnce, Adds
  <2>1. \A l \in DOMAIN tasks[s].list : s = t /\ tasks[s].list[l].id = g => ~ Obtained(s, l)
    BY <1>3, <1>5 DEF ObjectsFit, GrantedAreHeld
  <2>2. CASE Obtained(s, i) /\ Obtained(s, j)
    BY <2>2 DEF ObjectsFit, AddedOnce
  <2> QED  BY <1>1, <1>2, <2>1, <2>2
<1> QED  BY <1>7, <1>8, <1>9, <1>10, <1>11, <1>12 DEF ObjectsFit

LEMMA GrantsFieldsFit ==
  ASSUME TypeOK, CallsFit, ObjectsFit, FieldsFit, NEW t \in Tasks, NEW x \in Reply, GrantsTo(t, x)
  PROVE  FieldsFit'
<1> PICK n0 : n0 = Len(replies) + 1
  OBVIOUS
<1> PICK k : k = Len(tasks[t].got) + 1
  OBVIOUS
<1> PICK g : g = Asked(tasks[t]).id
  OBVIOUS
<1>1. /\ UNCHANGED <<fields, values, tasks, torn>>
      /\ n0 \in Nat /\ n0 \in DOMAIN replies' /\ n0 \notin DOMAIN replies /\ replies'[n0] = x
      /\ x.task = t
      /\ \A n \in DOMAIN replies : n \in Nat /\ n < n0 /\ n \in DOMAIN replies' /\ replies'[n] = replies[n]
      /\ \A n \in DOMAIN replies' : n \in DOMAIN replies \/ n = n0
  BY GrantedFacts
<1>2. /\ \A n, f : On(n, f)' <=> On(n, f) \/ (n = n0 /\ Works(tasks[t]) /\ f = g)
      /\ \A s, i, f : Kept(s, i, f)' <=> Kept(s, i, f)
  BY GrantedFacts
<1>3. /\ \A f \in Fields : record'.fields[f] = IF Works(tasks[t]) /\ f = g THEN x.value ELSE record.fields[f]
      /\ Works(tasks[t]) => g \in Fields /\ x.value \in Values /\ x.value # Null
      /\ Adds(t) => record.fields[g] = Null
      /\ Works(tasks[t]) /\ ~ Adds(t) => record.fields[g] # Null
  BY GrantedFacts
<1>4. \A n, f : On(n, f) => n \in DOMAIN replies
  BY DEF On
<1>5. \A n, f : On(n, f) => record.fields[f] # Null
  BY OnHeld
<1> SUFFICES ASSUME NEW f \in Fields \ torn
             PROVE  LastDecides(f)' /\ AdditionsFit(f)' /\ Shared(f)'
  BY <1>1 DEF FieldsFit
<1>6. LastDecides(f) /\ AdditionsFit(f) /\ Shared(f)
  BY DEF FieldsFit
<1>7. Shared(f)'
  BY <1>1, <1>6 DEF Shared
<1>8. CASE ~ (Works(tasks[t]) /\ f = g)
  <2>1. (\A n : On(n, f)' <=> On(n, f)) /\ record'.fields[f] = record.fields[f]
    BY <1>2, <1>3, <1>8
  <2>2. LastDecides(f)'
    BY <1>1, <1>2, <1>4, <1>6, <2>1 DEF LastDecides
  <2>3. IsPending(f)' <=> IsPending(f)
    BY <1>1, <1>2, <1>4, <2>1 DEF IsPending, Adds
  <2>4. AdditionsFit(f)'
    BY <1>1, <1>4, <1>6, <2>1, <2>3 DEF AdditionsFit, Adds
  <2> QED  BY <1>7, <2>2, <2>4
<1>9. CASE Works(tasks[t]) /\ f = g
  <2>1. (\A n : On(n, f)' <=> On(n, f) \/ n = n0) /\ record'.fields[f] = x.value
    BY <1>2, <1>3, <1>9
  <2>2. LastDecides(f)'
    <3>1. \A n \in DOMAIN replies' : (\A m \in DOMAIN replies' : On(m, f)' => m <= n) => n = n0
      <4> SUFFICES ASSUME NEW n \in DOMAIN replies', \A m \in DOMAIN replies' : On(m, f)' => m <= n
                   PROVE  n = n0
        OBVIOUS
      <4>1. n0 <= n
        BY <1>1, <2>1
      <4> QED  BY <1>1, <4>1
    <3>2. ~ \A n \in DOMAIN replies' : ~ On(n, f)'
      BY <1>1, <2>1
    <3> QED  BY <1>1, <2>1, <3>1, <3>2 DEF LastDecides
  <2>3. IsPending(f)' <=> IsPending(f) \/ Adds(t)
    <3>1. (\E n \in DOMAIN replies' : On(n, f)' /\ Adds(replies[n].task)')
             <=> (\E n \in DOMAIN replies : On(n, f) /\ Adds(replies[n].task)) \/ Adds(t)
      BY <1>1, <1>4, <2>1 DEF Adds
    <3>2. (\E s \in Tasks : Adds(s)' /\ \E i \in DOMAIN tasks'[s].got : Kept(s, i, f)')
             <=> (\E s \in Tasks : Adds(s) /\ \E i \in DOMAIN tasks[s].got : Kept(s, i, f))
      BY <1>1, <1>2 DEF Adds
    <3> QED  BY <3>1, <3>2 DEF IsPending
  <2>4. IsPending(f)' => f \notin fields' /\ values'[f] = Desired[f]
    <3>1. Adds(t) => f \notin fields /\ values[f] = Desired[f]
      BY <1>3, <1>9 DEF ObjectsFit, Untold
    <3> QED  BY <1>1, <1>6, <2>3, <3>1 DEF AdditionsFit
  <2>5. f \notin fields' => IsPending(f)'
    <3>1. ~ Adds(t) => record.fields[f] # Null
      BY <1>3, <1>9
    <3> QED  BY <1>1, <1>6, <2>3, <3>1 DEF AdditionsFit
  <2>6. \A m, n \in DOMAIN replies' : On(m, f)' /\ On(n, f)' /\ Adds(replies[n].task)' /\ m # n => n < m
    <3> SUFFICES ASSUME NEW m \in DOMAIN replies', NEW n \in DOMAIN replies',
                        On(m, f)', On(n, f)', Adds(replies[n].task)', m # n
                 PROVE  n < m
      OBVIOUS
    <3>1. CASE n = n0
      <4>1. Adds(t) /\ On(m, f)
        BY <1>1, <2>1, <3>1 DEF Adds
      <4> QED  BY <1>3, <1>5, <1>9, <4>1
    <3>2. CASE n # n0 /\ m = n0
      BY <1>1, <3>2
    <3>3. CASE n # n0 /\ m # n0
      BY <1>1, <1>4, <1>6, <2>1, <3>3 DEF AdditionsFit, Adds
    <3> QED  BY <3>1, <3>2, <3>3
  <2>7. AdditionsFit(f)'
    BY <2>4, <2>5, <2>6 DEF AdditionsFit
  <2> QED  BY <1>7, <2>2, <2>7
<1> QED  BY <1>8, <1>9

LEMMA GrantsRecordFits ==
  ASSUME TypeOK, CallsFit, ObjectsFit, RecordFits, NEW t \in Tasks, NEW x \in Reply, GrantsTo(t, x)
  PROVE  RecordFits'
<1> PICK n0 : n0 = Len(replies) + 1
  OBVIOUS
<1> PICK k : k = Len(tasks[t].got) + 1
  OBVIOUS
<1>1. /\ UNCHANGED <<phase, active, metadata, attributes, tasks, late>>
      /\ IsTask(t) /\ tasks[t] \in Task /\ TaskFits(tasks[t])
      /\ n0 \in Nat /\ n0 \in DOMAIN replies' /\ n0 \notin DOMAIN replies /\ replies'[n0] = x
      /\ x.ok /\ x.task = t
      /\ \A n \in DOMAIN replies : n \in Nat /\ n < n0 /\ n \in DOMAIN replies' /\ replies'[n] = replies[n] /\ replies[n].task # t
      /\ \A n \in DOMAIN replies' : n \in DOMAIN replies \/ n = n0
  BY GrantedFacts
<1>2. \A s, i : Obtained(s, i)' <=> Obtained(s, i) \/ (s = t /\ i = k)
  BY GrantedFacts
<1>3. /\ record'.metadata = IF tasks[t].kind = "setMetadata" THEN tasks[t].metadata ELSE record.metadata
      /\ record'.attributes =
            IF tasks[t].kind = "setUserAttributes"
            THEN [record.attributes EXCEPT ![tasks[t].list[1].id] = tasks[t].list[1].value] ELSE record.attributes
      /\ account' = IF tasks[t].kind = "save" THEN record ELSE account
      /\ tasks[t].kind = "transitionToAuthOperation" /\ Len(tasks[t].got) = 0 => account # NoAccount
      /\ ~ Works(tasks[t]) => record'.fields = record.fields
  BY DEF GrantsTo
<1>4. MetadataFits'
  <2>1. \A n : Sets(n)' <=> Sets(n) \/ (n = n0 /\ tasks[t].kind = "setMetadata")
    BY <1>1 DEF Sets
  <2>2. MetadataFits
    BY DEF RecordFits
  <2>3. CASE tasks[t].kind # "setMetadata"
    <3>1. \A n : Sets(n)' <=> Sets(n)
      BY <2>1, <2>3
    <3> QED  BY <1>1, <1>3, <2>2, <2>3, <3>1 DEF MetadataFits, Sets
  <2>4. CASE tasks[t].kind = "setMetadata"
    <3>1. \A n \in DOMAIN replies' : (\A m \in DOMAIN replies' : Sets(m)' => m <= n) => n = n0
      <4> SUFFICES ASSUME NEW n \in DOMAIN replies', \A m \in DOMAIN replies' : Sets(m)' => m <= n
                   PROVE  n = n0
        OBVIOUS
      <4>1. n0 <= n
        BY <1>1, <2>1, <2>4
      <4> QED  BY <1>1, <4>1
    <3>2. ~ \A n \in DOMAIN replies' : ~ Sets(n)'
      BY <1>1, <2>1, <2>4
    <3> QED  BY <1>1, <1>3, <2>4, <3>1, <3>2 DEF MetadataFits
  <2> QED  BY <2>3, <2>4
<1>5. AttributesFit'
  <2> SUFFICES ASSUME NEW a \in UserAttributes
               PROVE  /\ \A n \in DOMAIN replies' :
                            SetsAttribute(n, a)' /\ (\A m \in DOMAIN replies' : SetsAttribute(m, a)' => m <= n)
                              => tasks'[replies'[n].task].list[1].value = record'.attributes[a]
                      /\ (\A n \in DOMAIN replies' : ~ SetsAttribute(n, a)') /\ phase' = "open"
                              => attributes'[a] = record'.attributes[a]
    BY DEF AttributesFit
  <2>1. \A n : SetsAttribute(n, a)' <=>
           SetsAttribute(n, a) \/ (n = n0 /\ tasks[t].kind = "setUserAttributes" /\ tasks[t].list[1].id = a)
    BY <1>1 DEF SetsAttribute
  <2>2. AttributesFit
    BY DEF RecordFits
  <2>3. record.attributes \in [UserAttributes -> Values \union {Null}]
    BY RecordParts
  <2>4. CASE ~ (tasks[t].kind = "setUserAttributes" /\ tasks[t].list[1].id = a)
    <3>1. \A n : SetsAttribute(n, a)' <=> SetsAttribute(n, a)
      BY <2>1, <2>4
    <3>2. record'.attributes[a] = record.attributes[a]
      BY <1>3, <2>3, <2>4
    <3> QED  BY <1>1, <2>2, <3>1, <3>2 DEF AttributesFit, SetsAttribute
  <2>5. CASE tasks[t].kind = "setUserAttributes" /\ tasks[t].list[1].id = a
    <3>1. \A n \in DOMAIN replies' : (\A m \in DOMAIN replies' : SetsAttribute(m, a)' => m <= n) => n = n0
      <4> SUFFICES ASSUME NEW n \in DOMAIN replies', \A m \in DOMAIN replies' : SetsAttribute(m, a)' => m <= n
                   PROVE  n = n0
        OBVIOUS
      <4>1. n0 <= n
        BY <1>1, <2>1, <2>5
      <4> QED  BY <1>1, <4>1
    <3>2. ~ \A n \in DOMAIN replies' : ~ SetsAttribute(n, a)'
      BY <1>1, <2>1, <2>5
    <3>3. record'.attributes[a] = tasks[t].list[1].value
      BY <1>3, <2>3, <2>5
    <3> QED  BY <1>1, <3>1, <3>2, <3>3
  <2> QED  BY <2>4, <2>5
<1>6. SaveIsAlone'
  BY <1>1 DEF RecordFits, SaveIsAlone
<1>7. AccountFits'
  <2> SUFFICES ASSUME account' # NoAccount, ~ late
               PROVE  /\ account'.fields = record'.fields /\ phase = "open"
                      /\ \/ \E n \in DOMAIN replies' : replies'[n].ok /\ tasks[replies'[n].task].kind = "save"
                         \/ ~ active /\ \A s \in Tasks : tasks[s].kind \in Quiet
    BY <1>1 DEF AccountFits
  <2>1. CASE tasks[t].kind = "save"
    <3>1. phase = "open"
      BY <2>1 DEF CallsFit, PhaseFits
    <3>2. ~ Works(tasks[t])
      BY <2>1 DEF Works
    <3> QED  BY <1>1, <1>3, <2>1, <3>1, <3>2
  <2>2. CASE tasks[t].kind # "save"
    <3>1. account' = account /\ account.fields = record.fields /\ phase = "open"
      BY <1>3, <2>2 DEF RecordFits, AccountFits
    <3>2. CASE \E n \in DOMAIN replies : replies[n].ok /\ tasks[replies[n].task].kind = "save"
      <4> PICK n \in DOMAIN replies : tasks[replies[n].task].kind = "save"
        BY <3>2
      <4>1. replies[n] \in Reply
        <5>1. replies \in Seq(Reply)
          BY DEF TypeOK
        <5>2. DOMAIN replies = 1 .. Len(replies)
          BY <5>1, LenProperties
        <5> QED  BY <5>1, <5>2, ElementOfSeq
      <4>2. replies[n].task \in Tasks /\ replies[n].task # t
        BY <1>1, <4>1 DEF Reply
      <4>3. tasks[t] = Idle
        BY <4>2 DEF RecordFits, SaveIsAlone
      <4> QED  BY <1>1, <4>3 DEF IsTask
    <3>3. CASE ~ active /\ \A s \in Tasks : tasks[s].kind \in Quiet
      <4>1. ~ Works(tasks[t])
        BY <3>3 DEF Quiet, Works
      <4> QED  BY <1>3, <3>1, <3>3, <4>1
    <3>4. \/ \E n \in DOMAIN replies : replies[n].ok /\ tasks[replies[n].task].kind = "save"
          \/ ~ active /\ \A s \in Tasks : tasks[s].kind \in Quiet
      BY <1>3, <2>2 DEF RecordFits, AccountFits
    <3> QED  BY <3>2, <3>3, <3>4
  <2> QED  BY <2>1, <2>2
<1>8. TransitionFits'
  <2> SUFFICES ASSUME NEW s \in Tasks, tasks[s].kind = "transitionToAuthOperation", Obtained(s, 1)'
               PROVE  account' \in Record
    BY <1>1 DEF TransitionFits
  <2>1. record \in Record /\ account \in Record \union {NoAccount}
    BY DEF TypeOK
  <2>2. CASE Obtained(s, 1)
    <3>1. account \in Record
      BY <2>2 DEF RecordFits, TransitionFits
    <3> QED  BY <1>3, <2>1, <3>1
  <2>3. CASE s = t /\ 1 = k
    <3>1. Len(tasks[t].got) \in Nat
      BY <1>1, TaskParts
    <3>2. Len(tasks[t].got) = 0
      BY <2>3, <3>1
    <3>3. account # NoAccount
      BY <1>3, <2>3, <3>2
    <3>4. account' = account
      BY <1>3, <2>3
    <3> QED  BY <2>1, <3>3, <3>4
  <2> QED  BY <1>2, <2>2, <2>3
<1> QED  BY <1>4, <1>5, <1>6, <1>7, <1>8 DEF RecordFits

LEMMA GrantFits ==
  ASSUME PageRecordInv, Grant
  PROVE  PageRecordInv'
<1>1. TypeOK /\ CallsFit /\ ObjectsFit /\ FieldsFit /\ RecordFits
  BY DEF PageRecordInv
<1>2. PICK t \in Tasks, x \in Reply : GrantsTo(t, x)
  BY <1>1, GrantFacts
<1>3. Answered(t, x)
  BY <1>2 DEF GrantsTo
<1>4. TypeOK'
  <2>1. record \in Record /\ account \in Record \union {NoAccount} /\ known \subseteq Fields
    BY <1>1 DEF TypeOK
  <2>2. record' \in Record /\ known' = known /\ account' = IF tasks[t].kind = "save" THEN record ELSE account
    BY <1>2 DEF GrantsTo
  <2>3. granted' \in BOOLEAN
    BY <1>2, Zenon DEF GrantsTo
  <2> QED  BY <1>1, <1>3, <2>1, <2>2, <2>3, AnsweredTypeOK
<1> QED  BY <1>1, <1>2, <1>3, <1>4, AnsweredCallsFit, GrantsObjectsFit, GrantsFieldsFit,
             GrantsRecordFits DEF PageRecordInv

-----------------------------------------------------------------------------
(***************************************************************************)
(* The page makes a call                                                   *)
(***************************************************************************)
LEMMA RepliesFit ==
  ASSUME TypeOK
  PROVE  \A n \in DOMAIN replies : replies[n] \in Reply /\ replies[n].task \in Tasks /\ n \in Nat
<1>1. replies \in Seq(Reply)
  BY DEF TypeOK
<1>2. DOMAIN replies = 1 .. Len(replies) /\ Len(replies) \in Nat
  BY <1>1, LenProperties
<1>3. \A n \in DOMAIN replies : replies[n] \in Reply
  BY <1>1, <1>2, ElementOfSeq
<1> QED  BY <1>2, <1>3 DEF Reply

LEMMA StartsFieldsFit ==
  ASSUME TypeOK, CallsFit, FieldsFit, NEW t \in Tasks, NEW q, Starts(t, q)
  PROVE  FieldsFit'
<1>1. /\ q \in Task /\ TaskFits(q) /\ q.got = <<>> /\ tasks[t] = Idle
      /\ (\A n \in DOMAIN replies : replies[n].task # t)
      /\ tasks'[t] = q /\ (\A s \in Tasks \ {t} : tasks'[s] = tasks[s])
      /\ UNCHANGED <<replies, record>>
  BY StartsFacts
<1>2. UNCHANGED <<fields, values>> /\ torn' = torn \union Overlap(t, q)
  BY DEF Starts, Begin, objects
<1>3. \A n \in DOMAIN replies : replies[n].task \in Tasks /\ tasks'[replies[n].task] = tasks[replies[n].task]
  BY <1>1, RepliesFit
<1>4. \A n, f : On(n, f)' <=> On(n, f)
  BY <1>1, <1>3 DEF On
<1>5. DOMAIN tasks[t].got = {} /\ DOMAIN tasks'[t].got = {} /\ ~ Adds(t)
  BY <1>1, IdleParts DEF Adds
<1>6. \A s \in Tasks : /\ DOMAIN tasks'[s].got = DOMAIN tasks[s].got
                       /\ \A i \in DOMAIN tasks[s].got : s # t
                       /\ \A i, f : Kept(s, i, f)' <=> Kept(s, i, f)
  BY <1>1, <1>5 DEF Kept
<1> SUFFICES ASSUME NEW f \in Fields \ torn'
             PROVE  LastDecides(f)' /\ AdditionsFit(f)' /\ Shared(f)'
  BY DEF FieldsFit
<1>7. LastDecides(f) /\ AdditionsFit(f) /\ Shared(f)
  BY <1>2 DEF FieldsFit
<1>8. LastDecides(f)'
  <2>1. \A s \in Tasks : \A i \in DOMAIN tasks[s].got : tasks'[s].got[i] = tasks[s].got[i]
    BY <1>1, <1>6
  <2> QED  BY <1>1, <1>2, <1>4, <1>6, <1>7, <2>1 DEF LastDecides
<1>9. \A n \in DOMAIN replies : Adds(replies[n].task)' <=> Adds(replies[n].task)
  BY <1>1, <1>3 DEF Adds
<1>10. IsPending(f)' <=> IsPending(f)
  <2>1. (\E n \in DOMAIN replies' : On(n, f)' /\ Adds(replies[n].task)')
           <=> (\E n \in DOMAIN replies : On(n, f) /\ Adds(replies[n].task))
    BY <1>1, <1>4, <1>9
  <2>2. \A s \in Tasks : (\E i \in DOMAIN tasks'[s].got : Adds(s)' /\ Kept(s, i, f)')
                           <=> (\E i \in DOMAIN tasks[s].got : Adds(s) /\ Kept(s, i, f))
    <3> SUFFICES ASSUME NEW s \in Tasks
                 PROVE  (\E i \in DOMAIN tasks'[s].got : Adds(s)' /\ Kept(s, i, f)')
                           <=> (\E i \in DOMAIN tasks[s].got : Adds(s) /\ Kept(s, i, f))
      OBVIOUS
    <3>1. CASE s = t
      BY <1>5, <3>1
    <3>2. CASE s # t
      BY <1>1, <1>6, <3>2 DEF Adds
    <3> QED  BY <3>1, <3>2
  <2> QED  BY <2>1, <2>2 DEF IsPending
<1>11. AdditionsFit(f)'
  BY <1>1, <1>2, <1>4, <1>7, <1>9, <1>10 DEF AdditionsFit
<1>12. Shared(f)'
  <2> SUFFICES ASSUME NEW r \in Tasks, NEW s \in Tasks, f \in Touches(tasks'[r]), f \in Touches(tasks'[s]), r # s
               PROVE  ~ IsBatch(tasks'[r]) /\ ~ IsBatch(tasks'[s])
    BY DEF Shared
  <2>1. \A u \in Tasks \ {t} : f \in Touches(q) /\ f \in Touches(tasks[u]) => ~ IsBatch(q) /\ ~ IsBatch(tasks[u])
    BY <1>2 DEF Overlap
  <2>2. CASE r = t
    BY <1>1, <2>1, <2>2
  <2>3. CASE s = t
    BY <1>1, <2>1, <2>3
  <2>4. CASE r # t /\ s # t
    BY <1>1, <1>7, <2>4 DEF Shared
  <2> QED  BY <2>2, <2>3, <2>4
<1> QED  BY <1>8, <1>11, <1>12

LEMMA StartsRecordFits ==
  ASSUME TypeOK, CallsFit, RecordFits, NEW t \in Tasks, NEW q, Starts(t, q)
  PROVE  RecordFits'
<1>1. /\ q \in Task /\ TaskFits(q) /\ q.got = <<>> /\ tasks[t] = Idle
      /\ (\A n \in DOMAIN replies : replies[n].task # t)
      /\ tasks'[t] = q /\ (\A s \in Tasks \ {t} : tasks'[s] = tasks[s])
      /\ UNCHANGED <<replies, record, account>>
  BY StartsFacts
<1>2. /\ UNCHANGED <<active, metadata, attributes>>
      /\ late' = (late \/ \E s \in Tasks \ {t} : tasks[s] # Idle /\ "save" \in {q.kind, tasks[s].kind})
      /\ phase' = "open" => phase = "open"
      /\ phase = "open" => phase' = "open"
      /\ q.kind \in Quiet \/ active \/ phase = "none"
  BY DEF Starts, Begin, objects
<1>3. \A n \in DOMAIN replies : replies[n].task \in Tasks /\ tasks'[replies[n].task] = tasks[replies[n].task]
  BY <1>1, RepliesFit
<1>4. \A n : Sets(n)' <=> Sets(n)
  BY <1>1, <1>3 DEF Sets
<1>5. \A n, a : SetsAttribute(n, a)' <=> SetsAttribute(n, a)
  BY <1>1, <1>3 DEF SetsAttribute
<1>6. MetadataFits'
  BY <1>1, <1>2, <1>3, <1>4 DEF RecordFits, MetadataFits
<1>7. AttributesFit'
  BY <1>1, <1>2, <1>3, <1>5 DEF RecordFits, AttributesFit
<1>8. SaveIsAlone'
  <2> SUFFICES ASSUME ~ late', NEW r \in Tasks, NEW s \in Tasks, tasks'[s].kind = "save", r # s
               PROVE  tasks'[r] = Idle
    BY DEF SaveIsAlone
  <2>1. \A u \in Tasks \ {t} : tasks[u] # Idle => q.kind # "save" /\ tasks[u].kind # "save"
    BY <1>2
  <2>2. Idle.kind # "save"
    BY IdleParts
  <2>3. CASE s = t
    BY <1>1, <2>1, <2>3
  <2>4. CASE s # t
    BY <1>1, <2>1, <2>2, <2>4
  <2> QED  BY <2>3, <2>4
<1>9. AccountFits'
  <2> SUFFICES ASSUME account # NoAccount, ~ late'
               PROVE  /\ account.fields = record.fields /\ phase' = "open"
                      /\ \/ \E n \in DOMAIN replies : replies[n].ok /\ tasks'[replies[n].task].kind = "save"
                         \/ ~ active /\ \A s \in Tasks : tasks'[s].kind \in Quiet
    BY <1>1, <1>2 DEF AccountFits
  <2>1. /\ account.fields = record.fields /\ phase = "open"
        /\ \/ \E n \in DOMAIN replies : replies[n].ok /\ tasks[replies[n].task].kind = "save"
           \/ ~ active /\ \A s \in Tasks : tasks[s].kind \in Quiet
    BY <1>2 DEF RecordFits, AccountFits
  <2>2. CASE \E n \in DOMAIN replies : replies[n].ok /\ tasks[replies[n].task].kind = "save"
    BY <1>2, <1>3, <2>1, <2>2
  <2>3. CASE ~ active /\ \A s \in Tasks : tasks[s].kind \in Quiet
    <3>1. q.kind \in Quiet
      BY <1>2, <2>1, <2>3
    <3>2. \A s \in Tasks : tasks'[s].kind \in Quiet
      BY <1>1, <2>3, <3>1
    <3> QED  BY <1>2, <2>1, <2>3, <3>2
  <2> QED  BY <2>1, <2>2, <2>3
<1>10. TransitionFits'
  <2> SUFFICES ASSUME NEW s \in Tasks, tasks'[s].kind = "transitionToAuthOperation", Obtained(s, 1)'
               PROVE  account \in Record
    BY <1>1 DEF TransitionFits
  <2>1. s # t
    BY <1>1 DEF Obtained, Answers
  <2>2. Obtained(s, 1)
    BY <1>1, <2>1 DEF Obtained, Answers
  <2> QED  BY <1>1, <2>1, <2>2 DEF RecordFits, TransitionFits
<1> QED  BY <1>6, <1>7, <1>8, <1>9, <1>10 DEF RecordFits

LEMMA StartsFits ==
  ASSUME PageRecordInv, NEW t \in Tasks, NEW q, Starts(t, q)
  PROVE  PageRecordInv'
<1>1. TypeOK /\ CallsFit /\ ObjectsFit /\ FieldsFit /\ RecordFits
  BY DEF PageRecordInv
<1> QED  BY <1>1, StartsTypeOK, StartsCallsFit, StartsObjectsFit, StartsFieldsFit,
             StartsRecordFits DEF PageRecordInv

-----------------------------------------------------------------------------
(***************************************************************************)
(* An answer is heard                                                      *)
(***************************************************************************)
\* The first answer is gone, and its call is the only one that changes.
Hears(t) ==
  /\ Heard(t) /\ replies' = Tail(replies)
  /\ \A s \in Tasks \ {t} : tasks'[s] = tasks[s]

LEMMA HeardFacts ==
  ASSUME TypeOK, CallsFit, NEW t \in Tasks, Hears(t)
  PROVE  /\ \A n \in DOMAIN replies' :
               /\ n \in Nat \ {0} /\ n + 1 \in DOMAIN replies /\ replies'[n] = replies[n + 1]
               /\ replies'[n].task \in Tasks \ {t} /\ tasks'[replies'[n].task] = tasks[replies'[n].task]
         /\ \A n \in DOMAIN replies :
               n \in Nat /\ (n = 1 \/ (n - 1 \in DOMAIN replies' /\ n = (n - 1) + 1))
         /\ 1 \in DOMAIN replies /\ replies[1].task = t
         /\ \A n \in DOMAIN replies' : \A f : On(n, f)' <=> On(n + 1, f)
         /\ \A n \in DOMAIN replies' : Sets(n)' <=> Sets(n + 1)
         /\ \A n \in DOMAIN replies' : \A a : SetsAttribute(n, a)' <=> SetsAttribute(n + 1, a)
         /\ \A s \in Tasks \ {t} : \A i : Obtained(s, i)' <=> Obtained(s, i)
         /\ \A s \in Tasks \ {t} : \A i, f : Kept(s, i, f)' <=> Kept(s, i, f)
<1>1. /\ 1 \in DOMAIN replies /\ replies[1].task = t
      /\ \A n \in DOMAIN replies : replies[n].task = t => n = 1
  BY HeardOne DEF Hears
<1>2. replies # <<>> /\ replies' = Tail(replies) /\ \A s \in Tasks \ {t} : tasks'[s] = tasks[s]
  BY DEF Hears, Heard
<1>3. /\ \A n \in DOMAIN replies' : n \in Nat \ {0} /\ n + 1 \in DOMAIN replies /\ replies'[n] = replies[n + 1]
      /\ \A n \in DOMAIN replies : n \in Nat /\ (n = 1 \/ (n - 1 \in DOMAIN replies' /\ replies'[n - 1] = replies[n]))
  BY <1>2, AnswersGone
<1>4. \A n \in DOMAIN replies : replies[n].task \in Tasks
  BY RepliesFit
<1>5. \A n \in DOMAIN replies' : replies'[n].task \in Tasks \ {t} /\ tasks'[replies'[n].task] = tasks[replies'[n].task]
  <2> SUFFICES ASSUME NEW n \in DOMAIN replies'
               PROVE  replies'[n].task \in Tasks \ {t}
    BY <1>2
  <2>1. n + 1 \in DOMAIN replies /\ n + 1 # 1 /\ replies'[n] = replies[n + 1]
    BY <1>3
  <2> QED  BY <1>1, <1>4, <2>1
<1>6. \A n \in DOMAIN replies' : \A f : On(n, f)' <=> On(n + 1, f)
  BY <1>3, <1>5 DEF On
<1>7. \A n \in DOMAIN replies' : Sets(n)' <=> Sets(n + 1)
  BY <1>3, <1>5 DEF Sets
<1>8. \A n \in DOMAIN replies' : \A a : SetsAttribute(n, a)' <=> SetsAttribute(n + 1, a)
  BY <1>3, <1>5 DEF SetsAttribute
<1>9. \A s \in Tasks \ {t} : \A i : Obtained(s, i)' <=> Obtained(s, i)
  <2> SUFFICES ASSUME NEW s \in Tasks \ {t}, NEW i
               PROVE  Obtained(s, i)' <=> Obtained(s, i)
    OBVIOUS
  <2>1. ASSUME NEW n \in DOMAIN replies', Answers(n, s)', replies'[n].ok
        PROVE  Answers(n + 1, s) /\ replies[n + 1].ok /\ n + 1 \in DOMAIN replies
    BY <1>3, <2>1 DEF Answers
  <2>2. ASSUME NEW n \in DOMAIN replies, Answers(n, s), replies[n].ok
        PROVE  Answers(n - 1, s)' /\ replies'[n - 1].ok /\ n - 1 \in DOMAIN replies'
    BY <1>1, <1>3, <2>2 DEF Answers
  <2>3. (\E n \in DOMAIN replies' : Answers(n, s)' /\ replies'[n].ok)
           <=> (\E n \in DOMAIN replies : Answers(n, s) /\ replies[n].ok)
    BY <2>1, <2>2
  <2> QED  BY <1>2, <2>3 DEF Obtained
<1>10. \A s \in Tasks \ {t} : \A i, f : Kept(s, i, f)' <=> Kept(s, i, f)
  BY <1>2 DEF Kept
<1>11. \A n \in DOMAIN replies : n \in Nat /\ (n = 1 \/ (n - 1 \in DOMAIN replies' /\ n = (n - 1) + 1))
  BY <1>3
<1> QED  BY <1>1, <1>3, <1>5, <1>6, <1>7, <1>8, <1>9, <1>10, <1>11

\* The last of the steps is the last of those that are left.
LEMMA LastLeft ==
  ASSUME TypeOK, CallsFit, NEW t \in Tasks, Hears(t), NEW f
  PROVE  /\ \A n \in DOMAIN replies' :
               On(n, f)' /\ (\A m \in DOMAIN replies' : On(m, f)' => m <= n)
                 => /\ n + 1 \in DOMAIN replies /\ On(n + 1, f)
                    /\ \A m \in DOMAIN replies : On(m, f) => m <= n + 1
         /\ (\A n \in DOMAIN replies' : ~ On(n, f)') => \A n \in DOMAIN replies : On(n, f) => n = 1
         /\ (\A n \in DOMAIN replies' : ~ Sets(n)') => \A n \in DOMAIN replies : Sets(n) => n = 1
         /\ (\A n \in DOMAIN replies' : ~ SetsAttribute(n, f)')
               => \A n \in DOMAIN replies : SetsAttribute(n, f) => n = 1
         /\ \A n \in DOMAIN replies' :
               Sets(n)' /\ (\A m \in DOMAIN replies' : Sets(m)' => m <= n)
                 => /\ n + 1 \in DOMAIN replies /\ Sets(n + 1)
                    /\ \A m \in DOMAIN replies : Sets(m) => m <= n + 1
         /\ \A n \in DOMAIN replies' :
               SetsAttribute(n, f)' /\ (\A m \in DOMAIN replies' : SetsAttribute(m, f)' => m <= n)
                 => /\ n + 1 \in DOMAIN replies /\ SetsAttribute(n + 1, f)
                    /\ \A m \in DOMAIN replies : SetsAttribute(m, f) => m <= n + 1
<1>1. /\ \A n \in DOMAIN replies' : n \in Nat \ {0} /\ n + 1 \in DOMAIN replies
      /\ \A n \in DOMAIN replies :
            n \in Nat /\ (n = 1 \/ (n - 1 \in DOMAIN replies' /\ n = (n - 1) + 1))
      /\ \A n \in DOMAIN replies' : On(n, f)' <=> On(n + 1, f)
      /\ \A n \in DOMAIN replies' : Sets(n)' <=> Sets(n + 1)
      /\ \A n \in DOMAIN replies' : SetsAttribute(n, f)' <=> SetsAttribute(n + 1, f)
  BY HeardFacts
<1>2. ASSUME NEW n \in DOMAIN replies', On(n, f)', \A m \in DOMAIN replies' : On(m, f)' => m <= n,
             NEW m \in DOMAIN replies, On(m, f)
      PROVE  m <= n + 1
  <2>1. CASE m = 1
    BY <1>1, <2>1
  <2>2. CASE m # 1
    <3>1. m - 1 \in DOMAIN replies' /\ m = (m - 1) + 1 /\ On(m - 1, f)'
      BY <1>1, <1>2, <2>2
    <3>2. m - 1 <= n
      BY <1>2, <3>1
    <3> QED  BY <1>1, <3>2
  <2> QED  BY <2>1, <2>2
<1>3. ASSUME NEW n \in DOMAIN replies', Sets(n)', \A m \in DOMAIN replies' : Sets(m)' => m <= n,
             NEW m \in DOMAIN replies, Sets(m)
      PROVE  m <= n + 1
  <2>1. CASE m = 1
    BY <1>1, <2>1
  <2>2. CASE m # 1
    <3>1. m - 1 \in DOMAIN replies' /\ m = (m - 1) + 1 /\ Sets(m - 1)'
      BY <1>1, <1>3, <2>2
    <3>2. m - 1 <= n
      BY <1>3, <3>1
    <3> QED  BY <1>1, <3>2
  <2> QED  BY <2>1, <2>2
<1>4. ASSUME NEW n \in DOMAIN replies', SetsAttribute(n, f)', \A m \in DOMAIN replies' : SetsAttribute(m, f)' => m <= n,
             NEW m \in DOMAIN replies, SetsAttribute(m, f)
      PROVE  m <= n + 1
  <2>1. CASE m = 1
    BY <1>1, <2>1
  <2>2. CASE m # 1
    <3>1. m - 1 \in DOMAIN replies' /\ m = (m - 1) + 1 /\ SetsAttribute(m - 1, f)'
      BY <1>1, <1>4, <2>2
    <3>2. m - 1 <= n
      BY <1>4, <3>1
    <3> QED  BY <1>1, <3>2
  <2> QED  BY <2>1, <2>2
<1>5. (\A n \in DOMAIN replies' : ~ On(n, f)') => \A n \in DOMAIN replies : On(n, f) => n = 1
  BY <1>1
<1>6. (\A n \in DOMAIN replies' : ~ Sets(n)') => \A n \in DOMAIN replies : Sets(n) => n = 1
  BY <1>1
<1>7. (\A n \in DOMAIN replies' : ~ SetsAttribute(n, f)') => \A n \in DOMAIN replies : SetsAttribute(n, f) => n = 1
  BY <1>1
<1>8. \A n \in DOMAIN replies' :
               On(n, f)' /\ (\A m \in DOMAIN replies' : On(m, f)' => m <= n)
                 => /\ n + 1 \in DOMAIN replies /\ On(n + 1, f)
                    /\ \A m \in DOMAIN replies : On(m, f) => m <= n + 1
  BY <1>1, <1>2
<1>9. \A n \in DOMAIN replies' :
               Sets(n)' /\ (\A m \in DOMAIN replies' : Sets(m)' => m <= n)
                 => /\ n + 1 \in DOMAIN replies /\ Sets(n + 1)
                    /\ \A m \in DOMAIN replies : Sets(m) => m <= n + 1
  BY <1>1, <1>3
<1>10. \A n \in DOMAIN replies' :
               SetsAttribute(n, f)' /\ (\A m \in DOMAIN replies' : SetsAttribute(m, f)' => m <= n)
                 => /\ n + 1 \in DOMAIN replies /\ SetsAttribute(n + 1, f)
                    /\ \A m \in DOMAIN replies : SetsAttribute(m, f) => m <= n + 1
  BY <1>1, <1>4
<1> QED  BY <1>5, <1>6, <1>7, <1>8, <1>9, <1>10

LEMMA GoesOnHears ==
  ASSUME TypeOK, CallsFit, NEW t \in Tasks, NEW q, GoesOn(t, q)
  PROVE  /\ Hears(t) /\ replies[1].ok
         /\ \A s \in Tasks : \A i : Obtained(s, i)' <=> Obtained(s, i)
         /\ UNCHANGED <<phase, fields, values, metadata, attributes, record, account, torn, late>>
         /\ Len(tasks[t].got) \in Nat /\ Len(tasks[t].got) + 1 < Len(tasks[t].list)
         /\ Asked(tasks[t]) = tasks[t].list[Len(tasks[t].got) + 1]
         /\ DOMAIN q.got = 1 .. Len(tasks[t].got) + 1 /\ DOMAIN tasks[t].got = 1 .. Len(tasks[t].got)
         /\ \A i \in DOMAIN tasks[t].got : i \in DOMAIN q.got /\ q.got[i] = tasks[t].got[i]
         /\ q.got[Len(tasks[t].got) + 1] = replies[1].value
<1>1. /\ q.got = Latest(t) /\ tasks'[t] = q /\ (\A s \in Tasks \ {t} : tasks'[s] = tasks[s])
      /\ TaskFits(q) /\ q.list = tasks[t].list
  BY GoesOnFacts
<1>2. Heard(t) /\ replies' = Tail(replies) /\ replies[1].ok
      /\ UNCHANGED <<phase, fields, values, metadata, attributes, record, account, torn, late>>
  BY DEF GoesOn, objects
<1>3. Hears(t)
  BY <1>1, <1>2 DEF Hears
<1>4. /\ 1 \in DOMAIN replies /\ replies[1].task = t /\ tasks[t] \in Task
      /\ \A n \in DOMAIN replies : replies[n].task = t => n = 1
      /\ DOMAIN Latest(t) = 1 .. Len(tasks[t].got) + 1 /\ Len(Latest(t)) = Len(tasks[t].got) + 1
      /\ \A i \in 1 .. Len(tasks[t].got) : Latest(t)[i] = tasks[t].got[i]
      /\ Latest(t)[Len(tasks[t].got) + 1] = replies[1].value
  BY <1>2, HeardOne
<1>5. Len(tasks[t].got) \in Nat /\ DOMAIN tasks[t].got = 1 .. Len(tasks[t].got)
  BY <1>4, TaskParts
<1>6. Len(tasks[t].got) + 1 < Len(tasks[t].list)
  BY <1>1, <1>4 DEF TaskFits
<1>7. \A i \in DOMAIN tasks[t].got : i \in DOMAIN q.got /\ q.got[i] = tasks[t].got[i]
  BY <1>1, <1>4, <1>5
<1>8. \A i : Obtained(t, i)' <=> Obtained(t, i)
  <2> SUFFICES ASSUME NEW i  PROVE  Obtained(t, i)' <=> Obtained(t, i)
    OBVIOUS
  <2>1. \A n \in DOMAIN replies' : ~ Answers(n, t)'
    BY <1>3, HeardFacts DEF Answers
  <2>2. Obtained(t, i)' <=> i \in DOMAIN q.got
    BY <1>1, <2>1 DEF Obtained
  <2>3. \E n \in DOMAIN replies : Answers(n, t) /\ replies[n].ok
    BY <1>2, <1>4 DEF Answers
  <2>4. Obtained(t, i) <=> i \in DOMAIN tasks[t].got \/ i = Len(tasks[t].got) + 1
    BY <2>3 DEF Obtained
  <2> QED  BY <1>1, <1>4, <1>5, <2>2, <2>4
<1>9. \A s \in Tasks : \A i : Obtained(s, i)' <=> Obtained(s, i)
  BY <1>3, <1>8, HeardFacts
<1> QED  BY <1>1, <1>2, <1>3, <1>4, <1>5, <1>6, <1>7, <1>9 DEF Asked

LEMMA GoesOnObjectsFit ==
  ASSUME TypeOK, CallsFit, ObjectsFit, NEW t \in Tasks, NEW q, GoesOn(t, q)
  PROVE  ObjectsFit'
<1>1. /\ q \in Task /\ TaskFits(q) /\ q.kind = tasks[t].kind /\ q.list = tasks[t].list /\ q.got = Latest(t)
      /\ tasks'[t] = q /\ (\A s \in Tasks \ {t} : tasks'[s] = tasks[s])
      /\ call = NoCall /\ call' # NoCall /\ call'.item = Asked(q)
      /\ call'.method = MethodOf(q.kind, Len(q.got) + 1)
      /\ IsValid(call') /\ Len(q.got) + 1 \in DOMAIN q.list
      /\ known' = (IF call'.method = "addField" THEN known \union {call'.item.id} ELSE known)
  BY GoesOnFacts
<1>2. /\ Hears(t) /\ replies[1].ok /\ UNCHANGED <<fields, values, record>>
      /\ \A s \in Tasks : \A i : Obtained(s, i)' <=> Obtained(s, i)
  BY GoesOnHears
<1>3. /\ \A n \in DOMAIN replies' :
            /\ n + 1 \in DOMAIN replies /\ replies'[n] = replies[n + 1]
            /\ replies'[n].task \in Tasks \ {t}
  BY <1>2, HeardFacts
<1>4. /\ call'.method = "addField" <=> q.kind = "addFields"
      /\ call'.method = "rejectFieldValue" <=> q.kind = "rejectAndReviseFields"
  BY <1>1, MethodFits, TaskParts DEF TaskFits
<1>5. Works(q) => call'.item.id \in Fields
  BY <1>1 DEF TaskFits, Asked
<1>6. \A f \in Fields : f \in known <=> record.fields[f] # Null
  BY <1>1 DEF ObjectsFit, KnownFits
<1>7. ValuesFit'
  <2> SUFFICES ASSUME NEW s \in Tasks, Works(tasks'[s])
               PROVE  /\ \A i \in DOMAIN tasks'[s].got : ValueFits(tasks'[s], i, tasks'[s].got[i])
                      /\ \A n \in DOMAIN replies' : Answers(n, s)' /\ replies'[n].ok =>
                            ValueFits(tasks'[s], Len(tasks'[s].got) + 1, replies'[n].value)
    BY DEF ValuesFit, Works, ValueFits
  <2>1. CASE s = t
    <3>1. Works(tasks[t])
      BY <1>1, <2>1 DEF Works
    <3>2. \A i \in DOMAIN Latest(t) : ValueFits(tasks[t], i, Latest(t)[i])
      BY <1>2, <3>1, LatestFits DEF Hears
    <3>3. \A i \in DOMAIN q.got : ValueFits(q, i, q.got[i])
      BY <1>1, <3>2 DEF ValueFits
    <3> QED  BY <1>1, <1>3, <2>1, <3>3 DEF Answers
  <2>2. CASE s # t
    BY <1>1, <1>3, <2>2 DEF ObjectsFit, ValuesFit, Answers
  <2> QED  BY <2>1, <2>2
<1>8. KnownFits' /\ CallIsRight'
  <2>1. q.kind = "addFields" => call'.item.id \in Fields /\ record.fields[call'.item.id] = Null
    BY <1>1, <1>4, <1>5, <1>6 DEF IsValid, Works
  <2>2. q.kind = "rejectAndReviseFields" => call'.item.id \in Fields /\ record.fields[call'.item.id] # Null
    BY <1>1, <1>4, <1>5, <1>6 DEF IsValid, Works
  <2>3. KnownFits'
    BY <1>1, <1>2, <1>4, <1>6, <2>1 DEF KnownFits
  <2>4. CallIsRight'
    BY <1>1, <1>2, <1>4, <2>1, <2>2 DEF CallIsRight
  <2> QED  BY <2>3, <2>4
<1>9. \A s \in Tasks : tasks'[s].list = tasks[s].list /\ tasks'[s].kind = tasks[s].kind
  BY <1>1
<1>10. Untold'
  BY <1>2 DEF ObjectsFit, Untold
<1>11. OffersFit'
  BY <1>2, <1>9 DEF ObjectsFit, OffersFit, Adds
<1>12. GrantedAreHeld'
  BY <1>2, <1>9 DEF ObjectsFit, GrantedAreHeld, Works
<1>13. AddedOnce'
  BY <1>2, <1>9 DEF ObjectsFit, AddedOnce, Adds
<1> QED  BY <1>7, <1>8, <1>10, <1>11, <1>12, <1>13 DEF ObjectsFit

LEMMA GoesOnRecordFits ==
  ASSUME TypeOK, CallsFit, RecordFits, NEW t \in Tasks, NEW q, GoesOn(t, q)
  PROVE  RecordFits'
<1>1. /\ q \in Task /\ TaskFits(q) /\ q.kind = tasks[t].kind
      /\ tasks'[t] = q /\ (\A s \in Tasks \ {t} : tasks'[s] = tasks[s])
  BY GoesOnFacts
<1>2. /\ Hears(t) /\ replies[1].ok
      /\ UNCHANGED <<phase, metadata, attributes, record, account, late>>
      /\ \A s \in Tasks : \A i : Obtained(s, i)' <=> Obtained(s, i)
      /\ Len(tasks[t].got) \in Nat /\ Len(tasks[t].got) + 1 < Len(tasks[t].list)
  BY GoesOnHears
<1>3. tasks[t] \in Task /\ TaskFits(tasks[t]) /\ IsTask(t) /\ replies[1].task = t /\ 1 \in DOMAIN replies
  BY <1>2, HeardOne DEF Hears
<1>4. tasks[t].kind \notin {"setMetadata", "setUserAttributes", "save", "close"}
  <2> SUFFICES ASSUME tasks[t].kind \in {"setMetadata", "setUserAttributes", "save", "close"}  PROVE FALSE
    OBVIOUS
  <2>1. ~ Works(tasks[t]) /\ Steps(tasks[t].kind) = 1
    BY DEF Works, Steps
  <2>2. Len(tasks[t].list) = 1
    BY <1>3, <2>1 DEF TaskFits
  <2> QED  BY <1>2, <2>2
<1>5. \A n \in DOMAIN replies' : /\ n + 1 \in DOMAIN replies /\ replies'[n] = replies[n + 1]
                                 /\ replies'[n].task \in Tasks \ {t} /\ tasks'[replies'[n].task] = tasks[replies'[n].task]
  BY <1>2, HeardFacts
<1>6. \A n \in DOMAIN replies : n = 1 \/ (n - 1 \in DOMAIN replies' /\ n = (n - 1) + 1)
  BY <1>2, HeardFacts
<1>7. MetadataFits'
  <2>1. /\ (\A n \in DOMAIN replies' : ~ Sets(n)') => \A n \in DOMAIN replies : Sets(n) => n = 1
        /\ \A n \in DOMAIN replies' :
               Sets(n)' /\ (\A m \in DOMAIN replies' : Sets(m)' => m <= n)
                 => /\ n + 1 \in DOMAIN replies /\ Sets(n + 1)
                    /\ \A m \in DOMAIN replies : Sets(m) => m <= n + 1
    BY <1>2, LastLeft
  <2>2. ~ Sets(1)
    BY <1>3, <1>4 DEF Sets
  <2>3. MetadataFits
    BY DEF RecordFits
  <2> QED  BY <1>2, <1>5, <2>1, <2>2, <2>3 DEF MetadataFits
<1>8. AttributesFit'
  <2> SUFFICES ASSUME NEW a \in UserAttributes
               PROVE  /\ \A n \in DOMAIN replies' :
                            SetsAttribute(n, a)' /\ (\A m \in DOMAIN replies' : SetsAttribute(m, a)' => m <= n)
                              => tasks'[replies'[n].task].list[1].value = record'.attributes[a]
                      /\ (\A n \in DOMAIN replies' : ~ SetsAttribute(n, a)') /\ phase' = "open"
                              => attributes'[a] = record'.attributes[a]
    BY DEF AttributesFit
  <2>1. /\ (\A n \in DOMAIN replies' : ~ SetsAttribute(n, a)') => \A n \in DOMAIN replies : SetsAttribute(n, a) => n = 1
        /\ \A n \in DOMAIN replies' :
               SetsAttribute(n, a)' /\ (\A m \in DOMAIN replies' : SetsAttribute(m, a)' => m <= n)
                 => /\ n + 1 \in DOMAIN replies /\ SetsAttribute(n + 1, a)
                    /\ \A m \in DOMAIN replies : SetsAttribute(m, a) => m <= n + 1
    BY <1>2, LastLeft
  <2>2. ~ SetsAttribute(1, a)
    BY <1>3, <1>4 DEF SetsAttribute
  <2>3. AttributesFit
    BY DEF RecordFits
  <2> QED  BY <1>2, <1>5, <2>1, <2>2, <2>3 DEF AttributesFit
<1>9. \A s \in Tasks : tasks'[s].kind = tasks[s].kind
  BY <1>1
<1>10. SaveIsAlone'
  <2> SUFFICES ASSUME ~ late, NEW r \in Tasks, NEW s \in Tasks, tasks'[s].kind = "save", r # s
               PROVE  tasks'[r] = Idle
    BY <1>2 DEF SaveIsAlone
  <2>1. tasks[r] = Idle
    BY <1>9 DEF RecordFits, SaveIsAlone
  <2> QED  BY <1>1, <1>3, <2>1 DEF IsTask
<1>11. AccountFits'
  <2> SUFFICES ASSUME account # NoAccount, ~ late
               PROVE  /\ account.fields = record.fields /\ phase = "open"
                      /\ \/ \E n \in DOMAIN replies' : replies'[n].ok /\ tasks'[replies'[n].task].kind = "save"
                         \/ ~ active' /\ \A s \in Tasks : tasks'[s].kind \in Quiet
    BY <1>2 DEF AccountFits
  <2>1. /\ account.fields = record.fields /\ phase = "open"
        /\ \/ \E n \in DOMAIN replies : replies[n].ok /\ tasks[replies[n].task].kind = "save"
           \/ ~ active /\ \A s \in Tasks : tasks[s].kind \in Quiet
    BY DEF RecordFits, AccountFits
  <2>2. CASE \E n \in DOMAIN replies : replies[n].ok /\ tasks[replies[n].task].kind = "save"
    <3> PICK n \in DOMAIN replies : replies[n].ok /\ tasks[replies[n].task].kind = "save"
      BY <2>2
    <3>1. n # 1
      BY <1>3, <1>4
    <3> PICK m : m = n - 1
      OBVIOUS
    <3>2. m \in DOMAIN replies' /\ replies'[m] = replies[n]
      BY <1>5, <1>6, <3>1
    <3> QED  BY <1>5, <2>1, <3>2
  <2>3. CASE ~ active /\ \A s \in Tasks : tasks[s].kind \in Quiet
    <3>1. tasks[t].kind # "login"
      BY <2>3 DEF Quiet
    <3>2. ~ active'
      BY <2>3, <3>1 DEF GoesOn
    <3> QED  BY <1>9, <2>1, <2>3, <3>2
  <2> QED  BY <2>1, <2>2, <2>3
<1>12. TransitionFits'
  BY <1>2, <1>9 DEF RecordFits, TransitionFits
<1> QED  BY <1>7, <1>8, <1>10, <1>11, <1>12 DEF RecordFits

\* Nothing changes for a field that the answer is not about.
LEMMA ElsewhereFits ==
  ASSUME TypeOK, CallsFit, NEW t \in Tasks, Hears(t), NEW f, LastDecides(f), AdditionsFit(f), ~ On(1, f),
         record'.fields[f] = record.fields[f], f \in fields' <=> f \in fields, values'[f] = values[f],
         \A i : Kept(t, i, f)' <=> Kept(t, i, f),
         \A i : Kept(t, i, f) => tasks'[t].got[i] = tasks[t].got[i] /\ (Adds(t)' <=> Adds(t))
  PROVE  LastDecides(f)' /\ AdditionsFit(f)'
<1>1. /\ \A n \in DOMAIN replies' :
            /\ n \in Nat \ {0} /\ n + 1 \in DOMAIN replies /\ replies'[n] = replies[n + 1]
            /\ replies'[n].task \in Tasks \ {t} /\ tasks'[replies'[n].task] = tasks[replies'[n].task]
      /\ \A n \in DOMAIN replies :
            n \in Nat /\ (n = 1 \/ (n - 1 \in DOMAIN replies' /\ n = (n - 1) + 1))
      /\ \A n \in DOMAIN replies' : On(n, f)' <=> On(n + 1, f)
      /\ \A s \in Tasks \ {t} : \A i : Kept(s, i, f)' <=> Kept(s, i, f)
  BY HeardFacts
<1>2. /\ \A n \in DOMAIN replies' :
               On(n, f)' /\ (\A m \in DOMAIN replies' : On(m, f)' => m <= n)
                 => /\ n + 1 \in DOMAIN replies /\ On(n + 1, f)
                    /\ \A m \in DOMAIN replies : On(m, f) => m <= n + 1
      /\ (\A n \in DOMAIN replies' : ~ On(n, f)') => \A n \in DOMAIN replies : On(n, f) => n = 1
  BY LastLeft
<1>3. \A s \in Tasks \ {t} : tasks'[s] = tasks[s]
  BY DEF Hears
<1>4. \A s \in Tasks : \A i : /\ Kept(s, i, f)' <=> Kept(s, i, f)
                              /\ Kept(s, i, f) => tasks'[s].got[i] = tasks[s].got[i] /\ (Adds(s)' <=> Adds(s))
  BY <1>1, <1>3 DEF Adds
<1>5. \A s, i : (Kept(s, i, f) => i \in DOMAIN tasks[s].got) /\ (Kept(s, i, f)' => i \in DOMAIN tasks'[s].got)
  BY DEF Kept
<1>6. LastDecides(f)'
  <2>1. ASSUME NEW n \in DOMAIN replies', On(n, f)', \A m \in DOMAIN replies' : On(m, f)' => m <= n
        PROVE  record'.fields[f] = replies'[n].value
    <3>1. record.fields[f] = replies[n + 1].value
      BY <1>2, <2>1 DEF LastDecides
    <3> QED  BY <1>1, <3>1
  <2>2. ASSUME \A n \in DOMAIN replies' : ~ On(n, f)'
        PROVE  /\ \A s \in Tasks : \A i \in DOMAIN tasks'[s].got :
                     Kept(s, i, f)' /\ (\A j \in DOMAIN tasks'[s].got : Kept(s, j, f)' => j <= i)
                       => record'.fields[f] = tasks'[s].got[i]
               /\ (\A s \in Tasks : \A i \in DOMAIN tasks'[s].got : ~ Kept(s, i, f)') /\ f \in fields'
                     => values'[f] = record'.fields[f]
    <3>1. \A n \in DOMAIN replies : ~ On(n, f)
      BY <1>2, <2>2
    <3>2. /\ \A s \in Tasks : \A i \in DOMAIN tasks[s].got :
                Kept(s, i, f) /\ (\A j \in DOMAIN tasks[s].got : Kept(s, j, f) => j <= i)
                  => record.fields[f] = tasks[s].got[i]
          /\ (\A s \in Tasks : \A i \in DOMAIN tasks[s].got : ~ Kept(s, i, f)) /\ f \in fields
                => values[f] = record.fields[f]
      BY <3>1 DEF LastDecides
    <3>3. ASSUME NEW s \in Tasks, NEW i \in DOMAIN tasks'[s].got,
                 Kept(s, i, f)', \A j \in DOMAIN tasks'[s].got : Kept(s, j, f)' => j <= i
          PROVE  record'.fields[f] = tasks'[s].got[i]
      <4>1. i \in DOMAIN tasks[s].got /\ Kept(s, i, f)
        BY <1>4, <1>5, <3>3
      <4>2. \A j \in DOMAIN tasks[s].got : Kept(s, j, f) => j <= i
        BY <1>4, <1>5, <3>3
      <4> QED  BY <1>4, <3>2, <4>1, <4>2
    <3>4. (\A s \in Tasks : \A i \in DOMAIN tasks'[s].got : ~ Kept(s, i, f)')
             => \A s \in Tasks : \A i \in DOMAIN tasks[s].got : ~ Kept(s, i, f)
      BY <1>4, <1>5
    <3> QED  BY <3>2, <3>3, <3>4
  <2> QED  BY <2>1, <2>2 DEF LastDecides
<1>7. IsPending(f)' <=> IsPending(f)
  <2>1. (\E n \in DOMAIN replies' : On(n, f)' /\ Adds(replies[n].task)')
           <=> (\E n \in DOMAIN replies : On(n, f) /\ Adds(replies[n].task))
    <3>1. ASSUME NEW n \in DOMAIN replies', On(n, f)', Adds(replies[n].task)'
          PROVE  n + 1 \in DOMAIN replies /\ On(n + 1, f) /\ Adds(replies[n + 1].task)
      BY <1>1, <3>1 DEF Adds
    <3>2. ASSUME NEW n \in DOMAIN replies, On(n, f), Adds(replies[n].task)
          PROVE  n - 1 \in DOMAIN replies' /\ On(n - 1, f)' /\ Adds(replies[n - 1].task)'
      <4> PICK m : m = n - 1
        OBVIOUS
      <4>1. m \in DOMAIN replies' /\ n = m + 1
        BY <1>1, <3>2
      <4>2. On(m, f)' /\ Adds(replies[m].task)'
        BY <1>1, <3>2, <4>1 DEF Adds
      <4> QED  BY <4>1, <4>2
    <3> QED  BY <3>1, <3>2
  <2>2. (\E s \in Tasks : Adds(s)' /\ \E i \in DOMAIN tasks'[s].got : Kept(s, i, f)')
           <=> (\E s \in Tasks : Adds(s) /\ \E i \in DOMAIN tasks[s].got : Kept(s, i, f))
    BY <1>4, <1>5
  <2> QED  BY <2>1, <2>2 DEF IsPending
<1>8. AdditionsFit(f)'
  <2>1. \A m, n \in DOMAIN replies' : On(m, f)' /\ On(n, f)' /\ Adds(replies[n].task)' /\ m # n => n < m
    <3> SUFFICES ASSUME NEW m \in DOMAIN replies', NEW n \in DOMAIN replies',
                        On(m, f)', On(n, f)', Adds(replies[n].task)', m # n
                 PROVE  n < m
      OBVIOUS
    <3>1. On(m + 1, f) /\ On(n + 1, f) /\ Adds(replies[n + 1].task) /\ m + 1 # n + 1
          /\ m + 1 \in DOMAIN replies /\ n + 1 \in DOMAIN replies
      BY <1>1 DEF Adds
    <3>2. n + 1 < m + 1
      BY <3>1 DEF AdditionsFit
    <3> QED  BY <1>1, <3>2
  <2> QED  BY <1>7, <2>1 DEF AdditionsFit
<1> QED  BY <1>6, <1>8

LEMMA GoesOnFieldsFit ==
  ASSUME TypeOK, CallsFit, ObjectsFit, FieldsFit, NEW t \in Tasks, NEW q, GoesOn(t, q)
  PROVE  FieldsFit'
<1> PICK k : k = Len(tasks[t].got) + 1
  OBVIOUS
<1>1. /\ q \in Task /\ TaskFits(q) /\ q.kind = tasks[t].kind /\ q.list = tasks[t].list
      /\ tasks'[t] = q /\ (\A s \in Tasks \ {t} : tasks'[s] = tasks[s])
  BY GoesOnFacts
<1>2. /\ Hears(t) /\ replies[1].ok /\ UNCHANGED <<fields, values, record, torn>>
      /\ Len(tasks[t].got) \in Nat /\ k < Len(tasks[t].list)
      /\ Asked(tasks[t]) = tasks[t].list[k]
      /\ DOMAIN q.got = 1 .. k /\ DOMAIN tasks[t].got = 1 .. k - 1
      /\ \A i \in DOMAIN tasks[t].got : i \in DOMAIN q.got /\ q.got[i] = tasks[t].got[i]
      /\ q.got[k] = replies[1].value
  BY GoesOnHears
<1>3. /\ \A n \in DOMAIN replies' :
            /\ n \in Nat \ {0} /\ n + 1 \in DOMAIN replies /\ replies'[n] = replies[n + 1]
            /\ replies'[n].task \in Tasks \ {t} /\ tasks'[replies'[n].task] = tasks[replies'[n].task]
      /\ \A n \in DOMAIN replies :
            n \in Nat /\ (n = 1 \/ (n - 1 \in DOMAIN replies' /\ n = (n - 1) + 1))
      /\ 1 \in DOMAIN replies /\ replies[1].task = t
      /\ \A n \in DOMAIN replies' : \A f : On(n, f)' <=> On(n + 1, f)
      /\ \A s \in Tasks \ {t} : \A i : \A f : Kept(s, i, f)' <=> Kept(s, i, f)
  BY <1>2, HeardFacts
<1>4. tasks[t] \in Task /\ DOMAIN tasks[t].list = 1 .. Len(tasks[t].list) /\ Len(tasks[t].list) \in Nat
  <2>1. tasks[t] \in Task
    BY <1>2, HeardOne DEF Hears
  <2> QED  BY <2>1, TaskParts
<1>5. k \in DOMAIN tasks[t].list /\ IsBatch(tasks[t]) /\ k \in Nat
  BY <1>2, <1>4 DEF IsBatch
<1>6. \A i, f : Kept(t, i, f)' <=> Kept(t, i, f) \/ (i = k /\ Works(tasks[t]) /\ tasks[t].list[k].id = f)
  <2>1. \A i : i \in DOMAIN q.got <=> i \in DOMAIN tasks[t].got \/ i = k
    BY <1>2, <1>5
  <2> QED  BY <1>1, <2>1 DEF Kept, Works
<1> SUFFICES ASSUME NEW f \in Fields \ torn
             PROVE  LastDecides(f)' /\ AdditionsFit(f)' /\ Shared(f)'
  BY <1>2 DEF FieldsFit
<1>7. LastDecides(f) /\ AdditionsFit(f) /\ Shared(f)
  BY DEF FieldsFit
<1>8. Shared(f)'
  <2>1. \A s \in Tasks : Touches(tasks'[s]) = Touches(tasks[s]) /\ (IsBatch(tasks'[s]) <=> IsBatch(tasks[s]))
    BY <1>1 DEF Touches, IsBatch
  <2> QED  BY <1>7, <2>1 DEF Shared
<1>9. Adds(t)' <=> Adds(t)
  BY <1>1 DEF Adds
<1>10. On(1, f) <=> Works(tasks[t]) /\ tasks[t].list[k].id = f
  BY <1>2, <1>3 DEF On
<1>11. CASE ~ On(1, f)
  <2>1. \A i : Kept(t, i, f)' <=> Kept(t, i, f)
    BY <1>6, <1>10, <1>11
  <2>2. \A i : Kept(t, i, f) => tasks'[t].got[i] = tasks[t].got[i]
    BY <1>1, <1>2 DEF Kept
  <2>3. LastDecides(f)' /\ AdditionsFit(f)'
    BY <1>2, <1>7, <1>9, <1>11, <2>1, <2>2, ElsewhereFits
  <2> QED  BY <1>8, <2>3
<1>12. CASE On(1, f)
  <2>1. Works(tasks[t]) /\ tasks[t].list[k].id = f /\ f \in Touches(tasks[t])
    BY <1>5, <1>10, <1>12, TaskTouches
  <2>2. \A s \in Tasks \ {t} : f \notin Touches(tasks[s])
    BY <1>5, <1>7, <2>1 DEF Shared
  <2>3. \A n \in DOMAIN replies : On(n, f) => n = 1
    <3> SUFFICES ASSUME NEW n \in DOMAIN replies, On(n, f)  PROVE  n = 1
      OBVIOUS
    <3>1. replies[n].task \in Tasks
      BY RepliesFit
    <3> PICK s : s = replies[n].task
      OBVIOUS
    <3>2. s \in Tasks /\ Works(tasks[s]) /\ tasks[s].list[Len(tasks[s].got) + 1].id = f
      BY <3>1 DEF On, Asked
    <3>3. tasks[s] \in Task /\ TaskFits(tasks[s])
      BY <3>2, TaskTouches
    <3>4. Len(tasks[s].got) + 1 \in DOMAIN tasks[s].list
      BY <3>3, TaskParts DEF TaskFits
    <3>5. f \in Touches(tasks[s])
      BY <3>2, <3>4, TaskTouches
    <3>6. s = t
      BY <2>2, <3>2, <3>5
    <3> QED  BY <1>2, <3>6, HeardOne DEF Hears
  <2>4. \A s \in Tasks \ {t} : \A i : ~ Kept(s, i, f)
    <3> SUFFICES ASSUME NEW s \in Tasks \ {t}, NEW i, Kept(s, i, f)  PROVE FALSE
      OBVIOUS
    <3>1. Works(tasks[s]) /\ tasks[s].list[i].id = f /\ i \in DOMAIN tasks[s].got
      BY DEF Kept
    <3>2. tasks[s] \in Task /\ TaskFits(tasks[s])
      BY <3>1, TaskTouches
    <3>3. i \in DOMAIN tasks[s].list
      BY <3>1, <3>2, TaskParts DEF TaskFits
    <3> QED  BY <2>2, <3>1, <3>3, TaskTouches
  <2>5. record.fields[f] = replies[1].value
    <3>1. \A m \in DOMAIN replies : On(m, f) => m <= 1
      BY <2>3
    <3> QED  BY <1>3, <1>7, <1>12, <3>1 DEF LastDecides
  <2>6. \A n \in DOMAIN replies' : ~ On(n, f)'
    BY <1>3, <2>3
  <2>7. Kept(t, k, f)' /\ k \in DOMAIN tasks'[t].got /\ \A i \in DOMAIN tasks'[t].got : i <= k
    BY <1>1, <1>2, <1>5, <1>6, <2>1
  <2>8. \A s \in Tasks \ {t} : \A i : ~ Kept(s, i, f)'
    BY <1>3, <2>4
  <2>9. LastDecides(f)'
    <3>1. ASSUME NEW s \in Tasks, NEW i \in DOMAIN tasks'[s].got,
                 Kept(s, i, f)', \A j \in DOMAIN tasks'[s].got : Kept(s, j, f)' => j <= i
          PROVE  record'.fields[f] = tasks'[s].got[i]
      <4>1. s = t
        BY <2>8, <3>1
      <4>2. k <= i /\ i <= k
        BY <2>7, <3>1, <4>1
      <4>3. i \in Nat
        BY <1>1, <1>2, <3>1, <4>1
      <4>4. i = k
        BY <1>5, <4>2, <4>3
      <4> QED  BY <1>1, <1>2, <2>5, <4>1, <4>4
    <3> QED  BY <2>6, <2>7, <3>1 DEF LastDecides
  <2>10. IsPending(f)' <=> IsPending(f)
    <3>1. IsPending(f) <=> Adds(t)
      <4>1. Adds(t) => IsPending(f)
        BY <1>3, <1>12 DEF IsPending
      <4>2. IsPending(f) => Adds(t)
        BY <1>3, <2>3, <2>4 DEF IsPending
      <4> QED  BY <4>1, <4>2
    <3>2. IsPending(f)' <=> Adds(t)
      <4>1. Adds(t) => IsPending(f)'
        BY <1>9, <2>7 DEF IsPending
      <4>2. IsPending(f)' => Adds(t)
        BY <1>9, <2>6, <2>8 DEF IsPending
      <4> QED  BY <4>1, <4>2
    <3> QED  BY <3>1, <3>2
  <2>11. AdditionsFit(f)'
    BY <1>2, <1>7, <2>6, <2>10 DEF AdditionsFit
  <2> QED  BY <1>8, <2>9, <2>11
<1> QED  BY <1>11, <1>12

LEMMA GoesOnFits ==
  ASSUME PageRecordInv, NEW t \in Tasks, NEW q, GoesOn(t, q)
  PROVE  PageRecordInv'
<1>1. TypeOK /\ CallsFit /\ ObjectsFit /\ FieldsFit /\ RecordFits
  BY DEF PageRecordInv
<1> QED  BY <1>1, GoesOnTypeOK, GoesOnCallsFit, GoesOnObjectsFit, GoesOnFieldsFit,
             GoesOnRecordFits DEF PageRecordInv

-----------------------------------------------------------------------------
(***************************************************************************)
(* A call is settled                                                       *)
(***************************************************************************)
LEMMA SettlesHears ==
  ASSUME TypeOK, CallsFit, NEW t \in Tasks, Settles(t)
  PROVE  /\ Hears(t) /\ tasks'[t] = Idle /\ UNCHANGED <<call, known, record, account, late>>
         /\ (\A i : ~ Obtained(t, i)') /\ (\A i, f : ~ Kept(t, i, f)')
         /\ \A s \in Tasks : \A i : Obtained(s, i)' => s # t /\ Obtained(s, i)
         /\ Idle.kind = "none"
<1>1. /\ tasks'[t] = Idle /\ (\A s \in Tasks \ {t} : tasks'[s] = tasks[s])
      /\ Heard(t) /\ replies' = Tail(replies) /\ UNCHANGED <<call, known, record, account, late>>
  BY SettlesFacts DEF Settles, manager
<1>2. Hears(t)
  BY <1>1 DEF Hears
<1>3. DOMAIN Idle.got = {} /\ ~ Works(Idle) /\ Idle.kind = "none"
  BY IdleParts
<1>4. \A i : ~ Obtained(t, i)'
  <2>1. \A n \in DOMAIN replies' : ~ Answers(n, t)'
    BY <1>2, HeardFacts DEF Answers
  <2> QED  BY <1>1, <1>3, <2>1 DEF Obtained
<1>5. \A i, f : ~ Kept(t, i, f)'
  BY <1>1, <1>3 DEF Kept
<1>6. \A s \in Tasks : \A i : Obtained(s, i)' => s # t /\ Obtained(s, i)
  BY <1>2, <1>4, HeardFacts
<1> QED  BY <1>1, <1>2, <1>3, <1>4, <1>5, <1>6

LEMMA SettlesObjectsFit ==
  ASSUME TypeOK, CallsFit, ObjectsFit, NEW t \in Tasks, Settles(t), Untold'
  PROVE  ObjectsFit'
<1>1. /\ Hears(t) /\ tasks'[t] = Idle /\ UNCHANGED <<call, known, record>>
      /\ \A s \in Tasks : \A i : Obtained(s, i)' => s # t /\ Obtained(s, i)
      /\ Idle.kind = "none"
  BY SettlesHears
<1>2. /\ \A n \in DOMAIN replies' :
            /\ n + 1 \in DOMAIN replies /\ replies'[n] = replies[n + 1]
            /\ replies'[n].task \in Tasks \ {t}
      /\ \A s \in Tasks \ {t} : tasks'[s] = tasks[s]
  BY <1>1, HeardFacts DEF Hears
<1>3. \A s \in Tasks : (Works(tasks'[s]) => s # t /\ Works(tasks[s])) /\ (Adds(s)' => s # t /\ Adds(s))
  BY <1>1, <1>2 DEF Works, Adds
<1>4. ValuesFit'
  <2> SUFFICES ASSUME NEW s \in Tasks, Works(tasks'[s])
               PROVE  /\ \A i \in DOMAIN tasks'[s].got : ValueFits(tasks'[s], i, tasks'[s].got[i])
                      /\ \A n \in DOMAIN replies' : Answers(n, s)' /\ replies'[n].ok =>
                            ValueFits(tasks'[s], Len(tasks'[s].got) + 1, replies'[n].value)
    BY DEF ValuesFit, Works, ValueFits
  <2>1. s # t /\ tasks'[s] = tasks[s] /\ Works(tasks[s])
    BY <1>2, <1>3
  <2> QED  BY <1>2, <2>1 DEF ObjectsFit, ValuesFit, Answers
<1>5. KnownFits' /\ CallIsRight'
  BY <1>1 DEF ObjectsFit, KnownFits, CallIsRight
<1>6. OffersFit'
  BY <1>1, <1>2, <1>3 DEF ObjectsFit, OffersFit
<1>7. GrantedAreHeld'
  BY <1>1, <1>2, <1>3 DEF ObjectsFit, GrantedAreHeld
<1>8. AddedOnce'
  BY <1>1, <1>2, <1>3 DEF ObjectsFit, AddedOnce
<1> QED  BY <1>4, <1>5, <1>6, <1>7, <1>8 DEF ObjectsFit

LEMMA SettlesRecordFits ==
  ASSUME TypeOK, CallsFit, RecordFits, NEW t \in Tasks, Settles(t), AccountFits',
         UNCHANGED metadata \/ (tasks[t].kind = "setMetadata" /\ replies[1].ok /\ metadata' = tasks[t].metadata),
         tasks[t].kind = "setMetadata" /\ replies[1].ok => metadata' = tasks[t].metadata,
         phase' = "open" => \A a \in UserAttributes :
            attributes'[a] = (IF phase # "open" THEN record.attributes[a]
                              ELSE IF SetsAttribute(1, a) THEN tasks[t].list[1].value ELSE attributes[a])
  PROVE  RecordFits'
<1>1. /\ Hears(t) /\ tasks'[t] = Idle /\ UNCHANGED <<record, account, late>>
      /\ \A s \in Tasks : \A i : Obtained(s, i)' => s # t /\ Obtained(s, i)
      /\ Idle.kind = "none"
  BY SettlesHears
<1>2. /\ \A n \in DOMAIN replies' : /\ n + 1 \in DOMAIN replies /\ replies'[n] = replies[n + 1]
                                    /\ tasks'[replies'[n].task] = tasks[replies'[n].task]
      /\ 1 \in DOMAIN replies /\ replies[1].task = t
      /\ \A s \in Tasks \ {t} : tasks'[s] = tasks[s]
  BY <1>1, HeardFacts DEF Hears
<1>3. MetadataFits'
  <2>1. /\ (\A n \in DOMAIN replies' : ~ Sets(n)') => \A n \in DOMAIN replies : Sets(n) => n = 1
        /\ \A n \in DOMAIN replies' :
               Sets(n)' /\ (\A m \in DOMAIN replies' : Sets(m)' => m <= n)
                 => /\ n + 1 \in DOMAIN replies /\ Sets(n + 1)
                    /\ \A m \in DOMAIN replies : Sets(m) => m <= n + 1
    BY <1>1, LastLeft
  <2>2. Sets(1) <=> tasks[t].kind = "setMetadata" /\ replies[1].ok
    BY <1>2 DEF Sets
  <2>3. MetadataFits
    BY DEF RecordFits
  <2>4. ASSUME \A n \in DOMAIN replies' : ~ Sets(n)'
        PROVE  record.metadata = RecordDefault \/ metadata' = record.metadata
    <3>1. CASE Sets(1)
      <4>1. \A m \in DOMAIN replies : Sets(m) => m <= 1
        BY <2>1, <2>4
      <4>2. tasks[t].metadata = record.metadata
        BY <1>2, <2>3, <3>1, <4>1 DEF MetadataFits
      <4> QED  BY <2>2, <3>1, <4>2
    <3>2. CASE ~ Sets(1)
      <4>1. \A n \in DOMAIN replies : ~ Sets(n)
        BY <2>1, <2>4, <3>2
      <4> QED  BY <2>2, <2>3, <3>2, <4>1 DEF MetadataFits
    <3> QED  BY <3>1, <3>2
  <2> QED  BY <1>1, <1>2, <2>1, <2>3, <2>4 DEF MetadataFits
<1>4. AttributesFit'
  <2> SUFFICES ASSUME NEW a \in UserAttributes
               PROVE  /\ \A n \in DOMAIN replies' :
                            SetsAttribute(n, a)' /\ (\A m \in DOMAIN replies' : SetsAttribute(m, a)' => m <= n)
                              => tasks'[replies'[n].task].list[1].value = record'.attributes[a]
                      /\ (\A n \in DOMAIN replies' : ~ SetsAttribute(n, a)') /\ phase' = "open"
                              => attributes'[a] = record'.attributes[a]
    BY DEF AttributesFit
  <2>1. /\ (\A n \in DOMAIN replies' : ~ SetsAttribute(n, a)') => \A n \in DOMAIN replies : SetsAttribute(n, a) => n = 1
        /\ \A n \in DOMAIN replies' :
               SetsAttribute(n, a)' /\ (\A m \in DOMAIN replies' : SetsAttribute(m, a)' => m <= n)
                 => /\ n + 1 \in DOMAIN replies /\ SetsAttribute(n + 1, a)
                    /\ \A m \in DOMAIN replies : SetsAttribute(m, a) => m <= n + 1
    BY <1>1, LastLeft
  <2>2. AttributesFit
    BY DEF RecordFits
  <2>3. ASSUME \A n \in DOMAIN replies' : ~ SetsAttribute(n, a)', phase' = "open"
        PROVE  attributes'[a] = record.attributes[a]
    <3>1. CASE phase # "open"
      BY <2>3, <3>1
    <3>2. CASE phase = "open" /\ SetsAttribute(1, a)
      <4>1. \A m \in DOMAIN replies : SetsAttribute(m, a) => m <= 1
        BY <2>1, <2>3
      <4>2. tasks[t].list[1].value = record.attributes[a]
        BY <1>2, <2>2, <3>2, <4>1 DEF AttributesFit
      <4> QED  BY <2>3, <3>2, <4>2
    <3>3. CASE phase = "open" /\ ~ SetsAttribute(1, a)
      <4>1. \A n \in DOMAIN replies : ~ SetsAttribute(n, a)
        BY <2>1, <2>3, <3>3
      <4> QED  BY <2>2, <2>3, <3>3, <4>1 DEF AttributesFit
    <3> QED  BY <3>1, <3>2, <3>3
  <2> QED  BY <1>1, <1>2, <2>1, <2>2, <2>3 DEF AttributesFit
<1>5. SaveIsAlone'
  <2> SUFFICES ASSUME ~ late, NEW r \in Tasks, NEW s \in Tasks, tasks'[s].kind = "save", r # s
               PROVE  tasks'[r] = Idle
    BY <1>1 DEF SaveIsAlone
  <2>1. s # t
    BY <1>1
  <2>2. tasks[r] = Idle
    BY <1>2, <2>1 DEF RecordFits, SaveIsAlone
  <2> QED  BY <1>1, <1>2, <2>2
<1>6. TransitionFits'
  BY <1>1, <1>2 DEF RecordFits, TransitionFits
<1> QED  BY <1>3, <1>4, <1>5, <1>6 DEF RecordFits

\* Unless it is save that succeeds, the account's standing stays.
LEMMA SettlesAccountFits ==
  ASSUME TypeOK, CallsFit, RecordFits, NEW t \in Tasks, Settles(t),
         active' => active \/ tasks[t].kind = "login",
         tasks[t].kind = "save" /\ replies[1].ok => ~ active',
         phase' = phase \/ tasks[t].kind = "login"
  PROVE  AccountFits'
<1>1. /\ Hears(t) /\ tasks'[t] = Idle /\ UNCHANGED <<record, account, late>> /\ Idle.kind = "none"
  BY SettlesHears
<1>2. /\ \A n \in DOMAIN replies' : /\ n + 1 \in DOMAIN replies /\ replies'[n] = replies[n + 1]
                                    /\ tasks'[replies'[n].task] = tasks[replies'[n].task]
      /\ \A n \in DOMAIN replies : n = 1 \/ (n - 1 \in DOMAIN replies' /\ n = (n - 1) + 1)
      /\ 1 \in DOMAIN replies /\ replies[1].task = t
      /\ \A s \in Tasks \ {t} : tasks'[s] = tasks[s]
  BY <1>1, HeardFacts DEF Hears
<1> SUFFICES ASSUME account # NoAccount, ~ late
             PROVE  /\ account.fields = record.fields /\ phase' = "open"
                    /\ \/ \E n \in DOMAIN replies' : replies'[n].ok /\ tasks'[replies'[n].task].kind = "save"
                       \/ ~ active' /\ \A s \in Tasks : tasks'[s].kind \in Quiet
  BY <1>1 DEF AccountFits
<1>3. /\ account.fields = record.fields /\ phase = "open"
      /\ \/ \E n \in DOMAIN replies : replies[n].ok /\ tasks[replies[n].task].kind = "save"
         \/ ~ active /\ \A s \in Tasks : tasks[s].kind \in Quiet
  BY DEF RecordFits, AccountFits
<1>4. tasks[t].kind # "login" /\ phase' = "open"
  BY <1>3 DEF CallsFit, PhaseFits
<1>5. CASE tasks[t].kind = "save" /\ replies[1].ok
  <2>1. \A s \in Tasks \ {t} : tasks[s] = Idle
    BY <1>5 DEF RecordFits, SaveIsAlone
  <2>2. \A s \in Tasks : tasks'[s].kind \in Quiet
    BY <1>1, <1>2, <2>1 DEF Quiet
  <2> QED  BY <1>3, <1>4, <1>5, <2>2
<1>6. CASE ~ (tasks[t].kind = "save" /\ replies[1].ok) /\ \E n \in DOMAIN replies : replies[n].ok /\ tasks[replies[n].task].kind = "save"
  <2> PICK n \in DOMAIN replies : replies[n].ok /\ tasks[replies[n].task].kind = "save"
    BY <1>6
  <2>1. n # 1
    BY <1>2, <1>6
  <2> PICK m : m = n - 1
    OBVIOUS
  <2>2. m \in DOMAIN replies' /\ replies'[m] = replies[n]
    BY <1>2, <2>1
  <2> QED  BY <1>2, <1>3, <1>4, <2>2
<1>7. CASE ~ active /\ \A s \in Tasks : tasks[s].kind \in Quiet
  <2>1. \A s \in Tasks : tasks'[s].kind \in Quiet
    BY <1>1, <1>2, <1>7 DEF Quiet
  <2> QED  BY <1>3, <1>4, <1>7, <2>1
<1> QED  BY <1>3, <1>5, <1>6, <1>7

LEMMA FailsFits ==
  ASSUME PageRecordInv, NEW t \in Tasks, Failing(t)
  PROVE  PageRecordInv'
<1>1. TypeOK /\ CallsFit /\ ObjectsFit /\ FieldsFit /\ RecordFits
  BY DEF PageRecordInv
<1>2. /\ Settles(t) /\ UNCHANGED <<fields, values, metadata, attributes>>
      /\ phase' = IF tasks[t].kind = "login" THEN "failed" ELSE phase
      /\ active' => active \/ tasks[t].kind = "login"
      /\ tasks[t].kind \in {"save", "setMetadata", "setUserAttributes"} => ~ replies[1].ok
      /\ Works(tasks[t]) => \A i \in DOMAIN tasks[t].list : Obtained(t, i) => tasks[t].list[i].id \in torn'
  BY DEF Failing, objects
<1>3. /\ Hears(t) /\ tasks'[t] = Idle /\ UNCHANGED record /\ \A i, f : ~ Kept(t, i, f)'
  BY <1>1, <1>2, SettlesHears
<1>4. 1 \in DOMAIN replies /\ replies[1].task = t /\ tasks[t] \in Task /\ TaskFits(tasks[t])
  BY <1>1, <1>3, HeardOne DEF Hears
<1>5. ObjectsFit'
  <2>1. Untold'
    BY <1>1, <1>2, <1>3 DEF ObjectsFit, Untold
  <2> QED  BY <1>1, <1>2, <2>1, SettlesObjectsFit
<1>6. FieldsFit'
  <2> SUFFICES ASSUME NEW f \in Fields \ torn'
               PROVE  LastDecides(f)' /\ AdditionsFit(f)' /\ Shared(f)'
    BY DEF FieldsFit
  <2>1. LastDecides(f) /\ AdditionsFit(f) /\ Shared(f)
    BY <1>1, <1>2 DEF FieldsFit, Settles
  <2>2. ~ On(1, f)
    <3> SUFFICES ASSUME On(1, f)  PROVE FALSE
      OBVIOUS
    <3>1. Works(tasks[t]) /\ tasks[t].list[Len(tasks[t].got) + 1].id = f
      BY <1>4 DEF On, Asked
    <3>2. Obtained(t, Len(tasks[t].got) + 1)
      BY <1>4 DEF On, Obtained, Answers
    <3>3. Len(tasks[t].got) + 1 \in DOMAIN tasks[t].list
      BY <1>4, TaskParts DEF TaskFits
    <3> QED  BY <1>2, <3>1, <3>2, <3>3
  <2>3. \A i : ~ Kept(t, i, f)
    <3> SUFFICES ASSUME NEW i, Kept(t, i, f)  PROVE FALSE
      OBVIOUS
    <3>1. Works(tasks[t]) /\ tasks[t].list[i].id = f /\ i \in DOMAIN tasks[t].got
      BY DEF Kept
    <3>2. i \in DOMAIN tasks[t].list /\ Obtained(t, i)
      BY <1>4, <3>1, TaskParts DEF TaskFits, Obtained
    <3> QED  BY <1>2, <3>1, <3>2
  <2>4. LastDecides(f)' /\ AdditionsFit(f)'
    BY <1>1, <1>2, <1>3, <2>1, <2>2, <2>3, ElsewhereFits
  <2>5. Shared(f)'
    BY <1>3, <2>1, IdleParts DEF Shared, Hears
  <2> QED  BY <2>4, <2>5
<1>7. RecordFits'
  <2>1. AccountFits'
    BY <1>1, <1>2, SettlesAccountFits
  <2>2. phase' = "open" => phase = "open"
    BY <1>2
  <2>3. \A a : ~ SetsAttribute(1, a)
    BY <1>2, <1>4 DEF SetsAttribute
  <2>4. ~ (tasks[t].kind = "setMetadata" /\ replies[1].ok)
    BY <1>2
  <2>5. phase' = "open" => \A a \in UserAttributes :
            attributes'[a] = (IF phase # "open" THEN record.attributes[a]
                              ELSE IF SetsAttribute(1, a) THEN tasks[t].list[1].value ELSE attributes[a])
    BY <1>2, <2>2, <2>3
  <2> QED  BY <1>1, <1>2, <2>1, <2>4, <2>5, SettlesRecordFits
<1> QED  BY <1>1, <1>2, <1>5, <1>6, <1>7, FailsTypeOK, SettlesCallsFit DEF PageRecordInv

\* A call on fields, all of whose answers are there: what it leaves on the page
\* of each is the answer to its last step.
LEMMA CompletedAnswers ==
  ASSUME TypeOK, CallsFit, ObjectsFit, NEW t \in Tasks, Completed(t),
         NEW f \in Touches(tasks[t]), AdditionsFit(f)
  PROVE  \E i \in DOMAIN tasks[t].list :
            /\ tasks[t].list[i].id = f /\ values'[f] = Latest(t)[i] /\ i \in DOMAIN Latest(t)
            /\ \A j \in DOMAIN tasks[t].list : tasks[t].list[j].id = f => j <= i
<1>1. /\ fields' = (IF Adds(t) THEN fields \union Touches(tasks[t]) ELSE fields)
      /\ Adds(t) => \E i \in DOMAIN tasks[t].list :
                       tasks[t].list[i].id = f /\ values'[f] = IF values[f] = Null THEN Latest(t)[i] ELSE values[f]
      /\ ~ Adds(t) => \E i \in DOMAIN tasks[t].list :
                         /\ tasks[t].list[i].id = f /\ values'[f] = Latest(t)[i]
                         /\ \A j \in DOMAIN tasks[t].list : tasks[t].list[j].id = f => j <= i
      /\ DOMAIN Latest(t) = DOMAIN tasks[t].list
  BY CompletedFields
<1>2. /\ Settles(t) /\ Heard(t) /\ replies[1].ok /\ Len(tasks[t].list) = Len(tasks[t].got) + 1
  BY CompletedSettles
<1>3. Works(tasks[t])
  BY TaskTouches
<1>4. \A i \in DOMAIN tasks[t].list : Obtained(t, i) /\ ValueFits(tasks[t], i, Latest(t)[i])
  BY <1>1, <1>2, <1>3, LatestFits
<1>5. CASE ~ Adds(t)
  BY <1>1, <1>5
<1>6. CASE Adds(t)
  <2> PICK i \in DOMAIN tasks[t].list : tasks[t].list[i].id = f
                 /\ values'[f] = IF values[f] = Null THEN Latest(t)[i] ELSE values[f]
    BY <1>1, <1>6
  <2>1. \A j \in DOMAIN tasks[t].list : tasks[t].list[j].id = f => j = i
    BY <1>4, <1>6 DEF ObjectsFit, AddedOnce
  <2>2. /\ 1 \in DOMAIN replies /\ replies[1].task = t /\ tasks[t] \in Task
    BY <1>2, HeardOne
  <2>3. DOMAIN tasks[t].list = 1 .. Len(tasks[t].list) /\ Len(tasks[t].got) \in Nat
        /\ DOMAIN tasks[t].got = 1 .. Len(tasks[t].got)
    BY <2>2, TaskParts
  <2>4. IsPending(f)
    <3>1. CASE i = Len(tasks[t].got) + 1
      <4>1. On(1, f)
        BY <1>2, <1>3, <2>2, <3>1 DEF On, Asked
      <4> QED  BY <1>6, <2>2, <4>1 DEF IsPending
    <3>2. CASE i # Len(tasks[t].got) + 1
      <4>1. i \in DOMAIN tasks[t].got
        BY <1>2, <2>3, <3>2
      <4>2. Kept(t, i, f)
        BY <1>3, <4>1 DEF Kept
      <4> QED  BY <1>6, <4>1, <4>2 DEF IsPending
    <3> QED  BY <3>1, <3>2
  <2>5. values[f] = Desired[f]
    BY <2>4 DEF AdditionsFit
  <2>6. tasks[t].list[i].value = Desired[f]
    BY <1>4, <1>6 DEF ObjectsFit, OffersFit
  <2>7. Desired[f] # Null => Latest(t)[i] = Desired[f]
    BY <1>4, <2>6 DEF ValueFits
  <2>8. values'[f] = Latest(t)[i]
    BY <2>5, <2>7
  <2> QED  BY <1>1, <2>1, <2>3, <2>8
<1> QED  BY <1>5, <1>6

LEMMA CompletedFieldsFit ==
  ASSUME TypeOK, CallsFit, ObjectsFit, FieldsFit, NEW t \in Tasks, Completed(t)
  PROVE  FieldsFit'
<1> PICK k : k = Len(tasks[t].got) + 1
  OBVIOUS
<1>1. Settles(t) /\ Heard(t) /\ replies[1].ok /\ Len(tasks[t].list) = k /\ UNCHANGED torn
  BY CompletedSettles
<1>2. Hears(t) /\ tasks'[t] = Idle /\ UNCHANGED record /\ \A i, f : ~ Kept(t, i, f)'
  BY <1>1, SettlesHears
<1>3. /\ \A n \in DOMAIN replies' :
            /\ n \in Nat \ {0} /\ n + 1 \in DOMAIN replies /\ replies'[n] = replies[n + 1]
            /\ replies'[n].task \in Tasks \ {t} /\ tasks'[replies'[n].task] = tasks[replies'[n].task]
      /\ \A n \in DOMAIN replies : n \in Nat
      /\ 1 \in DOMAIN replies /\ replies[1].task = t
      /\ \A n \in DOMAIN replies' : \A f : On(n, f)' <=> On(n + 1, f)
      /\ \A s \in Tasks \ {t} : \A i : \A f : Kept(s, i, f)' <=> Kept(s, i, f)
      /\ \A s \in Tasks \ {t} : tasks'[s] = tasks[s]
  BY <1>2, HeardFacts DEF Hears
<1>4. /\ tasks[t] \in Task /\ Len(tasks[t].got) \in Nat /\ DOMAIN tasks[t].got = 1 .. Len(tasks[t].got)
      /\ DOMAIN tasks[t].list = 1 .. Len(tasks[t].list)
      /\ \A i \in 1 .. Len(tasks[t].got) : Latest(t)[i] = tasks[t].got[i]
      /\ Latest(t)[k] = replies[1].value
      /\ \A n \in DOMAIN replies : replies[n].task = t => n = 1
  <2>1. /\ tasks[t] \in Task
        /\ \A i \in 1 .. Len(tasks[t].got) : Latest(t)[i] = tasks[t].got[i]
        /\ Latest(t)[k] = replies[1].value
        /\ \A n \in DOMAIN replies : replies[n].task = t => n = 1
    BY <1>1, HeardOne
  <2> QED  BY <2>1, TaskParts
<1>6. \A f : On(1, f) <=> Works(tasks[t]) /\ tasks[t].list[k].id = f
  BY <1>1, <1>3 DEF On, Asked
<1> SUFFICES ASSUME NEW f \in Fields \ torn
             PROVE  LastDecides(f)' /\ AdditionsFit(f)' /\ Shared(f)'
  BY <1>1 DEF FieldsFit
<1>7. LastDecides(f) /\ AdditionsFit(f) /\ Shared(f)
  BY DEF FieldsFit
<1>8. Shared(f)'
  BY <1>2, <1>3, <1>7, IdleParts DEF Shared
<1>9. /\ fields' = (IF Adds(t) THEN fields \union Touches(tasks[t]) ELSE fields)
      /\ f \notin Touches(tasks[t]) => values'[f] = values[f]
  BY CompletedFields
<1>10. CASE f \notin Touches(tasks[t])
  <2>1. Works(tasks[t]) => \A i \in DOMAIN tasks[t].list : tasks[t].list[i].id # f
    BY <1>10, TaskTouches
  <2>2. k \in DOMAIN tasks[t].list /\ DOMAIN tasks[t].got \subseteq DOMAIN tasks[t].list
    BY <1>1, <1>4
  <2>3. ~ On(1, f)
    BY <1>6, <2>1, <2>2
  <2>4. \A i : ~ Kept(t, i, f)
    BY <2>1, <2>2 DEF Kept
  <2>5. f \in fields' <=> f \in fields
    BY <1>9, <1>10
  <2>6. LastDecides(f)' /\ AdditionsFit(f)'
    BY <1>2, <1>7, <1>9, <1>10, <2>3, <2>4, <2>5, ElsewhereFits
  <2> QED  BY <1>8, <2>6
<1>11. CASE f \in Touches(tasks[t])
  <2>1. PICK i \in DOMAIN tasks[t].list :
            /\ tasks[t].list[i].id = f /\ values'[f] = Latest(t)[i]
            /\ \A j \in DOMAIN tasks[t].list : tasks[t].list[j].id = f => j <= i
    BY <1>7, <1>11, CompletedAnswers
  <2>2. Works(tasks[t])
    BY <1>11, TaskTouches
  <2>3. \A s \in Tasks \ {t} : f \in Touches(tasks[s]) => ~ IsBatch(tasks[s]) /\ ~ IsBatch(tasks[t])
    BY <1>7, <1>11 DEF Shared
  \* A call that keeps answers is one of several steps.
  <2>4. \A s \in Tasks \ {t} : \A j : ~ Kept(s, j, f)
    <3> SUFFICES ASSUME NEW s \in Tasks \ {t}, NEW j, Kept(s, j, f)  PROVE FALSE
      OBVIOUS
    <3>1. Works(tasks[s]) /\ tasks[s].list[j].id = f /\ j \in DOMAIN tasks[s].got
      BY DEF Kept
    <3>2. tasks[s] \in Task /\ TaskFits(tasks[s])
      BY <3>1, TaskTouches
    <3>3. j \in DOMAIN tasks[s].list /\ Len(tasks[s].list) > 1
      BY <3>1, <3>2, TaskParts DEF TaskFits
    <3>4. f \in Touches(tasks[s])
      BY <3>1, <3>3, TaskTouches
    <3> QED  BY <2>3, <3>3, <3>4 DEF IsBatch
  \* No other addition of the field has been granted.
  <2>5. \A n \in DOMAIN replies : n # 1 /\ On(n, f) => ~ Adds(replies[n].task)
    <3> SUFFICES ASSUME NEW n \in DOMAIN replies, n # 1, On(n, f), Adds(replies[n].task)  PROVE FALSE
      OBVIOUS
    <3>1. replies[n].task \in Tasks \ {t}
      BY <1>4, RepliesFit
    <3> PICK s : s = replies[n].task
      OBVIOUS
    <3>2. s \in Tasks \ {t} /\ Works(tasks[s]) /\ tasks[s].list[Len(tasks[s].got) + 1].id = f
      BY <3>1 DEF On, Asked
    <3>3. tasks[s] \in Task /\ TaskFits(tasks[s])
      BY <3>2, TaskTouches
    <3>4. Len(tasks[s].got) + 1 \in DOMAIN tasks[s].list
      BY <3>3, TaskParts DEF TaskFits
    <3>5. f \in Touches(tasks[s])
      BY <3>2, <3>4, TaskTouches
    <3>6. Len(tasks[t].list) = 1 \/ Len(tasks[t].list) = 0
      BY <1>1, <1>4, <2>3, <3>2, <3>5 DEF IsBatch
    <3>7. i = k
      BY <1>1, <1>4, <3>6
    <3>8. On(1, f)
      BY <1>6, <2>1, <2>2, <3>7
    <3>9. n < 1
      BY <1>3, <1>7, <3>8 DEF AdditionsFit
    <3>10. n \in Nat /\ n # 0
      <4>1. replies \in Seq(Reply)
        BY DEF TypeOK
      <4> QED  BY <4>1, LenProperties
    <3> QED  BY <3>9, <3>10
  <2>6. LastDecides(f)'
    <3>1. /\ \A n \in DOMAIN replies' :
                 On(n, f)' /\ (\A m \in DOMAIN replies' : On(m, f)' => m <= n)
                   => /\ n + 1 \in DOMAIN replies /\ On(n + 1, f)
                      /\ \A m \in DOMAIN replies : On(m, f) => m <= n + 1
          /\ (\A n \in DOMAIN replies' : ~ On(n, f)') => \A n \in DOMAIN replies : On(n, f) => n = 1
      BY <1>2, LastLeft
    <3>2. ASSUME NEW n \in DOMAIN replies', On(n, f)', \A m \in DOMAIN replies' : On(m, f)' => m <= n
          PROVE  record'.fields[f] = replies'[n].value
      BY <1>2, <1>3, <1>7, <3>1, <3>2 DEF LastDecides
    <3>3. \A s \in Tasks : \A j : ~ Kept(s, j, f)'
      BY <1>2, <1>3, <2>4
    <3>4. ASSUME \A n \in DOMAIN replies' : ~ On(n, f)'
          PROVE  values'[f] = record'.fields[f]
      <4>1. \A n \in DOMAIN replies : On(n, f) => n <= 1
        BY <3>1, <3>4
      <4>2. CASE i = k
        <5>1. On(1, f)
          BY <1>6, <2>1, <2>2, <4>2
        <5>2. record.fields[f] = replies[1].value
          BY <1>3, <1>7, <4>1, <5>1 DEF LastDecides
        <5> QED  BY <1>2, <1>4, <2>1, <4>2, <5>2
      <4>3. CASE i # k
        <5>1. i \in DOMAIN tasks[t].got /\ ~ (k <= i) /\ k \in DOMAIN tasks[t].list
          BY <1>1, <1>4, <4>3
        <5>2. ~ On(1, f)
          BY <1>6, <2>1, <5>1
        <5>3. \A n \in DOMAIN replies : ~ On(n, f)
          BY <3>1, <3>4, <5>2
        <5>4. Kept(t, i, f)
          BY <2>1, <2>2, <5>1 DEF Kept
        <5>5. \A j \in DOMAIN tasks[t].got : Kept(t, j, f) => j <= i
          <6>1. \A j \in DOMAIN tasks[t].got : j \in DOMAIN tasks[t].list
            BY <1>1, <1>4
          <6> QED  BY <2>1, <6>1 DEF Kept
        <5>6. record.fields[f] = tasks[t].got[i]
          BY <1>7, <5>1, <5>3, <5>4, <5>5 DEF LastDecides
        <5> QED  BY <1>2, <1>4, <2>1, <5>1, <5>6
      <4> QED  BY <4>2, <4>3
    <3> QED  BY <3>2, <3>3, <3>4 DEF LastDecides
  <2>7. ~ IsPending(f)'
    <3>1. \A s \in Tasks : \A j : ~ Kept(s, j, f)'
      BY <1>2, <1>3, <2>4
    <3>2. ASSUME NEW n \in DOMAIN replies', On(n, f)', Adds(replies[n].task)'
          PROVE  FALSE
      <4>1. n + 1 \in DOMAIN replies /\ n + 1 # 1 /\ On(n + 1, f) /\ Adds(replies[n + 1].task)
        BY <1>3, <3>2 DEF Adds
      <4> QED  BY <2>5, <4>1
    <3> QED  BY <3>1, <3>2 DEF IsPending
  <2>8. record.fields[f] # Null => f \in fields'
    <3>1. CASE Adds(t)
      BY <1>9, <1>11, <3>1
    <3>2. CASE ~ Adds(t)
      <4>1. ~ IsPending(f)
        <5>1. \A n \in DOMAIN replies : On(n, f) => ~ Adds(replies[n].task)
          BY <1>3, <2>5, <3>2
        <5>2. \A s \in Tasks : Adds(s) => \A j : ~ Kept(s, j, f)
          BY <2>4, <3>2
        <5> QED  BY <5>1, <5>2 DEF IsPending
      <4> QED  BY <1>7, <1>9, <3>2, <4>1 DEF AdditionsFit
    <3> QED  BY <3>1, <3>2
  <2>9. \A m, n \in DOMAIN replies' : On(m, f)' /\ On(n, f)' /\ Adds(replies[n].task)' /\ m # n => n < m
    BY <2>7 DEF IsPending
  <2>10. AdditionsFit(f)'
    BY <1>2, <2>7, <2>8, <2>9 DEF AdditionsFit
  <2> QED  BY <1>8, <2>6, <2>10
<1> QED  BY <1>10, <1>11

LEMMA CompletedFits ==
  ASSUME PageRecordInv, NEW t \in Tasks, Completed(t)
  PROVE  PageRecordInv'
<1>1. TypeOK /\ CallsFit /\ ObjectsFit /\ FieldsFit /\ RecordFits
  BY DEF PageRecordInv
<1>2. /\ Settles(t) /\ Heard(t) /\ replies[1].ok /\ Len(tasks[t].list) = Len(tasks[t].got) + 1
      /\ phase' = IF tasks[t].kind = "login" THEN "open" ELSE phase
  BY <1>1, CompletedSettles
<1>3. UNCHANGED record /\ 1 \in DOMAIN replies /\ replies[1].task = t /\ tasks[t] \in Task /\ TaskFits(tasks[t])
  BY <1>1, <1>2, SettlesHears, HeardOne
<1>4. TypeOK'
  BY <1>1, CompletedTypeOK DEF RecordFits
<1>5. ObjectsFit'
  <2>1. Untold'
    <3> SUFFICES ASSUME NEW f \in Fields, record.fields[f] = Null
                 PROVE  f \notin fields' /\ values'[f] = Desired[f]
      BY <1>3 DEF Untold
    <3>1. f \notin fields /\ values[f] = Desired[f]
      BY <1>1 DEF ObjectsFit, Untold
    <3>2. f \notin Touches(tasks[t])
      <4> SUFFICES ASSUME f \in Touches(tasks[t])  PROVE FALSE
        OBVIOUS
      <4>1. Works(tasks[t])
        BY <1>1, TaskTouches
      <4>2. PICK i \in DOMAIN tasks[t].list : tasks[t].list[i].id = f
        BY <1>1, <4>1, TaskTouches
      <4>3. DOMAIN Latest(t) = DOMAIN tasks[t].list
        BY <1>1, CompletedFields
      <4>4. Obtained(t, i)
        BY <1>1, <1>2, <4>1, <4>3, LatestFits
      <4> QED  BY <1>1, <4>1, <4>2, <4>4 DEF ObjectsFit, GrantedAreHeld
    <3>3. /\ fields' = (IF Adds(t) THEN fields \union Touches(tasks[t]) ELSE fields)
          /\ values'[f] = values[f]
      BY <1>1, <3>2, CompletedFields
    <3> QED  BY <3>1, <3>2, <3>3
  <2> QED  BY <1>1, <1>2, <2>1, SettlesObjectsFit
<1>6. RecordFits'
  <2>1. /\ active' = (active /\ tasks[t].kind # "save")
        /\ IF tasks[t].kind = "setMetadata" THEN metadata' = tasks[t].metadata ELSE UNCHANGED metadata
        /\ IF tasks[t].kind = "login" THEN attributes' = record.attributes
           ELSE IF tasks[t].kind = "setUserAttributes"
           THEN attributes' = [attributes EXCEPT ![tasks[t].list[1].id] = tasks[t].list[1].value]
           ELSE UNCHANGED attributes
    BY DEF Completed, EndsTheOperation, Updated, PopulatedAttributes
  <2>2. AccountFits'
    BY <1>1, <1>2, <2>1, SettlesAccountFits
  <2>3. tasks[t].kind = "login" => phase = "creating"
    BY <1>1 DEF CallsFit, PhaseFits
  <2>4. \A a : SetsAttribute(1, a) <=> tasks[t].kind = "setUserAttributes" /\ tasks[t].list[1].id = a
    BY <1>2, <1>3 DEF SetsAttribute
  <2>5. attributes \in [UserAttributes -> Values \union {Null}]
    BY <1>1 DEF TypeOK
  <2>6. ASSUME phase' = "open", NEW a \in UserAttributes
        PROVE  attributes'[a] = (IF phase # "open" THEN record.attributes[a]
                                 ELSE IF SetsAttribute(1, a) THEN tasks[t].list[1].value ELSE attributes[a])
    <3>1. CASE phase # "open"
      BY <1>2, <2>1, <2>6, <3>1
    <3>2. CASE phase = "open" /\ tasks[t].kind = "setUserAttributes"
      <4>1. attributes' = [attributes EXCEPT ![tasks[t].list[1].id] = tasks[t].list[1].value]
        BY <2>1, <3>2
      <4> QED  BY <2>4, <2>5, <3>2, <4>1
    <3>3. CASE phase = "open" /\ tasks[t].kind # "setUserAttributes"
      <4>1. attributes' = attributes
        BY <2>1, <2>3, <3>3
      <4> QED  BY <2>4, <3>3, <4>1
    <3> QED  BY <3>1, <3>2, <3>3
  <2>7. UNCHANGED metadata \/ (tasks[t].kind = "setMetadata" /\ replies[1].ok /\ metadata' = tasks[t].metadata)
    BY <1>2, <2>1
  <2>8. tasks[t].kind = "setMetadata" /\ replies[1].ok => metadata' = tasks[t].metadata
    BY <2>1
  <2> QED  BY <1>1, <1>2, <2>2, <2>6, <2>7, <2>8, SettlesRecordFits
<1> QED  BY <1>1, <1>2, <1>4, <1>5, <1>6, SettlesCallsFit, CompletedFieldsFit DEF PageRecordInv

-----------------------------------------------------------------------------
(***************************************************************************)
(* The invariant, and what it says                                         *)
(***************************************************************************)
LEMMA InitFits ==
  ASSUME Init
  PROVE  PageRecordInv
<1>1. /\ tasks = [t \in Tasks |-> Idle] /\ replies = <<>> /\ call = NoCall
      /\ fields = {} /\ values = Desired /\ known = {} /\ account = NoAccount /\ phase = "none"
      /\ record.fields = [f \in Fields |-> Null] /\ record.metadata = RecordDefault
  BY DEF Init
<1>2. /\ \A t \in Tasks : tasks[t] = Idle /\ ~ Works(tasks[t]) /\ ~ Adds(t) /\ Touches(tasks[t]) = {}
      /\ \A t \in Tasks : DOMAIN tasks[t].got = {} /\ tasks[t].kind = "none"
      /\ DOMAIN replies = {} /\ Idle \in Task
      /\ \A f \in Fields : record.fields[f] = Null
  BY <1>1, IdleParts DEF Adds, Works
<1>3. TypeOK
  <2>1. PageDefault \in Metadata /\ RecordDefault \in Metadata
    BY DEF PageDefault, RecordDefault, Metadata
  <2>2. record \in Record
    BY <2>1, RegistrationAssumption DEF Init, Record
  <2>3. /\ phase \in {"none", "creating", "open", "failed"} /\ channel \in BOOLEAN /\ active \in BOOLEAN
        /\ granted \in BOOLEAN /\ late \in BOOLEAN /\ torn \subseteq Fields /\ known \subseteq Fields
        /\ authMetadata \in AuthMetadata \union {Null} /\ account \in Record \union {NoAccount}
        /\ call \in Request \union {NoCall}
    BY DEF Init
  <2>4. values \in [Fields -> Values \union {Null}] /\ fields \subseteq Fields /\ \A f \in fields : values[f] # Null
    BY <1>1, RegistrationAssumption
  <2>5. metadata \in Metadata /\ attributes \in [UserAttributes -> Values \union {Null}] /\ tasks \in [Tasks -> Task]
    BY <1>1, <1>2, <2>1 DEF Init
  <2>6. replies \in Seq(Reply) /\ calls \in 0 .. MaxCalls
    BY <1>1, RegistrationAssumption DEF Init
  <2> QED  BY <2>2, <2>3, <2>4, <2>5, <2>6 DEF TypeOK
<1>4. CallsFit
  <2>1. \A t \in Tasks : ~ IsTask(t) /\ ~ InService(t)
    BY <1>1, <1>2 DEF IsTask, InService
  <2>2. OneEach
    BY <1>2, <2>1 DEF OneEach
  <2>3. TasksFit /\ CallFits
    BY <2>1 DEF TasksFit, CallFits
  <2>4. PhaseFits
    BY <1>2 DEF PhaseFits
  <2> QED  BY <2>2, <2>3, <2>4 DEF CallsFit
<1>5. ObjectsFit
  <2>1. ValuesFit /\ GrantedAreHeld
    BY <1>2 DEF ValuesFit, GrantedAreHeld
  <2>2. OffersFit /\ AddedOnce
    BY <1>2 DEF OffersFit, AddedOnce
  <2>3. KnownFits /\ CallIsRight /\ Untold
    BY <1>1, <1>2 DEF KnownFits, CallIsRight, Untold
  <2> QED  BY <2>1, <2>2, <2>3 DEF ObjectsFit
<1>6. FieldsFit
  <2> SUFFICES ASSUME NEW f \in Fields \ torn
               PROVE  LastDecides(f) /\ AdditionsFit(f) /\ Shared(f)
    BY DEF FieldsFit
  <2>1. (\A n : ~ On(n, f)) /\ \A t \in Tasks : \A i : ~ Kept(t, i, f)
    BY <1>2 DEF On, Kept
  <2>2. LastDecides(f) /\ ~ IsPending(f)
    BY <1>1, <1>2, <2>1 DEF LastDecides, IsPending
  <2>3. AdditionsFit(f)
    BY <1>2, <2>1, <2>2 DEF AdditionsFit
  <2>4. Shared(f)
    BY <1>2 DEF Shared
  <2> QED  BY <2>2, <2>3, <2>4
<1>7. RecordFits
  <2>1. MetadataFits
    BY <1>1, <1>2 DEF MetadataFits
  <2>2. AttributesFit
    BY <1>1, <1>2 DEF AttributesFit
  <2>3. SaveIsAlone /\ AccountFits
    BY <1>1, <1>2 DEF SaveIsAlone, AccountFits
  <2>4. TransitionFits
    BY <1>2 DEF TransitionFits
  <2> QED  BY <2>1, <2>2, <2>3, <2>4 DEF RecordFits
<1> QED  BY <1>3, <1>4, <1>5, <1>6, <1>7 DEF PageRecordInv

LEMMA StepFits ==
  ASSUME PageRecordInv, [Next]_vars
  PROVE  PageRecordInv'
<1>1. TypeOK /\ CallsFit /\ ObjectsFit /\ FieldsFit /\ RecordFits
  BY DEF PageRecordInv
<1>2. CASE Grant \/ Reject \/ ServeAnother
  BY <1>2, GrantFits, RejectFits, ServeAnotherFits
<1>3. ASSUME NEW t \in Tasks,
             \/ Login(t) \/ Save(t) \/ TransitionToAuthOperation(t) \/ CloseChannel(t)
             \/ \E ids \in Additions : AddFields(t, ids)
             \/ \E list \in Revisions, asObjects \in BOOLEAN :
                   RejectAndReviseFields(t, list, asObjects)
             \/ \E v \in Versions : SetVersion(t, v)
             \/ \E s \in Statuses : SetStatus(t, s)
             \/ \E a \in UserAttributes, v \in Values : SetUserAttributes(t, a, v)
      PROVE  PageRecordInv'
  <2>1. \E q \in Task : Starts(t, q)
    BY <1>1, <1>3, LoginStarts, PlainCallStarts, SettersStart, AttributeStarts,
        AddFieldsStarts, RevisionStarts
  <2> QED  BY <2>1, StartsFits
<1>4. ASSUME NEW t \in Tasks, Hear(t)  PROVE PageRecordInv'
  <2>1. CASE Rejected(t)
    BY <1>1, <2>1, RejectedFails, FailsFits
  <2>2. CASE Continued(t)
    BY <1>1, <2>2, ContinuedFits, FailsFits, GoesOnFits
  <2>3. CASE Completed(t)
    BY <2>3, CompletedFits
  <2> QED  BY <1>4, <2>1, <2>2, <2>3 DEF Hear
<1>5. CASE UNCHANGED vars
  <2>1. UNCHANGED <<page, tasks, call, replies, known, record, account, granted, torn, late, calls>>
    BY <1>5 DEF vars, wire, manager
  <2>2. UNCHANGED <<phase, channel, active, fields, values, metadata, attributes, authMetadata>>
    BY <2>1 DEF page
  <2>3. Silent
    BY <2>1 DEF Silent
  <2>4. TypeOK'
    BY <1>1, <2>1, <2>2 DEF TypeOK
  <2>5. CallsFit'
    BY <1>1, <2>1, <2>2 DEF CallsFit, OneEach, TasksFit, CallFits, PhaseFits, IsTask,
        InService, Answers
  <2>6. KnownFits' /\ CallIsRight'
    BY <1>1, <2>1 DEF ObjectsFit, KnownFits, CallIsRight
  <2> QED  BY <1>1, <2>3, <2>4, <2>5, <2>6, SilentFits DEF PageRecordInv, ObjectsFit
<1> QED  BY <1>2, <1>3, <1>4, <1>5 DEF Next

LEMMA NoneWorks ==
  ASSUME PageRecordInv, NEW f, \A t \in Tasks : f \notin Touches(tasks[t])
  PROVE  (\A n : ~ On(n, f)) /\ (\A t \in Tasks : \A i : ~ Kept(t, i, f)) /\ ~ IsPending(f)
<1>1. TypeOK /\ CallsFit
  BY DEF PageRecordInv
<1>2. ASSUME NEW n, On(n, f)  PROVE FALSE
  <2>1. replies[n].task \in Tasks
    BY <1>1, <1>2, RepliesFit DEF On
  <2> PICK s : s = replies[n].task
    OBVIOUS
  <2>2. s \in Tasks /\ Works(tasks[s]) /\ tasks[s].list[Len(tasks[s].got) + 1].id = f
    BY <1>2, <2>1 DEF On, Asked
  <2>3. tasks[s] \in Task /\ TaskFits(tasks[s])
    BY <1>1, <2>2, TaskTouches
  <2>4. Len(tasks[s].got) + 1 \in DOMAIN tasks[s].list
    BY <2>3, TaskParts DEF TaskFits
  <2> QED  BY <1>1, <2>2, <2>4, TaskTouches
<1>3. ASSUME NEW s \in Tasks, NEW i, Kept(s, i, f)  PROVE FALSE
  <2>1. Works(tasks[s]) /\ tasks[s].list[i].id = f /\ i \in DOMAIN tasks[s].got
    BY <1>3 DEF Kept
  <2>2. tasks[s] \in Task /\ TaskFits(tasks[s])
    BY <1>1, <2>1, TaskTouches
  <2>3. i \in DOMAIN tasks[s].list
    BY <2>1, <2>2, TaskParts DEF TaskFits
  <2> QED  BY <1>1, <2>1, <2>3, TaskTouches
<1> QED  BY <1>2, <1>3 DEF IsPending

\* With nothing under way, the last step decides on nothing, and the page agrees.
LEMMA PageFits ==
  ASSUME PageRecordInv
  PROVE  PageInv
<1>1. TypeOK /\ ObjectsFit /\ FieldsFit /\ RecordFits
  BY DEF PageRecordInv
<1>2. FieldsAgree
  <2> SUFFICES ASSUME NEW f \in Fields \ torn, \A t \in Tasks : f \notin Touches(tasks[t])
               PROVE  /\ f \in fields <=> record.fields[f] # Null
                      /\ f \in fields => values[f] = record.fields[f]
    BY DEF FieldsAgree
  <2>1. LastDecides(f) /\ AdditionsFit(f)
    BY <1>1 DEF FieldsFit
  <2>2. (\A n : ~ On(n, f)) /\ (\A t \in Tasks : \A i : ~ Kept(t, i, f)) /\ ~ IsPending(f)
    BY NoneWorks
  <2>3. f \in fields => record.fields[f] # Null
    BY <1>1 DEF ObjectsFit, Untold
  <2>4. record.fields[f] # Null => f \in fields
    BY <2>1, <2>2 DEF AdditionsFit
  <2>5. f \in fields => values[f] = record.fields[f]
    BY <2>1, <2>2 DEF LastDecides
  <2> QED  BY <2>3, <2>4, <2>5
<1>3. AttributesAgree
  <2> SUFFICES ASSUME phase = "open", \A t \in Tasks : tasks[t].kind # "setUserAttributes"
               PROVE  attributes = record.attributes
    BY DEF AttributesAgree
  <2>1. \A n, a : ~ SetsAttribute(n, a)
    BY <1>1, RepliesFit DEF SetsAttribute
  <2>2. \A a \in UserAttributes : attributes[a] = record.attributes[a]
    BY <1>1, <2>1 DEF RecordFits, AttributesFit
  <2>3. attributes \in [UserAttributes -> Values \union {Null}] /\ record.attributes \in [UserAttributes -> Values \union {Null}]
    BY <1>1, RecordParts DEF TypeOK
  <2> QED  BY <2>2, <2>3
<1> QED  BY <1>1, <1>2, <1>3 DEF PageInv

\* A saved account has all the fields of the record, and the page has no call
\* under way that would change one.
LEMMA BuiltFits ==
  ASSUME PageRecordInv
  PROVE  RecordIsAsBuilt
<1>1. TypeOK /\ CallsFit /\ RecordFits
  BY DEF PageRecordInv
<1>2. MetadataAgrees
  <2> SUFFICES ASSUME record.metadata # RecordDefault, \A t \in Tasks : tasks[t].kind # "setMetadata"
               PROVE  metadata = record.metadata
    BY DEF MetadataAgrees
  <2>1. \A n : ~ Sets(n)
    BY <1>1, RepliesFit DEF Sets
  <2> QED  BY <1>1, <2>1 DEF RecordFits, MetadataFits
<1>3. AccountIsTheRecord
  <2> SUFFICES ASSUME account # NoAccount, ~ late, \A t \in Tasks : tasks[t].kind # "save", NEW f \in Fields \ torn
               PROVE  account.fields[f] = IF f \in fields THEN values[f] ELSE Null
    BY DEF AccountIsTheRecord
  <2>1. account.fields = record.fields /\ \A t \in Tasks : tasks[t].kind \in Quiet
    BY <1>1, RepliesFit DEF RecordFits, AccountFits
  <2>2. \A t \in Tasks : Touches(tasks[t]) = {}
    BY <1>1, <2>1, TaskTouches DEF Quiet, Works
  <2>3. /\ f \in fields <=> record.fields[f] # Null
        /\ f \in fields => values[f] = record.fields[f]
    BY <2>2, PageFits DEF PageInv, FieldsAgree
  <2> QED  BY <2>1, <2>3
<1> QED  BY <1>2, <1>3 DEF RecordIsAsBuilt

\* For any fields, lists and number of calls, each call of a page waits for one
\* thing, and the last step the manager granted of a field, of the metadata or of
\* an attribute is the one the record has, until the page takes it over
\* (BerytusAccountCreationOperation.cpp, BerytusFieldMap.cpp).
THEOREM PageRecordInvariant ==
  Spec => []PageRecordInv
<1>1. Init => PageRecordInv
  BY InitFits
<1>2. PageRecordInv /\ [Next]_vars => PageRecordInv'
  BY StepFits
<1> QED  BY <1>1, <1>2, PTL DEF Spec

\* When no call is under way, the page's field map, the values of its field
\* objects, its metadata and its user attributes are those of the record the
\* manager keeps, save for fields whose call failed half way
\* (BerytusAccountCreationOperation.cpp, AddFields, RejectAndReviseFields).
THEOREM PagesAreTheRecord ==
  Spec => []PageInv
<1>1. PageRecordInv => PageInv
  BY PageFits
<1> QED  BY <1>1, PageRecordInvariant, PTL

\* Unless a page calls save beside other calls, or other calls beside save, the
\* account that is saved has the fields the page's objects have, and nothing
\* changes it (BerytusAccountCreationOperation.cpp, Save).
THEOREM RecordsAreAsBuilt ==
  Spec => []RecordIsAsBuilt
<1>1. PageRecordInv => RecordIsAsBuilt
  BY BuiltFits
<1> QED  BY <1>1, PageRecordInvariant, PTL

-----------------------------------------------------------------------------
(***************************************************************************)
(* The authentication operation, for any objects, ids and types of         *)
(* challenges, and for any number of calls and of answers on their way.    *)
(***************************************************************************)
\* What the proofs need of the lists of message names.
LEMMA NamesOf ==
  ASSUME NEW o \in Objects
  PROVE  /\ Len(Names[TypeOf[o]]) \in Nat
         /\ DOMAIN Names[TypeOf[o]] = 1 .. Len(Names[TypeOf[o]])
         /\ \A k \in DOMAIN Names[TypeOf[o]] : Names[TypeOf[o]][k] \in MessageNames
<1>1. TypeOf[o] \in DOMAIN Names
  BY AuthenticationAssumption
<1>2. ASSUME NEW t \in DOMAIN Names  PROVE  Len(Names[t]) \in Nat /\ DOMAIN Names[t] = 1 .. Len(Names[t])
  BY <1>2 DEF Names, Identification, Password, OffChannelOtp, DigitalSignature, SecureRemotePassword
<1>3. \A k \in DOMAIN Names[TypeOf[o]] : Names[TypeOf[o]][k] \in MessageNames
  BY DEF MessageNames, ToSet
<1> QED  BY <1>1, <1>2, <1>3

-----------------------------------------------------------------------------
(***************************************************************************)
(* The validator's counters                                                *)
(***************************************************************************)
OfObject == {"approveChallengeRequest", "respondToChallengeMessage",
             "closeChallenge", "abortChallenge"}

\* A request about a challenge has its object, and the others have none.
WellFormed(r) == IF r.method \in OfObject THEN r.object \in Objects ELSE r.object = NoObject

UnderWay(i) == call # NoCall /\ IsMessage(call) /\ IdOf[call.object] = i

\* The counter of an id counts the messages that were responded to, and the one
\* the manager is at.
Counted ==
  \A i \in Ids : counter[i] = IF UnderWay(i) THEN Len(said[i]) + 1 ELSE Len(said[i])

\* The manager is at the message the counter has come to.
AtCounter ==
  call # NoCall /\ IsMessage(call) =>
      LET names == Names[TypeOf[call.object]]
          n == counter[IdOf[call.object]]
      IN  n \in DOMAIN names /\ names[n] = call.name

TypeInv ==
  /\ AuthTypeOK
  /\ call # NoCall => WellFormed(call)
  /\ \A k \in DOMAIN replies : WellFormed(replies[k].to)
  /\ Counted
  /\ AtCounter

LEMMA InitTypeInv == AuthInit => TypeInv
<1> SUFFICES ASSUME AuthInit  PROVE  TypeInv
  OBVIOUS
<1>1. AuthTypeOK
  BY AuthenticationAssumption DEF AuthInit, AuthTypeOK
<1>2. DOMAIN replies = {} /\ \A i \in Ids : Len(said[i]) = 0
  BY DEF AuthInit
<1> QED  BY <1>1, <1>2 DEF AuthInit, TypeInv, Counted, UnderWay, AtCounter

\* A request that is accepted.
LEMMA AskTypeInv ==
  ASSUME TypeInv, NEW r \in AuthRequest, WellFormed(r), Ask(r)
  PROVE  TypeInv'
<1>1. UNCHANGED <<channel, active, challenges, connected, live, replies, open, said>>
  BY DEF Ask, authPage
<1>2. call = NoCall /\ call' = r /\ r # NoCall /\ calls' \in 0 .. MaxCalls
  BY AuthNoCallAssumption, AuthenticationAssumption DEF Ask, TypeInv, AuthTypeOK
<1>3. \A i \in Ids : counter[i] = Len(said[i]) /\ Len(said[i]) \in Nat
  BY <1>2 DEF TypeInv, AuthTypeOK, Counted, UnderWay
<1>4. CASE IsMessage(r)
  <2> PICK j \in Ids : j = IdOf[r.object]
    BY <1>4, AuthenticationAssumption DEF IsMessage, WellFormed, OfObject
  <2>1. counter' = [counter EXCEPT ![j] = @ + 1]
    BY <1>4 DEF Ask
  <2>2. counter' \in [Ids -> Nat] /\ \A i \in Ids : counter'[i] = IF i = j THEN Len(said[i]) + 1 ELSE Len(said[i])
    <3>1. counter \in [Ids -> Nat]
      BY DEF TypeInv, AuthTypeOK
    <3>2. \A i \in Ids : counter'[i] = IF i = j THEN counter[i] + 1 ELSE counter[i]
      BY <2>1, <3>1
    <3>3. \A i \in Ids : counter'[i] = IF i = j THEN Len(said[i]) + 1 ELSE Len(said[i])
      BY <1>3, <3>2
    <3> QED  BY <2>1, <3>1, <3>3
  <2>3. Counted'
    BY <1>1, <1>2, <1>4, <2>2 DEF Counted, UnderWay
  <2>4. AtCounter'
    BY <1>2, <1>4, <1>3, <2>2 DEF AtCounter, Ask, IsExpected
  <2> QED  BY <1>1, <1>2, <2>2, <2>3, <2>4 DEF TypeInv, AuthTypeOK
<1>5. CASE ~ IsMessage(r)
  <2>1. UNCHANGED counter
    BY <1>5 DEF Ask
  <2>2. Counted' /\ AtCounter'
    BY <1>1, <1>2, <1>3, <1>5, <2>1 DEF Counted, UnderWay, AtCounter
  <2> QED  BY <1>1, <1>2, <2>1, <2>2 DEF TypeInv, AuthTypeOK
<1> QED  BY <1>4, <1>5

\* The page's calls are well-formed requests.
LEMMA CallsAsk ==
  ASSUME TypeInv,
         \/ \E o \in Objects : Challenge(o) \/ Seal(o) \/ Abort(o)
         \/ \E o \in Objects, name \in MessageNames : SendMessage(o, name)
         \/ Finish \/ AuthCloseChannel
  PROVE  \E r \in AuthRequest : WellFormed(r) /\ Ask(r)
<1>1. \A o \in Objects : \A m \in OfObject : Plain(m, o) \in AuthRequest /\ WellFormed(Plain(m, o))
  BY DEF Plain, AuthRequest, AuthMethods, OfObject, WellFormed
<1>2. \A o \in Objects : \A name \in MessageNames : Message(o, name) \in AuthRequest /\ WellFormed(Message(o, name))
  BY DEF Message, AuthRequest, AuthMethods, OfObject, WellFormed
<1>3. \A m \in AuthMethods \ OfObject : Plain(m, NoObject) \in AuthRequest /\ WellFormed(Plain(m, NoObject))
  BY DEF Plain, AuthRequest, AuthMethods, OfObject, WellFormed
<1>4. ASSUME NEW o \in Objects, Challenge(o) \/ Seal(o) \/ Abort(o)
      PROVE  \E r \in AuthRequest : WellFormed(r) /\ Ask(r)
  <2>1. \E m \in OfObject : Ask(Plain(m, o))
    BY <1>4 DEF Challenge, Seal, Abort, OfObject
  <2> QED  BY <1>1, <2>1
<1>5. ASSUME NEW o \in Objects, NEW name \in MessageNames, SendMessage(o, name)
      PROVE  \E r \in AuthRequest : WellFormed(r) /\ Ask(r)
  BY <1>2, <1>5 DEF SendMessage
<1>6. CASE Finish \/ AuthCloseChannel
  <2>1. \E m \in AuthMethods \ OfObject : Ask(Plain(m, NoObject))
    BY <1>6 DEF Finish, AuthCloseChannel, AuthMethods, OfObject
  <2> QED  BY <1>3, <2>1
<1> QED  BY <1>4, <1>5, <1>6

\* The answer to the page, if it was the page's request.
LEMMA AnswerReplies ==
  ASSUME TypeInv, NEW ok \in BOOLEAN, Answer(ok)
  PROVE  /\ call \in AuthRequest /\ WellFormed(call) /\ call' = NoCall /\ UNCHANGED <<authPage, calls>>
         /\ replies' \in Seq(AuthReply) /\ \A k \in DOMAIN replies' : WellFormed(replies'[k].to)
<1>1. call \in AuthRequest /\ WellFormed(call) /\ call' = NoCall /\ UNCHANGED <<authPage, calls>>
  BY DEF Answer, TypeInv, AuthTypeOK
<1> DEFINE x == [to |-> call, ok |-> ok]
<1>2. x \in AuthReply /\ WellFormed(x.to) /\ replies \in Seq(AuthReply)
  BY <1>1 DEF AuthReply, TypeInv, AuthTypeOK
<1>3. replies' \in {replies, Append(replies, x)}
  BY DEF Answer
<1>4. replies' \in Seq(AuthReply)
  BY <1>2, <1>3, AppendProperties
<1>5. CASE replies' = Append(replies, x)
  <2> HIDE DEF x
  <2>1. DOMAIN replies' = 1 .. Len(replies) + 1 /\ DOMAIN replies = 1 .. Len(replies) /\ Len(replies) \in Nat
    BY <1>2, <1>4, <1>5, AppendProperties
  <2>2. \A k \in DOMAIN replies' : replies'[k] = x \/ (k \in DOMAIN replies /\ replies'[k] = replies[k])
    BY <1>2, <1>5, <2>1, AppendProperties
  <2> QED  BY <1>1, <1>2, <1>4, <2>2 DEF TypeInv
<1>6. CASE replies' = replies
  BY <1>1, <1>4, <1>6 DEF TypeInv
<1> QED  BY <1>3, <1>5, <1>6

LEMMA GrantTypeInv ==
  ASSUME TypeInv, AuthGrant  PROVE  TypeInv'
<1>1. /\ call \in AuthRequest /\ WellFormed(call) /\ call' = NoCall
      /\ UNCHANGED <<channel, active, challenges, connected, live, calls, counter>>
      /\ replies' \in Seq(AuthReply) /\ \A k \in DOMAIN replies' : WellFormed(replies'[k].to)
  BY AnswerReplies DEF AuthGrant, authPage
<1>2. call # NoCall
  BY <1>1, AuthNoCallAssumption
<1>3. open' \subseteq Ids
  BY <1>1, AuthenticationAssumption DEF AuthGrant, TypeInv, AuthTypeOK, WellFormed, OfObject
<1>4. CASE IsMessage(call)
  <2>1. call.object \in Objects
    BY <1>1, <1>4 DEF WellFormed, OfObject, IsMessage
  <2> PICK j \in Ids : j = IdOf[call.object]
    BY <2>1, AuthenticationAssumption
  <2>2. said' = [said EXCEPT ![j] = Append(@, call.name)]
    BY <1>4 DEF AuthGrant
  <2>3. call.name \in MessageNames
    BY <1>2, <1>4, <2>1, NamesOf DEF TypeInv, AtCounter
  <2>4. said[j] \in Seq(MessageNames)
    BY DEF TypeInv, AuthTypeOK
  <2>5. Append(said[j], call.name) \in Seq(MessageNames) /\ Len(Append(said[j], call.name)) = Len(said[j]) + 1
    BY <2>3, <2>4, AppendProperties
  <2>6. said' \in [Ids -> Seq(MessageNames)]
    BY <2>2, <2>5 DEF TypeInv, AuthTypeOK
  <2>7. \A i \in Ids : Len(said'[i]) = IF i = j THEN Len(said[i]) + 1 ELSE Len(said[i])
    <3>1. \A i \in Ids : Len(said[i]) \in Nat
      BY DEF TypeInv, AuthTypeOK
    <3>2. \A i \in Ids : said'[i] = IF i = j THEN Append(said[j], call.name) ELSE said[i]
      BY <2>2 DEF TypeInv, AuthTypeOK
    <3> QED  BY <2>5, <3>1, <3>2
  <2>8. Counted'
    BY <1>1, <1>2, <1>4, <2>7 DEF TypeInv, AuthTypeOK, Counted, UnderWay
  <2> QED  BY <1>1, <1>3, <2>6, <2>8 DEF TypeInv, AuthTypeOK, AtCounter
<1>5. CASE ~ IsMessage(call)
  <2>1. UNCHANGED said
    BY <1>5 DEF AuthGrant
  <2>2. Counted'
    BY <1>1, <1>5, <2>1 DEF TypeInv, Counted, UnderWay
  <2> QED  BY <1>1, <1>3, <2>1, <2>2 DEF TypeInv, AuthTypeOK, AtCounter
<1> QED  BY <1>4, <1>5

LEMMA RejectTypeInv ==
  ASSUME TypeInv, AuthReject  PROVE  TypeInv'
<1>1. /\ call \in AuthRequest /\ WellFormed(call) /\ call' = NoCall
      /\ UNCHANGED <<channel, active, challenges, connected, live, calls, open, said>>
      /\ replies' \in Seq(AuthReply) /\ \A k \in DOMAIN replies' : WellFormed(replies'[k].to)
  BY AnswerReplies DEF AuthReject, authPage
<1>2. call # NoCall
  BY <1>1, AuthNoCallAssumption
<1>3. \A i \in Ids : Len(said[i]) \in Nat
  BY DEF TypeInv, AuthTypeOK
<1>4. CASE IsMessage(call)
  <2> PICK j \in Ids : j = IdOf[call.object]
    BY <1>1, <1>4, AuthenticationAssumption DEF WellFormed, OfObject, IsMessage
  <2>1. counter' = [counter EXCEPT ![j] = @ - 1]
    BY <1>4 DEF AuthReject
  <2>2. \A i \in Ids : counter[i] = IF i = j THEN Len(said[i]) + 1 ELSE Len(said[i])
    BY <1>2, <1>4 DEF TypeInv, Counted, UnderWay
  <2>3. counter' \in [Ids -> Nat] /\ \A i \in Ids : counter'[i] = Len(said[i])
    BY <1>3, <2>1, <2>2 DEF TypeInv, AuthTypeOK
  <2>4. Counted'
    BY <1>1, <1>3, <2>3 DEF Counted, UnderWay
  <2> QED  BY <1>1, <2>3, <2>4 DEF TypeInv, AuthTypeOK, AtCounter
<1>5. CASE ~ IsMessage(call)
  <2>1. UNCHANGED counter
    BY <1>5 DEF AuthReject
  <2>2. Counted'
    BY <1>1, <1>5, <2>1 DEF TypeInv, Counted, UnderWay
  <2> QED  BY <1>1, <2>1, <2>2 DEF TypeInv, AuthTypeOK, AtCounter
<1> QED  BY <1>4, <1>5

LEMMA HeardTypeInv ==
  ASSUME TypeInv, NEW methods, AuthHeard(methods),
         connected' \subseteq Objects, live' \subseteq connected',
         challenges' \in [Ids -> Objects \union {NoObject}],
         channel' \in BOOLEAN, active' \in BOOLEAN
  PROVE  /\ TypeInv'
         /\ Head(replies) = replies[1] /\ replies[1] \in AuthReply /\ WellFormed(replies[1].to)
         /\ replies[1].to.method \in methods
         /\ DOMAIN replies = 1 .. Len(replies) /\ Len(replies) \in Nat \ {0}
         /\ DOMAIN replies' = 1 .. Len(replies) - 1
         /\ \A k \in DOMAIN replies' : replies'[k] = replies[k + 1] /\ k + 1 \in DOMAIN replies
<1>1. replies \in Seq(AuthReply) /\ replies # <<>> /\ replies' = Tail(replies)
      /\ UNCHANGED <<call, counter, open, said, calls>>
  BY DEF AuthHeard, TypeInv, AuthTypeOK
<1>2. /\ DOMAIN replies = 1 .. Len(replies) /\ Len(replies) \in Nat \ {0}
      /\ DOMAIN replies' = 1 .. Len(replies) - 1 /\ replies' \in Seq(AuthReply)
  BY <1>1, HeadTailProperties, EmptySeq
<1>3. \A k \in DOMAIN replies' : replies'[k] = replies[k + 1] /\ k + 1 \in DOMAIN replies
  BY <1>1, <1>2, HeadTailProperties
<1>4. Head(replies) = replies[1] /\ replies[1] \in AuthReply /\ WellFormed(replies[1].to)
  BY <1>1, <1>2 DEF TypeInv
<1>5. \A k \in DOMAIN replies' : WellFormed(replies'[k].to)
  BY <1>3 DEF TypeInv
<1>6. Counted' /\ AtCounter'
  BY <1>1 DEF TypeInv, Counted, UnderWay, AtCounter
<1> QED  BY <1>1, <1>2, <1>3, <1>4, <1>5, <1>6 DEF TypeInv, AuthTypeOK, AuthHeard

LEMMA PageTypes ==
  ASSUME TypeInv
  PROVE  /\ connected \subseteq Objects /\ live \subseteq connected
         /\ challenges \in [Ids -> Objects \union {NoObject}]
         /\ channel \in BOOLEAN /\ active \in BOOLEAN
  BY DEF TypeInv, AuthTypeOK

\* The object of the answer that is heard.
LEMMA HeadObject ==
  ASSUME TypeInv, replies # <<>>, Head(replies).to.method \in OfObject
  PROVE  Head(replies).to.object \in Objects /\ IdOf[Head(replies).to.object] \in Ids
<1>1. replies \in Seq(AuthReply)
  BY DEF TypeInv, AuthTypeOK
<1>2. Head(replies) = replies[1] /\ 1 \in DOMAIN replies
  BY <1>1
<1> QED  BY <1>2, AuthenticationAssumption DEF TypeInv, WellFormed

LEMMA ArrivalTypeInv ==
  ASSUME TypeInv,
         \/ Approved \/ Disconnected \/ Responded \/ Finished \/ ChannelClosed
         \/ Fails(AuthMethods \ {"respondToChallengeMessage"})
  PROVE  TypeInv'
<1>1. CASE Approved
  <2>1. Head(replies).to.object \in Objects
    BY <1>1, HeadObject DEF Approved, AuthHeard, OfObject
  <2> QED  BY <1>1, <2>1, PageTypes, HeardTypeInv DEF Approved, Connect
<1>2. CASE Disconnected
  <2>1. AuthHeard({"closeChallenge", "abortChallenge"}) /\ live' \subseteq live
        /\ UNCHANGED <<channel, active, challenges, connected>>
    BY <1>2 DEF Disconnected
  <2> QED  BY <2>1, PageTypes, HeardTypeInv
<1>3. CASE Responded \/ Fails(AuthMethods \ {"respondToChallengeMessage"})
  <2>1. (\E methods : AuthHeard(methods)) /\ UNCHANGED <<channel, active, challenges, connected, live>>
    BY <1>3 DEF Responded, Fails, authPage
  <2> QED  BY <2>1, PageTypes, HeardTypeInv
<1>4. CASE Finished
  BY <1>4, PageTypes, HeardTypeInv DEF Finished
<1>5. CASE ChannelClosed
  BY <1>5, PageTypes, HeardTypeInv DEF ChannelClosed
<1> QED  BY <1>1, <1>2, <1>3, <1>4, <1>5

LEMMA OtherPageTypeInv ==
  ASSUME TypeInv, AuthServeAnother  PROVE  TypeInv'
<1> DEFINE r == Plain("of another page", NoObject)
<1>1. r \in AuthRequest /\ WellFormed(r) /\ ~ IsMessage(r)
  BY DEF Plain, AuthRequest, AuthMethods, WellFormed, OfObject, IsMessage
<1>2. call = NoCall /\ call' = r /\ UNCHANGED <<authPage, replies, counter, open, said, calls>>
  BY DEF AuthServeAnother
<1> HIDE DEF r
<1>3. Counted' /\ AtCounter'
  BY <1>1, <1>2 DEF TypeInv, Counted, UnderWay, AtCounter
<1> QED  BY <1>1, <1>2, <1>3 DEF TypeInv, AuthTypeOK, authPage

LEMMA NextTypeInv == TypeInv /\ [AuthNext]_authVars => TypeInv'
<1> SUFFICES ASSUME TypeInv, [AuthNext]_authVars  PROVE  TypeInv'
  OBVIOUS
<1>1. CASE UNCHANGED authVars
  BY <1>1 DEF TypeInv, AuthTypeOK, Counted, UnderWay, AtCounter, authVars, authPage
<1> QED
  BY <1>1, CallsAsk, AskTypeInv, GrantTypeInv, RejectTypeInv, OtherPageTypeInv, ArrivalTypeInv
  DEF AuthNext

-----------------------------------------------------------------------------
(***************************************************************************)
(* The order of the messages                                               *)
(***************************************************************************)
OneType(i) == \A o, p \in ObjectsOf(i) : TypeOf[p] = TypeOf[o]

\* said[i] begins the list of names of the type of i's objects.
SaidInOrder ==
  \A i \in Ids : \A o \in ObjectsOf(i) : OneType(i) =>
      /\ Len(said[i]) <= Len(Names[TypeOf[o]])
      /\ \A k \in 1 .. Len(said[i]) : said[i][k] = Names[TypeOf[o]][k]

LEMMA GrantInOrder ==
  ASSUME TypeInv, SaidInOrder, AuthGrant  PROVE  SaidInOrder'
<1>1. call # NoCall /\ WellFormed(call)
  BY DEF AuthGrant, Answer, TypeInv
<1>2. CASE ~ IsMessage(call)
  BY <1>2 DEF AuthGrant, SaidInOrder
<1>3. CASE IsMessage(call)
  <2>1. call.object \in Objects
    BY <1>1, <1>3 DEF WellFormed, OfObject, IsMessage
  <2> PICK j \in Ids : j = IdOf[call.object]
    BY <2>1, AuthenticationAssumption
  <2> DEFINE names == Names[TypeOf[call.object]]
             n == Len(said[j]) + 1
  <2>2. n \in DOMAIN names /\ names[n] = call.name
    BY <1>1, <1>3 DEF TypeInv, Counted, UnderWay, AtCounter
  <2>3. \A i \in Ids : said'[i] = IF i = j THEN Append(said[j], call.name) ELSE said[i]
    BY <1>3 DEF AuthGrant, TypeInv, AuthTypeOK
  <2>4. said[j] \in Seq(MessageNames) /\ call.name \in MessageNames
    BY <2>1, <2>2, NamesOf DEF TypeInv, AuthTypeOK
  <2>5. /\ Len(said'[j]) = n /\ Len(said[j]) \in Nat /\ said'[j][n] = call.name
        /\ \A k \in 1 .. Len(said[j]) : said'[j][k] = said[j][k]
    <3>1. said'[j] = Append(said[j], call.name)
      BY <2>3
    <3>2. Len(said[j]) \in Nat
      BY <2>4
    <3> QED  BY <2>4, <3>1, <3>2, AppendProperties
  <2>6. ASSUME NEW o \in ObjectsOf(j), OneType(j)
        PROVE  /\ Len(said'[j]) <= Len(Names[TypeOf[o]])
               /\ \A k \in 1 .. Len(said'[j]) : said'[j][k] = Names[TypeOf[o]][k]
    <3>1. call.object \in ObjectsOf(j) /\ Names[TypeOf[o]] = names
      BY <2>1, <2>6 DEF OneType, ObjectsOf
    <3>2. Len(said[j]) <= Len(names) /\ \A k \in 1 .. Len(said[j]) : said[j][k] = names[k]
      BY <2>6, <3>1 DEF SaidInOrder
    <3>3. DOMAIN names = 1 .. Len(names) /\ Len(names) \in Nat
      BY <2>1, NamesOf
    <3> HIDE DEF names
    <3>4. n <= Len(names)
      BY <2>2, <2>5, <3>3
    <3>5. \A k \in 1 .. n : k = n \/ k \in 1 .. Len(said[j])
      BY <2>5
    <3> QED  BY <2>2, <2>5, <3>1, <3>2, <3>4, <3>5
  <2>7. ASSUME NEW i \in Ids, i # j, NEW o \in ObjectsOf(i), OneType(i)
        PROVE  /\ Len(said'[i]) <= Len(Names[TypeOf[o]])
               /\ \A k \in 1 .. Len(said'[i]) : said'[i][k] = Names[TypeOf[o]][k]
    BY <2>3, <2>7 DEF SaidInOrder
  <2> QED  BY <2>6, <2>7 DEF SaidInOrder, OneType, ObjectsOf
<1> QED  BY <1>2, <1>3

\* The messages of a challenge are sent in the order of its type, each once,
\* and its counter counts them, however the objects of one id, rejections and
\* other pages' requests alternate: for every number of calls.
THEOREM MessagesStayInOrder == AuthSpec => []MessagesInOrder
<1>1. AuthInit => SaidInOrder
  <2> SUFFICES ASSUME AuthInit  PROVE  SaidInOrder
    OBVIOUS
  <2>1. \A i \in Ids : said[i] = <<>>
    BY DEF AuthInit
  <2>2. \A o \in Objects : Len(Names[TypeOf[o]]) >= 0
    BY NamesOf
  <2> QED  BY <2>1, <2>2 DEF SaidInOrder, ObjectsOf
<1>2. TypeInv /\ SaidInOrder /\ [AuthNext]_authVars => SaidInOrder'
  <2> SUFFICES ASSUME TypeInv, SaidInOrder, [AuthNext]_authVars  PROVE  SaidInOrder'
    OBVIOUS
  <2>1. CASE UNCHANGED said
    BY <2>1 DEF SaidInOrder, OneType, ObjectsOf
  <2>2. AuthGrant \/ UNCHANGED said
    BY DEF AuthNext, Challenge, Seal, Abort, SendMessage, Finish, AuthCloseChannel, Ask, AuthServeAnother,
           AuthReject, Approved, Disconnected, Responded, Finished, ChannelClosed, Fails, AuthHeard, authVars
  <2> QED  BY <2>1, <2>2, GrantInOrder
<1>3. TypeInv /\ SaidInOrder => MessagesInOrder
  <2> SUFFICES ASSUME TypeInv, SaidInOrder, NEW i \in Ids, NEW o \in ObjectsOf(i),
                      \A p \in ObjectsOf(i) : TypeOf[p] = TypeOf[o]
               PROVE  /\ IsPrefix(said[i], Names[TypeOf[o]])
                      /\ counter[i] = Len(said[i]) +
                            (IF call # NoCall /\ IsMessage(call) /\ IdOf[call.object] = i
                             THEN 1 ELSE 0)
    BY DEF MessagesInOrder
  <2>1. Len(said[i]) \in Nat /\ o \in Objects /\ OneType(i)
    BY DEF TypeInv, AuthTypeOK, ObjectsOf, OneType
  <2>2. /\ Len(said[i]) <= Len(Names[TypeOf[o]])
        /\ \A k \in 1 .. Len(said[i]) : said[i][k] = Names[TypeOf[o]][k]
    BY <2>1 DEF SaidInOrder
  <2>3. SubSeq(said[i], 1, Len(said[i])) = SubSeq(Names[TypeOf[o]], 1, Len(said[i]))
    BY <2>1, <2>2
  <2>4. counter[i] = Len(said[i]) + (IF UnderWay(i) THEN 1 ELSE 0)
    <3>1. CASE UnderWay(i)
      BY <2>1, <3>1 DEF TypeInv, Counted
    <3>2. CASE ~ UnderWay(i)
      BY <2>1, <3>2 DEF TypeInv, Counted
    <3> QED  BY <3>1, <3>2
  <2> QED  BY <2>2, <2>3, <2>4 DEF IsPrefix, UnderWay
<1> QED  BY <1>1, <1>2, <1>3, InitTypeInv, NextTypeInv, PTL DEF AuthSpec

-----------------------------------------------------------------------------
(***************************************************************************)
(* The page's challenges and the manager's                                 *)
(***************************************************************************)
Opens == "approveChallengeRequest"
Switching == {Opens, "closeChallenge", "abortChallenge"}

\* An answer that will make an object of the id active, or no longer active.
Switches(x, i) == x.ok /\ x.to.method \in Switching /\ IdOf[x.to.object] = i

SwitchIsLast(k, i) ==
  /\ Switches(replies[k], i)
  /\ \A m \in DOMAIN replies : m > k => ~ Switches(replies[m], i)

Level(i) == \A k \in DOMAIN replies : ~ Switches(replies[k], i)

MapInv == \A i \in Ids : challenges[i] \in Objects => IdOf[challenges[i]] = i

\* What the page has yet to hear ends with what the manager has done last.
LastSwitchDecides ==
  \A i \in Ids : \A k \in DOMAIN replies :
      SwitchIsLast(k, i) => (i \in open <=> replies[k].to.method = Opens)

Agree(i) ==
  /\ i \in open => challenges[i] \in live
  /\ \A o \in Objects : ObjectsOf(i) = {o} => (o \in live <=> i \in open)

\* When it has heard it all, the page agrees with the manager.
LevelAgrees == \A i \in Ids : Level(i) => Agree(i)

AgreeInv == TypeInv /\ MapInv /\ LastSwitchDecides /\ LevelAgrees

LEMMA InitAgree == AuthInit => AgreeInv
<1> SUFFICES ASSUME AuthInit  PROVE  AgreeInv
  OBVIOUS
<1>1. DOMAIN replies = {} /\ open = {} /\ live = {} /\ \A i \in Ids : challenges[i] = NoObject
  BY DEF AuthInit
<1> QED
  BY <1>1, InitTypeInv, AuthenticationAssumption
  DEF AgreeInv, MapInv, LastSwitchDecides, LevelAgrees, Agree

\* A step of the page's caller, or of another page.
LEMMA QuietAgree ==
  ASSUME AgreeInv, TypeInv', UNCHANGED <<challenges, live, replies, open>>
  PROVE  AgreeInv'
  BY DEF AgreeInv, MapInv, LastSwitchDecides, SwitchIsLast, LevelAgrees, Level, Agree

\* What an answer of the manager does to what it has open.
LEMMA AnswerOpens ==
  ASSUME TypeInv, NEW ok \in BOOLEAN, Answer(ok), ok => AuthGrant, ~ ok => UNCHANGED open, NEW i \in Ids
  PROVE  LET x == [to |-> call, ok |-> ok]
         IN  IF Switches(x, i) THEN i \in open' <=> call.method = Opens
             ELSE i \in open' <=> i \in open
<1> DEFINE x == [to |-> call, ok |-> ok]
<1>1. /\ Switches(x, i) <=> ok /\ call.method \in Switching /\ IdOf[call.object] = i
  BY DEF Switches
<1>2. CASE ~ ok \/ call.method \notin Switching
  BY <1>1, <1>2 DEF AuthGrant, Switching, Opens
<1>3. CASE ok /\ call.method = Opens
  <2>1. open' = open \union {IdOf[call.object]}
    BY <1>3 DEF AuthGrant, Opens
  <2> QED  BY <1>1, <1>3, <2>1 DEF Switching
<1>4. CASE ok /\ call.method \in {"closeChallenge", "abortChallenge"}
  <2>1. open' = open \ {IdOf[call.object]}
    BY <1>4 DEF AuthGrant
  <2> QED  BY <1>1, <1>4, <2>1 DEF Switching, Opens
<1> QED  BY <1>2, <1>3, <1>4 DEF Switching

\* An answer joins the others that are on their way to the page.
LEMMA AnswerAgree ==
  ASSUME AgreeInv, TypeInv', AuthGrant \/ AuthReject  PROVE  AgreeInv'
<1> USE DEF AgreeInv
<1>1. PICK ok \in BOOLEAN : Answer(ok) /\ (ok => AuthGrant) /\ (~ ok => UNCHANGED open)
  BY DEF AuthGrant, AuthReject
<1> DEFINE x == [to |-> call, ok |-> ok]
<1>2. UNCHANGED <<challenges, live>> /\ call \in AuthRequest /\ replies \in Seq(AuthReply)
  BY <1>1, AnswerReplies DEF authPage, TypeInv, AuthTypeOK
<1>3. \A i \in Ids : IF Switches(x, i) THEN i \in open' <=> call.method = Opens
                     ELSE i \in open' <=> i \in open
  BY <1>1, AnswerOpens
<1>4. MapInv'
  BY <1>2 DEF MapInv
<1>5. CASE replies' = replies
  <2>1. call.method = "of another page"
    <3>1. Append(replies, x) # replies
      <4>1. Len(Append(replies, x)) = Len(replies) + 1 /\ Len(replies) \in Nat
        BY <1>2
      <4> QED  BY <4>1
    <3> QED  BY <1>1, <1>5, <3>1 DEF Answer
  <2>2. \A i \in Ids : ~ Switches(x, i)
    BY <2>1 DEF Switches, Switching, Opens
  <2>3. \A i \in Ids : i \in open' <=> i \in open
    BY <1>3, <2>2
  <2>4. LastSwitchDecides'
    BY <1>5, <2>3 DEF LastSwitchDecides, SwitchIsLast
  <2>5. LevelAgrees'
    BY <1>2, <1>5, <2>3 DEF LevelAgrees, Level, Agree
  <2> QED  BY <1>4, <2>4, <2>5
<1>6. CASE replies' = Append(replies, x)
  <2>1. x.to = call /\ x \in AuthReply
    BY <1>2 DEF AuthReply
  <2> HIDE DEF x
  <2> DEFINE n == Len(replies) + 1
  <2>2. /\ Len(replies) \in Nat /\ DOMAIN replies = 1 .. Len(replies) /\ DOMAIN replies' = 1 .. n
        /\ replies'[n] = x /\ \A k \in DOMAIN replies : replies'[k] = replies[k]
    BY <1>2, <1>6, <2>1, AppendProperties
  <2>3. ASSUME NEW i \in Ids, NEW k \in DOMAIN replies', SwitchIsLast(k, i)'
        PROVE  i \in open' <=> replies'[k].to.method = Opens
    <3>1. CASE Switches(x, i)
      <4>1. Switches(replies'[n], i) /\ n \in DOMAIN replies' /\ k \in Int /\ k <= n
        BY <2>2, <3>1
      <4>2. ~ n > k
        BY <2>3, <4>1 DEF SwitchIsLast, Switches
      <4>3. k = n
        BY <2>2, <4>1, <4>2
      <4> QED  BY <1>3, <2>1, <2>2, <3>1, <4>3
    <3>2. CASE ~ Switches(x, i)
      <4>1. Switches(replies'[k], i)
        BY <2>3 DEF SwitchIsLast, Switches
      <4>2. k \in DOMAIN replies /\ replies'[k] = replies[k]
        BY <2>2, <2>3, <3>2, <4>1
      <4>3. \A m \in DOMAIN replies : m > k => ~ Switches(replies[m], i)
        BY <2>2, <2>3 DEF SwitchIsLast, Switches
      <4>4. SwitchIsLast(k, i)
        BY <4>1, <4>2, <4>3 DEF SwitchIsLast
      <4> QED  BY <1>3, <3>2, <4>2, <4>4 DEF LastSwitchDecides
    <3> QED  BY <3>1, <3>2
  <2>4. ASSUME NEW i \in Ids, Level(i)'  PROVE  Agree(i)'
    <3>1. ~ Switches(x, i)
      BY <2>2, <2>4 DEF Level, Switches
    <3>2. Level(i)
      BY <2>2, <2>4 DEF Level, Switches
    <3>3. Agree(i) /\ (i \in open' <=> i \in open)
      BY <1>3, <3>1, <3>2 DEF LevelAgrees
    <3> QED  BY <1>2, <3>3 DEF Agree
  <2> QED  BY <1>4, <2>3, <2>4 DEF LastSwitchDecides, LevelAgrees
<1> QED  BY <1>1, <1>5, <1>6 DEF Answer

\* An answer is heard: a step of the page that follows what it says.
LEMMA HeardAgree ==
  ASSUME AgreeInv, TypeInv', MapInv', NEW methods, AuthHeard(methods),
         connected' \subseteq Objects, live' \subseteq connected',
         challenges' \in [Ids -> Objects \union {NoObject}],
         channel' \in BOOLEAN, active' \in BOOLEAN,
         \A i \in Ids : IF Switches(Head(replies), i)
                        THEN (i \in open <=> Head(replies).to.method = Opens) => Agree(i)'
                        ELSE Agree(i) => Agree(i)'
  PROVE  AgreeInv'
<1> USE DEF AgreeInv
<1>1. UNCHANGED open
  BY DEF AuthHeard
<1> DEFINE n == Len(replies)
<1>2. /\ Head(replies) = replies[1] /\ DOMAIN replies = 1 .. n /\ n \in Nat \ {0}
      /\ DOMAIN replies' = 1 .. n - 1
      /\ \A k \in DOMAIN replies' : replies'[k] = replies[k + 1] /\ k + 1 \in DOMAIN replies
  BY HeardTypeInv
<1> HIDE DEF n
<1>3. ASSUME NEW i \in Ids, NEW k \in DOMAIN replies', SwitchIsLast(k, i)'
      PROVE  i \in open' <=> replies'[k].to.method = Opens
  <2>1. Switches(replies[k + 1], i) /\ replies'[k] = replies[k + 1] /\ k + 1 \in DOMAIN replies
    BY <1>2, <1>3 DEF SwitchIsLast, Switches
  <2>2. ASSUME NEW m \in DOMAIN replies, m > k + 1  PROVE  ~ Switches(replies[m], i)
    <3>1. m - 1 \in DOMAIN replies' /\ m - 1 > k /\ (m - 1) + 1 = m
      BY <1>2, <1>3, <2>2
    <3>2. replies'[m - 1] = replies[m]
      BY <1>2, <3>1
    <3> QED  BY <1>3, <3>1, <3>2 DEF SwitchIsLast, Switches
  <2>3. SwitchIsLast(k + 1, i)
    BY <2>1, <2>2 DEF SwitchIsLast
  <2> QED  BY <1>1, <2>1, <2>3 DEF LastSwitchDecides
<1>4. ASSUME NEW i \in Ids, Level(i)'  PROVE  Agree(i)'
  <2>1. ASSUME NEW m \in DOMAIN replies, m > 1  PROVE  ~ Switches(replies[m], i)
    <3>1. m - 1 \in DOMAIN replies' /\ (m - 1) + 1 = m
      BY <1>2, <2>1
    <3>2. replies'[m - 1] = replies[m]
      BY <1>2, <3>1
    <3> QED  BY <1>4, <3>1, <3>2 DEF Level, Switches
  <2>2. CASE Switches(Head(replies), i)
    <3>1. SwitchIsLast(1, i) /\ 1 \in DOMAIN replies
      BY <1>2, <2>1, <2>2 DEF SwitchIsLast
    <3>2. i \in open <=> Head(replies).to.method = Opens
      BY <1>2, <3>1 DEF LastSwitchDecides
    <3> QED  BY <2>2, <3>2
  <2>3. CASE ~ Switches(Head(replies), i)
    <3>1. \A m \in DOMAIN replies : m = 1 \/ m > 1
      BY <1>2
    <3>2. Level(i)
      BY <1>2, <2>1, <2>3, <3>1 DEF Level
    <3> QED  BY <2>3, <3>2 DEF LevelAgrees
  <2> QED  BY <2>2, <2>3
<1> QED  BY <1>3, <1>4 DEF LastSwitchDecides, LevelAgrees

LEMMA ArrivalAgree ==
  ASSUME AgreeInv, TypeInv',
         \/ Approved \/ Disconnected \/ Responded \/ Finished \/ ChannelClosed
         \/ Fails(AuthMethods \ {"respondToChallengeMessage"})
  PROVE  AgreeInv'
<1> USE DEF AgreeInv
<1> DEFINE x == Head(replies)
           o == x.to.object
<1>0. /\ connected' \subseteq Objects /\ live' \subseteq connected'
      /\ challenges' \in [Ids -> Objects \union {NoObject}]
      /\ channel' \in BOOLEAN /\ active' \in BOOLEAN
  BY DEF TypeInv, AuthTypeOK
<1>1. CASE Approved
  <2>1. /\ AuthHeard({Opens}) /\ x.ok /\ o \in Objects /\ IdOf[o] \in Ids
    BY <1>1, HeadObject DEF Approved, AuthHeard, OfObject, Opens
  <2>2. challenges' = [challenges EXCEPT ![IdOf[o]] = o] /\ live' = live \union {o}
    BY <1>1 DEF Approved, Connect
  <2>3. x.to.method = Opens
    BY <2>1 DEF AuthHeard
  <2> HIDE DEF x, o
  <2>4. \A i \in Ids : challenges'[i] = IF i = IdOf[o] THEN o ELSE challenges[i]
    BY <2>1, <2>2 DEF TypeInv, AuthTypeOK
  <2>5. MapInv'
    BY <2>4 DEF MapInv
  <2>6. \A i \in Ids : Switches(x, i) <=> i = IdOf[o]
    BY <2>1, <2>3 DEF Switches, Switching, o
  <2>7. ASSUME NEW i \in Ids, i = IdOf[o], i \in open  PROVE  Agree(i)'
    <3>1. challenges'[i] \in live'
      BY <2>2, <2>4, <2>7
    <3>2. \A p \in Objects : ObjectsOf(i) = {p} => p = o
      BY <2>1, <2>7 DEF ObjectsOf
    <3>3. i \in open'
      BY <2>1, <2>7 DEF AuthHeard
    <3> QED  BY <2>2, <3>1, <3>2, <3>3 DEF Agree, ObjectsOf
  <2>8. ASSUME NEW i \in Ids, i # IdOf[o], Agree(i)  PROVE  Agree(i)'
    <3>1. \A p \in Objects : ObjectsOf(i) = {p} => p # o
      BY <2>1, <2>8 DEF ObjectsOf
    <3>2. UNCHANGED open
      BY <2>1 DEF AuthHeard
    <3> QED  BY <2>2, <2>4, <2>8, <3>1, <3>2 DEF Agree, ObjectsOf
  <2> QED  BY <1>0, <2>1, <2>3, <2>5, <2>6, <2>7, <2>8, HeardAgree DEF x
<1>2. CASE Disconnected
  <2>1. /\ AuthHeard({"closeChallenge", "abortChallenge"}) /\ x.ok /\ o \in Objects /\ IdOf[o] \in Ids
        /\ UNCHANGED challenges
    BY <1>2, HeadObject DEF Disconnected, AuthHeard, OfObject
  <2>2. live' = live \ {o} /\ x.to.method \in {"closeChallenge", "abortChallenge"}
    BY <1>2 DEF Disconnected, AuthHeard
  <2> HIDE DEF x, o
  <2>3. MapInv'
    BY <2>1 DEF MapInv
  <2>4. \A i \in Ids : Switches(x, i) <=> i = IdOf[o]
    BY <2>1, <2>2 DEF Switches, Switching, o
  <2>5. UNCHANGED open /\ x.to.method # Opens
    BY <2>1, <2>2 DEF AuthHeard, Opens
  <2>6. ASSUME NEW i \in Ids, i = IdOf[o], i \notin open  PROVE  Agree(i)'
    <3>1. \A p \in Objects : ObjectsOf(i) = {p} => p = o
      BY <2>1, <2>6 DEF ObjectsOf
    <3> QED  BY <2>2, <2>5, <2>6, <3>1 DEF Agree, ObjectsOf
  <2>7. ASSUME NEW i \in Ids, i # IdOf[o], Agree(i)  PROVE  Agree(i)'
    <3>1. \A p \in Objects : ObjectsOf(i) = {p} => p # o
      BY <2>1, <2>7 DEF ObjectsOf
    <3>2. challenges[i] # o
      BY <2>1, <2>7 DEF MapInv
    <3> QED  BY <2>1, <2>2, <2>5, <2>7, <3>1, <3>2 DEF Agree, ObjectsOf
  <2> QED  BY <1>0, <2>1, <2>3, <2>4, <2>5, <2>6, <2>7, HeardAgree DEF x
<1>3. ASSUME NEW methods, AuthHeard(methods), UNCHANGED <<challenges, live>>,
             ~ x.ok \/ x.to.method \notin Switching
      PROVE  AgreeInv'
  <2>1. MapInv' /\ UNCHANGED open
    BY <1>3 DEF MapInv, AuthHeard
  <2>2. \A i \in Ids : ~ Switches(x, i)
    BY <1>3 DEF Switches
  <2>3. \A i \in Ids : Agree(i) => Agree(i)'
    BY <1>3, <2>1 DEF Agree, ObjectsOf
  <2> QED  BY <1>0, <1>3, <2>1, <2>2, <2>3, HeardAgree
<1>4. CASE Responded \/ Finished \/ ChannelClosed
  <2>1. \E m \in {"respondToChallengeMessage", "closeOperation", "closeChannel"} : AuthHeard({m})
    BY <1>4 DEF Responded, Finished, ChannelClosed
  <2>2. UNCHANGED <<challenges, live>>
    BY <1>4 DEF Responded, Finished, ChannelClosed, authPage
  <2> QED  BY <1>3, <2>1, <2>2 DEF AuthHeard, Switching, Opens
<1>5. CASE Fails(AuthMethods \ {"respondToChallengeMessage"})
  BY <1>3, <1>5 DEF Fails, authPage
<1> QED  BY <1>1, <1>2, <1>4, <1>5

\* The objects of a page are the challenges of the manager: when nothing about
\* an id is under way, an open challenge has an active object, and the only
\* object of an id is active exactly when the challenge is open.
THEOREM ChallengesStayInStep == AuthSpec => []AuthenticationInv
<1>1. AgreeInv /\ [AuthNext]_authVars => AgreeInv'
  <2> SUFFICES ASSUME AgreeInv, [AuthNext]_authVars  PROVE  AgreeInv'
    OBVIOUS
  <2>1. TypeInv'
    BY NextTypeInv DEF AgreeInv
  <2>2. CASE UNCHANGED authVars
    BY <2>1, <2>2, QuietAgree DEF authVars, authPage
  <2>3. ASSUME NEW r, Ask(r)  PROVE  AgreeInv'
    BY <2>1, <2>3, QuietAgree DEF Ask, authPage
  <2>4. CASE AuthServeAnother
    BY <2>1, <2>4, QuietAgree DEF AuthServeAnother, authPage
  <2> QED
    BY <2>1, <2>2, <2>3, <2>4, CallsAsk, AnswerAgree, ArrivalAgree DEF AuthNext, AgreeInv
<1>2. AgreeInv => AuthenticationInv
  <2> SUFFICES ASSUME AgreeInv, NEW i \in Ids, ~ Pending(i)  PROVE  Agree(i)
    BY DEF AgreeInv, TypeInv, AuthenticationInv, ChallengesAgree, Agree
  <2>1. ASSUME NEW k \in DOMAIN replies, Switches(replies[k], i)  PROVE  FALSE
    <3>1. replies[k].to.object \in Objects
      BY <2>1 DEF AgreeInv, TypeInv, WellFormed, OfObject, Switches, Switching, Opens
    <3> QED  BY <2>1, <3>1, AuthenticationAssumption DEF Pending, Switches
  <2>2. Level(i)
    BY <2>1 DEF Level
  <2> QED  BY <2>2 DEF AgreeInv, LevelAgrees
<1> QED  BY <1>1, <1>2, InitAgree, PTL DEF AuthSpec
=============================================================================
