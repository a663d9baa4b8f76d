---------------------------- MODULE Registration ----------------------------
(***************************************************************************)
(* One login of a page that registers an account: the calls of its         *)
(* BerytusAccountCreationOperation, the requests they become, and the      *)
(* record the secret manager keeps (dom/berytus/BerytusLoginOperation.cpp, *)
(* BerytusAccountCreationOperation.cpp, BerytusAccount.cpp,                *)
(* BerytusAccountMetadata.cpp, BerytusFieldMap.cpp and the request         *)
(* handler's FieldIdValidator).                                            *)
(*                                                                         *)
(* A call is a task: it sends its requests one after the other and changes *)
(* the page's objects when the last answer has arrived.  Nothing keeps a   *)
(* page from making a call before an earlier one has settled.  The manager *)
(* serves one request at a time, of this page or of another one, and       *)
(* refuses what comes meanwhile; answers arrive in the order of sending.   *)
(***************************************************************************)
EXTENDS LoginOperation, SequencesExt, FiniteSets

CONSTANTS
    MaxTasks,       \* bound: calls a page has under way at a time
    Fields,         \* field ids; the page has one field object of each
    Desired,        \* the value each object was constructed with, or Null
    Additions,      \* the lists of ids that are added
    Revisions,      \* the lists of ids and new values, or Null, that are revised
    UserAttributes, \* ids of user attributes
    Profile,        \* their values before the page changes any
    Values,         \* values of fields and of user attributes
    Versions,       \* account versions the page sets
    Statuses,       \* account statuses the page sets
    Null,
    NoAccount       \* the account has not been stored

ASSUME RegistrationAssumption ==
    /\ Desired \in [Fields -> Values \union {Null}] /\ Null \notin Values
    \* A call with an empty list sends nothing and changes nothing.
    /\ Additions \subseteq Seq(Fields) \ {<<>>}
    /\ Revisions \subseteq Seq([id : Fields, value : Values \union {Null}]) \ {<<>>}
    /\ Profile \in [UserAttributes -> Values \union {Null}]
    /\ Versions \subseteq Nat /\ 0 \notin Versions
    /\ MaxCalls \in Nat /\ MaxTasks \in Nat

Tasks == 1 .. MaxTasks

VARIABLES
    phase,          \* of the login
    fields,         \* ids in the operation's field map
    values,         \* the value of each field object
    metadata,       \* the operation's metadata
    attributes,     \* its user attribute map
    authMetadata,   \* the metadata of the authentication operation, or Null
    tasks,          \* the calls under way
    known,          \* the ids the FieldIdValidator knows
    record,         \* the manager's record of the session
    account,        \* the fields and metadata of the account it stored
    granted,        \* whether the manager approved the operation
    torn,           \* history: fields of calls that failed half way or overlapped
    late            \* history: whether another call was under way with save

page == <<phase, channel, active, fields, values, metadata, attributes, authMetadata>>
objects == <<fields, values, metadata, attributes>>
wire == <<call, replies>>
manager == <<known, record, account, granted>>
vars == <<page, tasks, wire, manager, torn, late, calls>>

Kinds == {"login", "addFields", "rejectAndReviseFields", "setMetadata",
          "setUserAttributes", "save", "transitionToAuthOperation", "close"}
Methods == {"approveOperation", "getUserAttributes", "addField", "rejectFieldValue",
            "updateMetadata", "updateUserAttributes", "closeOperation",
            "approveTransitionToAuthOp", "getRecordMetadata", "closeChannel"}

Item == [id : Fields \union UserAttributes \union {Null}, value : Values \union {Null}]
Metadata == [version : Versions \union 0 .. 1, status : Statuses \union {"Pending"}]
\* What the authentication operation reads of it: its version is a uint8_t.
AuthMetadata == [version : 0 .. 255, status : Statuses \union {"Pending"}]
Task == [kind : Kinds \union {"none"}, list : Seq(Item), metadata : Metadata,
         got : Seq(Values \union {Null})]
Request == [task : Tasks \union {0}, method : Methods, item : Item, metadata : Metadata]
Reply == [task : Tasks, ok : BOOLEAN, value : Values \union {Null}]
Record == [fields : [Fields -> Values \union {Null}], metadata : Metadata,
           attributes : [UserAttributes -> Values \union {Null}]]

\* The manager's serving no request is not a request.
ASSUME NoCallAssumption == NoCall \notin Request

NoItem == [id |-> Null, value |-> Null]
\* The defaults of BerytusAccountMetadata, and those of the manager's session.
PageDefault == [version |-> 0, status |-> "Pending"]
RecordDefault == [version |-> 1, status |-> "Pending"]
Idle == [kind |-> "none", list |-> <<>>, metadata |-> PageDefault, got |-> <<>>]

TypeOK ==
    /\ phase \in {"none", "creating", "open", "failed"}
    /\ channel \in BOOLEAN /\ active \in BOOLEAN
    /\ fields \subseteq Fields /\ values \in [Fields -> Values \union {Null}]
    /\ \A f \in fields : values[f] # Null
    /\ metadata \in Metadata
    /\ attributes \in [UserAttributes -> Values \union {Null}]
    /\ authMetadata \in AuthMetadata \union {Null}
    /\ tasks \in [Tasks -> Task]
    /\ call \in Request \union {NoCall}
    /\ replies \in Seq(Reply)
    /\ known \subseteq Fields /\ record \in Record
    /\ account \in Record \union {NoAccount} /\ granted \in BOOLEAN
    /\ torn \subseteq Fields /\ late \in BOOLEAN /\ calls \in 0 .. MaxCalls

Init ==
    /\ phase = "none" /\ channel = TRUE /\ active = FALSE
    /\ fields = {} /\ values = Desired
    /\ metadata = PageDefault
    /\ attributes = [a \in UserAttributes |-> Null]
    /\ authMetadata = Null
    /\ tasks = [t \in Tasks |-> Idle]
    /\ call = NoCall /\ replies = <<>>
    /\ known = {} /\ account = NoAccount /\ granted = FALSE
    /\ record = [fields |-> [f \in Fields |-> Null], metadata |-> RecordDefault,
                 attributes |-> Profile]
    /\ torn = {} /\ late = FALSE /\ calls = 0

-----------------------------------------------------------------------------
(* Requests                                                                *)
\* The request of a task for its k-th step.
MethodOf(kind, k) ==
    CASE kind = "login" -> IF k = 1 THEN "approveOperation" ELSE "getUserAttributes"
      [] kind = "addFields" -> "addField"
      [] kind = "rejectAndReviseFields" -> "rejectFieldValue"
      [] kind = "setMetadata" -> "updateMetadata"
      [] kind = "setUserAttributes" -> "updateUserAttributes"
      [] kind = "save" -> "closeOperation"
      [] kind = "transitionToAuthOperation" ->
            IF k = 1 THEN "approveTransitionToAuthOp" ELSE "getRecordMetadata"
      [] kind = "close" -> "closeChannel"

RequestOf(t, q) ==
    LET k == Len(q.got) + 1
    IN  [task |-> t, method |-> MethodOf(q.kind, k), item |-> q.list[k],
         metadata |-> q.metadata]

\* FieldIdValidator.consume.
IsValid(r) ==
    /\ r.method = "addField" => r.item.id \notin known
    /\ r.method = "rejectFieldValue" => r.item.id \in known

\* Otherwise the request is refused: the channel is closed, the manager is
\* busy, or the validator says no.
CanSend(r) == channel' /\ call = NoCall /\ IsValid(r)

Send(r) ==
    /\ call' = r
    /\ known' = IF r.method = "addField" THEN known \union {r.item.id} ELSE known

Touches(q) ==
    IF q.kind \in {"addFields", "rejectAndReviseFields"}
    THEN {q.list[i].id : i \in DOMAIN q.list} ELSE {}

IsBatch(q) == Len(q.list) > 1

\* Fields of the new task that another one under way works on, where either
\* of them keeps an answer until it has all of them.
Overlap(t, q) ==
    UNION {Touches(q) \intersect Touches(tasks[s]) :
             s \in {u \in Tasks \ {t} : IsBatch(q) \/ IsBatch(tasks[u])}}

\* A call of the page, whose first request is accepted.  One that is refused
\* at once is rejected and changes nothing.
Begin(t, q) ==
    /\ tasks[t] = Idle /\ \A s \in 1 .. t - 1 : tasks[s] # Idle
    /\ calls < MaxCalls
    /\ UNCHANGED channel
    /\ CanSend(RequestOf(t, q)) /\ Send(RequestOf(t, q))
    /\ tasks' = [tasks EXCEPT ![t] = q]
    /\ calls' = calls + 1
    /\ torn' = torn \union Overlap(t, q)
    /\ late' = (late \/ \E s \in Tasks \ {t} :
                            tasks[s] # Idle /\ "save" \in {q.kind, tasks[s].kind})
    /\ UNCHANGED <<replies, record, account, granted>>

-----------------------------------------------------------------------------
(* The page's calls                                                        *)
NewTask(kind, list) == [Idle EXCEPT !.kind = kind, !.list = list]
Active == phase = "open" /\ active

\* BerytusChannel.login, for a page that only registers.
Login(t) ==
    /\ phase = "none"
    /\ Begin(t, NewTask("login", <<NoItem, NoItem>>))
    /\ phase' = "creating"
    /\ UNCHANGED <<active, objects, authMetadata>>

Call(t, q) == Begin(t, q) /\ UNCHANGED <<phase, active, objects, authMetadata>>

AddFields(t, ids) ==
    /\ Active
    /\ Call(t, NewTask("addFields", [i \in DOMAIN ids |->
                 [id |-> ids[i], value |-> values[ids[i]]]]))

\* A field given by its id has to be in the map; an object need not be.
RejectAndReviseFields(t, list, asObjects) ==
    /\ Active
    /\ asObjects \/ \A i \in DOMAIN list : list[i].id \in fields
    /\ Call(t, NewTask("rejectAndReviseFields", list))

\* The setters send the whole record as the page has it.
SetVersion(t, v) ==
    /\ Active
    /\ Call(t, [NewTask("setMetadata", <<NoItem>>) EXCEPT
                  !.metadata = [metadata EXCEPT !.version = v]])

SetStatus(t, s) ==
    /\ Active
    /\ Call(t, [NewTask("setMetadata", <<NoItem>>) EXCEPT
                  !.metadata = [metadata EXCEPT !.status = s]])

SetUserAttributes(t, id, v) ==
    /\ Active
    /\ Call(t, NewTask("setUserAttributes", <<[id |-> id, value |-> v]>>))

Save(t) == Active /\ Call(t, NewTask("save", <<NoItem>>))

\* The only call of the operation that does not ask whether it is active.
TransitionToAuthOperation(t) ==
    /\ phase = "open" /\ authMetadata = Null
    /\ Call(t, NewTask("transitionToAuthOperation", <<NoItem, NoItem>>))

CloseChannel(t) == Call(t, NewTask("close", <<NoItem>>))

-----------------------------------------------------------------------------
(* The manager                                                             *)
Serving(method) == call # NoCall /\ call.method = method

Reject ==
    /\ call # NoCall
    /\ replies' = IF call.task = 0 THEN replies
                  ELSE Append(replies, [task |-> call.task, ok |-> FALSE, value |-> Null])
    /\ call' = NoCall
    /\ known' = IF call.method = "addField" THEN known \ {call.item.id} ELSE known
    /\ UNCHANGED <<page, tasks, record, account, granted, torn, late, calls>>

Resolve(value) ==
    /\ replies' = Append(replies, [task |-> call.task, ok |-> TRUE, value |-> value])
    /\ call' = NoCall
    /\ UNCHANGED <<page, tasks, known, torn, late, calls>>

ApproveOperation ==
    /\ Serving("approveOperation") /\ Resolve(Null)
    /\ granted' = TRUE
    /\ UNCHANGED <<record, account>>

\* Reads what arrives as it is: nothing changes it on the way.
GetRecord ==
    /\ Serving("getUserAttributes") \/ Serving("getRecordMetadata")
    /\ Resolve(Null)
    /\ UNCHANGED <<record, account, granted>>

\* A field gets the value it was constructed with, or one the manager makes.
AddField ==
    /\ Serving("addField")
    /\ \E v \in IF call.item.value = Null THEN Values ELSE {call.item.value} :
        /\ Resolve(v)
        /\ record' = [record EXCEPT !.fields[call.item.id] = v]
    /\ UNCHANGED <<account, granted>>

\* The value the page gave, or another one than it had.
RejectFieldValue ==
    /\ Serving("rejectFieldValue")
    /\ \E v \in IF call.item.value = Null THEN Values \ {record.fields[call.item.id]}
                ELSE {call.item.value} :
        /\ Resolve(v)
        /\ record' = [record EXCEPT !.fields[call.item.id] = v]
    /\ UNCHANGED <<account, granted>>

UpdateRecord ==
    /\ Serving("updateMetadata") \/ Serving("updateUserAttributes")
    /\ Resolve(Null)
    /\ record' = IF call.method = "updateMetadata"
                 THEN [record EXCEPT !.metadata = call.metadata]
                 ELSE [record EXCEPT !.attributes[call.item.id] = call.item.value]
    /\ UNCHANGED <<account, granted>>

\* The account is what the session's record is now.
CloseOperation ==
    /\ Serving("closeOperation") /\ Resolve(Null)
    /\ account' = record
    /\ UNCHANGED <<record, granted>>

ApproveTransitionToAuthOp ==
    /\ Serving("approveTransitionToAuthOp")
    /\ account # NoAccount
    /\ Resolve(Null)
    /\ UNCHANGED <<record, account, granted>>

HandleCloseChannel ==
    /\ Serving("closeChannel") /\ Resolve(Null)
    /\ UNCHANGED <<record, account, granted>>

\* Another page has the manager serve a request, and then has its answer.
ServeAnother ==
    /\ call = NoCall
    /\ call' = [task |-> 0, method |-> "getRecordMetadata", item |-> NoItem,
                metadata |-> PageDefault]
    /\ UNCHANGED <<page, tasks, replies, manager, torn, late, calls>>

Grant ==
    /\ call # NoCall /\ call.task # 0
    /\ \/ ApproveOperation \/ GetRecord \/ AddField \/ RejectFieldValue \/ UpdateRecord
       \/ CloseOperation \/ ApproveTransitionToAuthOp \/ HandleCloseChannel

-----------------------------------------------------------------------------
(* Answers arrive                                                          *)
Heard(t) == replies # <<>> /\ Head(replies).task = t
Latest(t) == Append(tasks[t].got, Head(replies).value)
IsLast(t) == Len(Latest(t)) = Len(tasks[t].list)

\* A call of several steps that fails leaves what the manager has done.
End(t, got) ==
    /\ tasks' = [tasks EXCEPT ![t] = Idle]
    /\ phase' = IF tasks[t].kind # "login" THEN phase
                ELSE IF got = Len(tasks[t].list) THEN "open" ELSE "failed"
    /\ torn' = IF got \in {0, Len(tasks[t].list)} THEN torn
               ELSE torn \union Touches([tasks[t] EXCEPT !.list = SubSeq(@, 1, got)])

Rejected(t) ==
    /\ Heard(t) /\ ~ Head(replies).ok
    /\ replies' = Tail(replies)
    /\ End(t, Len(tasks[t].got))
    /\ UNCHANGED <<channel, active, objects, authMetadata, call, manager, late, calls>>

\* Mutant of the next definition: a refusal of the next request is not heard.
ProceedIfFree(t, q) ==
    IF CanSend(RequestOf(t, q))
    THEN Send(RequestOf(t, q)) /\ tasks' = [tasks EXCEPT ![t] = q] /\ UNCHANGED <<phase, torn>>
    ELSE UNCHANGED <<phase, torn, tasks, call, known>>

\* The next request of the task, which may be refused as any other.
Proceed(t, q) ==
    IF CanSend(RequestOf(t, q))
    THEN Send(RequestOf(t, q)) /\ tasks' = [tasks EXCEPT ![t] = q] /\ UNCHANGED <<phase, torn>>
    ELSE End(t, Len(q.got)) /\ UNCHANGED <<call, known>>

\* The transition is approved: the operation is closed before the new one asks
\* for its metadata.
Continued(t) ==
    /\ Heard(t) /\ Head(replies).ok /\ ~ IsLast(t)
    /\ replies' = Tail(replies)
    /\ UNCHANGED <<channel, objects, authMetadata, record, account, granted, late, calls>>
    /\ Proceed(t, [tasks[t] EXCEPT !.got = Latest(t)])
    /\ active' = IF tasks[t].kind = "login" THEN TRUE
                 ELSE IF tasks[t].kind = "transitionToAuthOperation" THEN FALSE ELSE active

\* addFields: an object that has a value by now keeps it.
Added(q, got) ==
    /\ fields' = fields \union Touches(q)
    /\ values' = [f \in Fields |->
           IF values[f] = Null /\ f \in Touches(q)
           THEN got[CHOOSE i \in DOMAIN q.list : q.list[i].id = f] ELSE values[f]]

\* Mutant of the next definition: the value the manager made is not taken over.
RevisedToOwn(q, got) ==
    /\ values' = [f \in Fields |->
           IF \E i \in DOMAIN q.list : q.list[i].id = f /\ q.list[i].value # Null
           THEN q.list[CHOOSE i \in DOMAIN q.list : q.list[i].id = f].value ELSE values[f]]
    /\ UNCHANGED fields

\* rejectAndReviseFields: the page's value, or the manager's; the last of a
\* field counts.
Revised(q, got) ==
    /\ values' = [f \in Fields |->
           IF f \notin Touches(q) THEN values[f]
           ELSE LET i == CHOOSE i \in DOMAIN q.list :
                            /\ q.list[i].id = f
                            /\ \A j \in DOMAIN q.list : q.list[j].id = f => j <= i
                IN  IF q.list[i].value = Null THEN got[i] ELSE q.list[i].value]
    /\ UNCHANGED fields

Updated(q) == metadata' = q.metadata

\* What PopulateMetadata makes of a version, static_cast<uint8_t>.
VersionRead(v) == IF v < 256 THEN {v} ELSE {v % 256, 0, 255}

PopulatedAttributes == attributes' = record.attributes

\* Mutant of the next definition: the operation stays active.
EndsNothing(q) == q.kind = "none"

EndsTheOperation(q) == q.kind = "save"

Completed(t) ==
    LET q == tasks[t]
    IN  /\ Heard(t) /\ Head(replies).ok /\ IsLast(t)
        /\ replies' = Tail(replies)
        /\ End(t, Len(q.list))
        /\ channel' = (channel /\ q.kind # "close")
        /\ active' = (active /\ ~ EndsTheOperation(q))
        /\ IF q.kind = "addFields" THEN Added(q, Latest(t))
           ELSE IF q.kind = "rejectAndReviseFields" THEN Revised(q, Latest(t))
           ELSE UNCHANGED <<fields, values>>
        /\ IF q.kind = "setMetadata" THEN Updated(q) ELSE UNCHANGED metadata
        /\ IF q.kind = "login" THEN PopulatedAttributes
           ELSE IF q.kind = "setUserAttributes"
           THEN attributes' = [attributes EXCEPT ![q.list[1].id] = q.list[1].value]
           ELSE UNCHANGED attributes
        /\ IF q.kind # "transitionToAuthOperation" THEN UNCHANGED authMetadata
           ELSE \E v \in VersionRead(account.metadata.version) :
                    authMetadata' = [account.metadata EXCEPT !.version = v]
        /\ UNCHANGED <<call, manager, late, calls>>

Hear(t) == Rejected(t) \/ Continued(t) \/ Completed(t)

Next ==
    \/ \E t \in Tasks :
        \/ Login(t) \/ Save(t) \/ TransitionToAuthOperation(t) \/ CloseChannel(t)
        \/ \E ids \in Additions : AddFields(t, ids)
        \/ \E list \in Revisions, asObjects \in BOOLEAN :
              RejectAndReviseFields(t, list, asObjects)
        \/ \E v \in Versions : SetVersion(t, v)
        \/ \E s \in Statuses : SetStatus(t, s)
        \/ \E a \in UserAttributes, v \in Values : SetUserAttributes(t, a, v)
        \/ Hear(t)
    \/ Grant \/ Reject \/ ServeAnother

Spec == Init /\ [][Next]_vars

\* The manager answers what it serves, and the page hears it.
FairSpec == Spec /\ WF_vars(Grant \/ Reject) /\ WF_vars(\E t \in Tasks : Hear(t))

-----------------------------------------------------------------------------
(* Properties                                                              *)
\* A field that no call under way works on, and that was not in a call that
\* failed half way or overlapped another one, is in the page's map exactly when
\* the manager has it, and with the manager's value.
FieldsAgree ==
    \A f \in Fields \ torn :
        (\A t \in Tasks : f \notin Touches(tasks[t])) =>
            /\ f \in fields <=> record.fields[f] # Null
            /\ f \in fields => values[f] = record.fields[f]

\* Once the page has set some metadata, both sides have the same, whichever
\* setters overlapped, were refused or rejected.
MetadataAgrees ==
    record.metadata # RecordDefault /\ (\A t \in Tasks : tasks[t].kind # "setMetadata") =>
        metadata = record.metadata

\* The page of an operation sees the user attributes the manager has.
AttributesAgree ==
    phase = "open" /\ (\A t \in Tasks : tasks[t].kind # "setUserAttributes") =>
        attributes = record.attributes

\* The page's objects are the record's, and everything has its type.
PageInv == TypeOK /\ FieldsAgree /\ AttributesAgree

\* The account is the record the page had built when save was its only call
\* under way, but for fields it does not know of.
AccountIsTheRecord ==
    account # NoAccount /\ ~ late /\ (\A t \in Tasks : tasks[t].kind # "save") =>
        \A f \in Fields \ torn :
            account.fields[f] = IF f \in fields THEN values[f] ELSE Null

\* What the page has set is what both sides have, and what is saved.
RecordIsAsBuilt == MetadataAgrees /\ AccountIsTheRecord

\* Every call is settled, whoever else the manager serves.
CallsAreSettled == \A t \in Tasks : tasks[t] # Idle ~> tasks[t] = Idle
=============================================================================
