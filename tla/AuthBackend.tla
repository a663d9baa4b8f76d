---------------------------- MODULE AuthBackend ----------------------------
(***************************************************************************)
(* The relying party's authentication backend (web-app/src/backend and     *)
(* web-app/src/pages/login): one authentication session, the challenges    *)
(* its account version defines, and the HTTP requests that drive them.     *)
(*                                                                         *)
(* A request handler is a sequence of SQL statements with awaits between   *)
(* them, and every statement is its own READ COMMITTED transaction         *)
(* (pool.ts, useConnection), so one action below is one statement, or one  *)
(* stretch of handler code between two statements.  Requests of the same   *)
(* session run concurrently on Workers; a worker serves any number of      *)
(* requests, one after the other.                                          *)
(***************************************************************************)
EXTENDS Naturals, FiniteSets

CONSTANTS
    Challenges,     \* the challenge ids defined for the account version
    ChallengeType,  \* their types, [Challenges -> HandledTypes]
    Nonces,         \* the nonces randomBytes may return
    Workers         \* the requests that may be served at the same time

\* The challenge types getHandlerCtor knows a handler for.
HandledTypes == {"Password", "DigitalSignature"}

ASSUME ChallengesAssumption ==
    /\ Challenges # {}
    /\ ChallengeType \in [Challenges -> HandledTypes]

MessageNames == {"GetPasswordFields", "SelectKey", "SignNonce"}
NoMessage == "no message"

\* ValidMessages: the messages of a challenge type; SelectKey comes first.
MessageDefs(c) ==
    IF ChallengeType[c] = "Password" THEN {"GetPasswordFields"}
                                     ELSE {"SelectKey", "SignNonce"}

\* The message definitions that come before n.
Preceding(n) == IF n = "SignNonce" THEN {"SelectKey"} ELSE {}

(***************************************************************************)
(* A message row: StatusMsg ("null" while the response is pending) and the *)
(* answer that validates, which is the stored password or public key, or a *)
(* signature over the nonce in the row's Request.                          *)
(***************************************************************************)
Stored == "stored credential"
Wrong == "wrong answer"
NoAnswer == "no answer"

ASSUME NoncesAssumption == Nonces \cap {Stored, Wrong, NoAnswer} = {}

Row == [status : {"absent", "null", "Ok", "Error"},
        expect : Nonces \union {Stored, NoAnswer}]
AbsentRow == [status |-> "absent", expect |-> NoAnswer]
NoRows == [n \in MessageNames |-> AbsentRow]

Present(rows) == {n \in MessageNames : rows[n].status # "absent"}
Completed(rows) == {n \in MessageNames : rows[n].status \in {"Ok", "Error"}}
AwaitingResponse(rows) == {n \in MessageNames : rows[n].status = "null"}
Expected(rows) == {rows[n].expect : n \in AwaitingResponse(rows)}

(***************************************************************************)
(* A request: what the client asks for.  An answer is sent for the message *)
(* the client believes to be pending; the URL does not name the message.   *)
(***************************************************************************)
Finish == [kind |-> "finish", ch |-> CHOOSE c \in Challenges : TRUE,
           msg |-> NoMessage, answer |-> NoAnswer]

Operation ==
    {Finish}
    \union
    [kind : {"new", "pending-message"}, ch : Challenges,
     msg : {NoMessage}, answer : {NoAnswer}]
    \union
    [kind : {"respond-message"}, ch : Challenges,
     msg : MessageNames, answer : Nonces \union {Stored, Wrong}]

NoVisible == [challenge |-> FALSE, messages |-> {}]

VARIABLES
    session,    \* Outcome of the session row
    challenge,  \* Outcome of each challenge row, "absent" if there is none
    message,    \* the message rows of each challenge
    pc,         \* the next statement of each worker
    op,         \* the request a worker serves
    final,      \* handler.existingFinalMessages
    draft,      \* handler.prospectiveMessages
    visible,    \* the rows the snapshot of the worker's upsert sees
    todo,       \* the challenge definitions finish has not looked at
    judged,     \* the message whose response the worker found wrong
    shown,      \* history: the nonces pending-message returned
    wronged,    \* history: challenges some client sent a wrong answer to
    refuted,    \* history: messages whose wrong response was fully served
    accepted,   \* history: how many responses to a message got a 200
    logins      \* history: how many finish requests got a 200

db == <<session, challenge, message>>
memory == <<op, final, draft, visible, todo, judged>>
history == <<shown, wronged, refuted, accepted, logins>>
vars == <<db, pc, memory, history>>

Steps == {"idle", "validate_session", "validate_new", "validate_challenge",
          "setup_session", "setup_challenge", "setup_messages", "respond",
          "save", "upsert", "finish_session", "finish_checks",
          "finish_update"}

TypeOK ==
    /\ session \in {"Pending", "Succeeded"}
    /\ challenge \in [Challenges -> {"absent", "Pending", "Aborted", "Succeeded"}]
    /\ message \in [Challenges -> [MessageNames -> Row]]
    /\ pc \in [Workers -> Steps]
    /\ op \in [Workers -> Operation]
    /\ final \in [Workers -> [MessageNames -> Row]]
    /\ draft \in [Workers -> [MessageNames -> Row]]
    /\ visible \in [Workers -> [challenge : BOOLEAN, messages : SUBSET MessageNames]]
    /\ todo \in [Workers -> SUBSET Challenges]
    /\ judged \in [Workers -> MessageNames \union {NoMessage}]
    /\ shown \in [Challenges -> SUBSET Nonces]
    /\ wronged \subseteq Challenges
    /\ refuted \subseteq Challenges \X MessageNames
    /\ accepted \in [Challenges -> [MessageNames -> 0 .. 2]]
    /\ logins \in 0 .. 2

-----------------------------------------------------------------------------
Init ==
    /\ session = "Pending"
    /\ challenge = [c \in Challenges |-> "absent"]
    /\ message = [c \in Challenges |-> NoRows]
    /\ pc = [w \in Workers |-> "idle"]
    /\ op = [w \in Workers |-> Finish]
    /\ final = [w \in Workers |-> NoRows]
    /\ draft = [w \in Workers |-> NoRows]
    /\ visible = [w \in Workers |-> NoVisible]
    /\ todo = [w \in Workers |-> {}]
    /\ judged = [w \in Workers |-> NoMessage]
    /\ shown = [c \in Challenges |-> {}]
    /\ wronged = {}
    /\ refuted = {}
    /\ accepted = [c \in Challenges |-> [n \in MessageNames |-> 0]]
    /\ logins = 0

Goto(w, step) == pc' = [pc EXCEPT ![w] = step]

\* The request of w ends: its memory is gone, a judged response was served.
Forget(w) ==
    /\ pc' = [pc EXCEPT ![w] = "idle"]
    /\ op' = [op EXCEPT ![w] = Finish]
    /\ final' = [final EXCEPT ![w] = NoRows]
    /\ draft' = [draft EXCEPT ![w] = NoRows]
    /\ visible' = [visible EXCEPT ![w] = NoVisible]
    /\ todo' = [todo EXCEPT ![w] = {}]
    /\ judged' = [judged EXCEPT ![w] = NoMessage]

Answer(w) ==
    /\ Forget(w)
    /\ refuted' = IF judged[w] = NoMessage THEN refuted
                  ELSE refuted \union {<<op[w].ch, judged[w]>>}

\* An error response, or an exception that ends the request.
Fail(w) ==
    /\ Answer(w)
    /\ UNCHANGED <<db, shown, wronged, accepted, logins>>

(***************************************************************************)
(* Requests arrive, and are lost with their server process.                *)
(***************************************************************************)
\* A signature can only be over a nonce the client was shown.
Sendable(o) ==
    /\ o.kind = "respond-message" => o.msg \in MessageDefs(o.ch)
    /\ o.answer \in Nonces => o.msg = "SignNonce" /\ o.answer \in shown[o.ch]
    /\ o.answer = Stored => o.msg # "SignNonce"

Receive(w) ==
    /\ pc[w] = "idle"
    /\ \E o \in Operation :
        /\ Sendable(o)
        /\ op' = [op EXCEPT ![w] = o]
        /\ Goto(w, IF o.kind = "finish" THEN "finish_session"
                                        ELSE "validate_session")
        /\ wronged' = IF o.answer = Wrong THEN wronged \union {o.ch} ELSE wronged
    /\ UNCHANGED <<db, final, draft, visible, todo, judged, shown,
                   refuted, accepted, logins>>

\* The server process stops between two statements of w.
Crash(w) ==
    /\ pc[w] # "idle"
    /\ Forget(w)
    /\ UNCHANGED <<db, history>>

(***************************************************************************)
(* The state validation of the endpoints (utils.state-validation.ts).      *)
(***************************************************************************)
ValidatePendingSessionState(w) ==
    /\ pc[w] = "validate_session"
    /\ \/ /\ session # "Pending"
          /\ Fail(w)
       \/ /\ session = "Pending"
          /\ Goto(w, CASE op[w].kind = "new" -> "validate_new"
                       [] op[w].kind = "respond-message" -> "validate_challenge"
                       [] OTHER -> "setup_session")
          /\ UNCHANGED <<db, memory, history>>

ValidateNewChallengeState(w) ==
    /\ pc[w] = "validate_new"
    /\ \/ /\ challenge[op[w].ch] # "absent"
          /\ Fail(w)
       \/ /\ challenge[op[w].ch] = "absent"
          /\ Goto(w, "setup_session")
          /\ UNCHANGED <<db, memory, history>>

ValidatePendingChallengeState(w) ==
    /\ pc[w] = "validate_challenge"
    /\ \/ /\ challenge[op[w].ch] # "Pending"
          /\ Fail(w)
       \/ /\ challenge[op[w].ch] = "Pending"
          /\ Goto(w, "setup_session")
          /\ UNCHANGED <<db, memory, history>>

(***************************************************************************)
(* setupChallenge reads the session, the challenge and the messages in     *)
(* three statements and then drafts a message if none is pending.          *)
(***************************************************************************)
SetupSession(w) ==
    /\ pc[w] = "setup_session"
    /\ \/ /\ session # "Pending"
          /\ Fail(w)
       \/ /\ session = "Pending"
          /\ Goto(w, "setup_challenge")
          /\ UNCHANGED <<db, memory, history>>

SetupChallenge(w) ==
    /\ pc[w] = "setup_challenge"
    /\ \/ /\ challenge[op[w].ch] \notin {"Pending", "absent"}
          /\ Fail(w)
       \/ /\ challenge[op[w].ch] \in {"Pending", "absent"}
          /\ Goto(w, "setup_messages")
          /\ UNCHANGED <<db, memory, history>>

\* draftNextMessage of the two handlers, given the processed messages.
PasswordDraft(processed) ==
    IF "GetPasswordFields" \in processed THEN NoMessage ELSE "GetPasswordFields"

SignatureDraft(processed) ==
    IF "SignNonce" \in processed THEN NoMessage
    ELSE IF "SelectKey" \in processed THEN "SignNonce" ELSE "SelectKey"

DraftNextMessage(c, processed) ==
    IF ChallengeType[c] = "Password" THEN PasswordDraft(processed)
                                     ELSE SignatureDraft(processed)

NextDraft(c, old, new) ==
    IF AwaitingResponse(new) # {} THEN NoMessage
    ELSE DraftNextMessage(c, Completed(old) \union Completed(new))

\* ensurePendingMessage: new with the next draft appended; x is randomBytes().
EnsurePendingMessage(c, old, new, x) ==
    LET next == NextDraft(c, old, new)
    IN  IF next = NoMessage THEN new
        ELSE [new EXCEPT ![next] =
                [status |-> "null",
                 expect |-> IF next = "SignNonce" THEN x ELSE Stored]]

\* The nonces some row, some handler or some client still holds.
NoncesInUse ==
    LET held(rows) == {rows[n].expect : n \in MessageNames}
    IN  UNION ({held(message[c]) : c \in Challenges}
               \union {held(draft[w]) : w \in Workers}
               \union {held(final[w]) : w \in Workers}
               \union {shown[c] : c \in Challenges})

\* randomBytes is only called for SignNonce, and never returns a nonce that
\* is in use; one nobody holds any more is as good as a new one.
Draws(c, old, new, x) ==
    IF NextDraft(c, old, new) = "SignNonce" THEN x \in Nonces \ NoncesInUse
                                            ELSE x = NoAnswer

\* The handler's constructor: the rows that are answered, and the one that waits.
ExistingFinalMessages(rows) ==
    [n \in MessageNames |-> IF n \in Completed(rows) THEN rows[n] ELSE AbsentRow]
ProspectiveMessages(rows) ==
    [n \in MessageNames |-> IF n \in AwaitingResponse(rows) THEN rows[n] ELSE AbsentRow]

\* getAllMessages, the handler's constructor and its first ensurePendingMessage.
SetupMessages(w) ==
    LET c == op[w].ch
        old == ExistingFinalMessages(message[c])
        new == ProspectiveMessages(message[c])
    IN
    /\ pc[w] = "setup_messages"
    /\ \E x \in Nonces \union {NoAnswer} :
        /\ Draws(c, old, new, x)
        /\ \/ /\ op[w].kind # "pending-message"
              /\ final' = [final EXCEPT ![w] = old]
              /\ draft' = [draft EXCEPT ![w] = EnsurePendingMessage(c, old, new, x)]
              /\ Goto(w, IF op[w].kind = "new" THEN "save" ELSE "respond")
              /\ UNCHANGED <<op, visible, todo, judged, shown, refuted>>
           \/ /\ op[w].kind = "pending-message"
              /\ shown' = [shown EXCEPT ![c] = @ \union
                    (Expected(EnsurePendingMessage(c, old, new, x)) \cap Nonces)]
              /\ Answer(w)
    /\ UNCHANGED <<db, wronged, accepted, logins>>

\* Mutant: the processed message is not followed by the next draft.
DraftAfterNothing(c, old, new, x) == new

\* What processPendingMessageResponse leaves for save(): the judged message
\* and the draft of the next one.
DraftAfter(c, old, new, x) == EnsurePendingMessage(c, old, new, x)

(***************************************************************************)
(* respond-message: processPendingMessageResponse judges the answer, sets  *)
(* the status in memory and drafts the next message.                       *)
(***************************************************************************)
\* validateMessageResponse
Judge(row, answer) == IF answer = row.expect THEN "Ok" ELSE "Error"

ProcessPendingMessageResponse(w) ==
    /\ pc[w] = "respond"
    /\ \/ /\ op[w].msg \notin AwaitingResponse(draft[w])   \* none, or does not parse
          /\ Fail(w)
       \/ LET c == op[w].ch
              n == op[w].msg
              status == Judge(draft[w][n], op[w].answer)
              new == [draft[w] EXCEPT ![n].status = status]
          IN
          /\ n \in AwaitingResponse(draft[w])
          /\ judged' = [judged EXCEPT ![w] = IF status = "Error" THEN n ELSE NoMessage]
          /\ \E x \in Nonces \union {NoAnswer} :
                /\ Draws(c, final[w], new, x)
                /\ draft' = [draft EXCEPT ![w] = DraftAfter(c, final[w], new, x)]
          /\ Goto(w, "save")
          /\ UNCHANGED <<db, op, final, visible, todo,
                         shown, wronged, refuted, accepted, logins>>

(***************************************************************************)
(* UpsertChallengeAndMessages.  validateInput refuses a batch in which a   *)
(* message other than the last is not Ok; otherwise the statement takes    *)
(* its snapshot, waits for the lock of the session row, and then writes.   *)
(***************************************************************************)
\* The messages of a batch after which another one follows.
NotLast(rows) == {n \in Present(rows) : \E m \in Present(rows) : n \in Preceding(m)}

ValidInput(rows) ==
    /\ Present(rows) # {}
    /\ \A n \in NotLast(rows) : rows[n].status = "Ok"

\* The definitions before the first message of the batch.
ExpectedPrevious(rows) ==
    (UNION {Preceding(n) : n \in Present(rows)}) \ Present(rows)

\* Mutant: stores the status of the last message as the outcome.
AuthOutcomeOfStatus(c, rows) ==
    IF AwaitingResponse(rows) # {} THEN "Pending"
    ELSE IF \E n \in Present(rows) : rows[n].status = "Error" THEN "Error"
    ELSE "Succeeded"

\* authOutcome
AuthOutcome(c, rows) ==
    IF \E n \in Present(rows) : rows[n].status = "Error" THEN "Aborted"
    ELSE IF /\ AwaitingResponse(rows) = {}
            /\ ExpectedPrevious(rows) \union Present(rows) = MessageDefs(c)
         THEN "Succeeded"
         ELSE "Pending"

TakeSnapshot(w) ==
    /\ pc[w] = "save"
    /\ \/ /\ ~ ValidInput(draft[w])
          /\ Fail(w)
       \/ /\ ValidInput(draft[w])
          /\ visible' = [visible EXCEPT ![w] =
                [challenge |-> challenge[op[w].ch] # "absent",
                 messages |-> Present(message[op[w].ch])]]
          /\ Goto(w, "upsert")
          /\ UNCHANGED <<db, op, final, draft, todo, judged, history>>

\* Mutant: only looks at the outcomes, not at the message rows.
ShouldWriteUnchecked(w) ==
    /\ session = "Pending"
    /\ visible[w].challenge => challenge[op[w].ch] = "Pending"

\* cte_should_write: the rows are those of the snapshot, in their latest
\* version, since FOR UPDATE re-reads a row once it holds its lock.
ShouldWrite(w) ==
    LET c == op[w].ch
        seen == visible[w].messages
    IN
    /\ session = "Pending"
    /\ visible[w].challenge => challenge[c] = "Pending"
    /\ \A n \in seen : message[c][n].status # "Error"
    /\ {n \in seen : message[c][n].status = "Ok"} = ExpectedPrevious(draft[w])
    /\ \A n \in seen \cap Present(draft[w]) : message[c][n].status = "null"

\* Mutant: conflicting rows are overwritten instead.
UniqueViolationIgnored(w) == FALSE

\* A row inserted since the snapshot violates the primary key.
UniqueViolation(w) ==
    LET c == op[w].ch
    IN  \/ ~ visible[w].challenge /\ challenge[c] # "absent"
        \/ \E n \in Present(draft[w]) \ visible[w].messages :
                message[c][n].status # "absent"

(***************************************************************************)
(* The row the statement returns, "absent" for a NULL column, and the      *)
(* debug assertions about it.                                              *)
(***************************************************************************)
Result(w) ==
    LET c == op[w].ch
        seen == visible[w]
        outcome == AuthOutcome(c, draft[w])
        existing == IF seen.challenge THEN challenge[c] ELSE "absent"
        rows == IF ShouldWrite(w) THEN Present(draft[w]) ELSE {}
    IN  [written |-> ShouldWrite(w),
         existingChallenge |-> existing,
         insertedChallenge |->
            IF ShouldWrite(w) /\ existing = "absent" THEN outcome ELSE "absent",
         updatedOutcome |->
            IF /\ ShouldWrite(w) /\ rows # {}
               /\ existing = "Pending" /\ outcome # "Pending"
            THEN outcome ELSE "absent",
         inserted |-> rows \ seen.messages,
         updated |-> {n \in rows \cap seen.messages : message[c][n].status = "null"},
         previousNonOk |-> {n \in seen.messages : message[c][n].status = "Error"}]

\* Nothing is written, or all of the batch over rows that are all Ok.
AssertWritten(w, row) ==
    IF row.written
    THEN /\ Cardinality(row.inserted) + Cardinality(row.updated)
                = Cardinality(Present(draft[w]))
         /\ row.previousNonOk = {}
    ELSE /\ row.insertedChallenge = "absent" /\ row.updatedOutcome = "absent"
         /\ row.inserted = {} /\ row.updated = {}

AssertInsertedChallenge(w, row) ==
    row.insertedChallenge # "absent" =>
        /\ row.written
        /\ row.existingChallenge # "Pending"
        /\ row.insertedChallenge = AuthOutcome(op[w].ch, draft[w])

AssertUpdatedOutcome(w, row) ==
    row.updatedOutcome # "absent" =>
        /\ row.written
        /\ row.updatedOutcome \in {"Aborted", "Succeeded"}
        /\ row.updatedOutcome = AuthOutcome(op[w].ch, draft[w])

AssertExistingChallenge(row) ==
    row.existingChallenge # "absent" => row.insertedChallenge = "absent"

\* Every message is inserted or updated, and not both.
AssertMessages(w, row) ==
    row.written => \A n \in Present(draft[w]) : (n \in row.inserted) # (n \in row.updated)

DebugAssert(w) ==
    LET row == Result(w)
    IN  /\ AssertWritten(w, row)
        /\ AssertInsertedChallenge(w, row)
        /\ AssertUpdatedOutcome(w, row)
        /\ AssertExistingChallenge(row)
        /\ AssertMessages(w, row)

AtMostTwo(i) == IF i > 2 THEN 2 ELSE i

Write(w) ==
    LET c == op[w].ch
        n == op[w].msg
    IN
    /\ challenge' = [challenge EXCEPT ![c] = AuthOutcome(c, draft[w])]
    /\ message' = [message EXCEPT ![c] =
            [m \in MessageNames |-> IF m \in Present(draft[w]) THEN draft[w][m] ELSE @[m]]]
    /\ accepted' = IF op[w].kind # "respond-message" THEN accepted
                   ELSE [accepted EXCEPT ![c][n] = AtMostTwo(@ + 1)]
    /\ Answer(w)
    /\ UNCHANGED <<session, shown, wronged, logins>>

Upsert(w) ==
    /\ pc[w] = "upsert"
    /\ \/ ShouldWrite(w) /\ ~ UniqueViolation(w) /\ Write(w)
       \/ ~ (ShouldWrite(w) /\ ~ UniqueViolation(w)) /\ Fail(w)

(***************************************************************************)
(* finish: the challenges are read one statement at a time, and the        *)
(* session row is updated in a last one.                                   *)
(***************************************************************************)
FinishSession(w) ==
    /\ pc[w] = "finish_session"
    /\ \/ /\ session # "Pending"
          /\ Fail(w)
       \/ /\ session = "Pending"
          /\ todo' = [todo EXCEPT ![w] = Challenges]
          /\ Goto(w, "finish_checks")
          /\ UNCHANGED <<db, op, final, draft, visible, judged, history>>

\* Mutant: a pending challenge does not stop finish.
MissingUnlessPending(c) == challenge[c] \in {"absent", "Aborted"}

\* The challenge was not initiated, was aborted, or is pending.
Missing(c) == challenge[c] # "Succeeded"

FinishCheck(w) ==
    /\ pc[w] = "finish_checks"
    /\ \E c \in todo[w] :
        \/ /\ Missing(c)
           /\ Fail(w)
        \/ /\ ~ Missing(c)
           /\ todo' = [todo EXCEPT ![w] = @ \ {c}]
           /\ Goto(w, IF todo[w] = {c} THEN "finish_update" ELSE "finish_checks")
           /\ UNCHANGED <<db, op, final, draft, visible, judged, history>>

\* Mutant: the UPDATE does not require the outcome to be Pending.
FinishUpdateAnyway(w) ==
    /\ pc[w] = "finish_update"
    /\ session' = "Succeeded"
    /\ logins' = AtMostTwo(logins + 1)
    /\ Answer(w)
    /\ UNCHANGED <<challenge, message, shown, wronged, accepted>>

FinishUpdate(w) ==
    /\ pc[w] = "finish_update"
    /\ \/ /\ session # "Pending"
          /\ Fail(w)
       \/ /\ session = "Pending"
          /\ session' = "Succeeded"
          /\ logins' = AtMostTwo(logins + 1)
          /\ Answer(w)
          /\ UNCHANGED <<challenge, message, shown, wronged, accepted>>

-----------------------------------------------------------------------------
Serve(w) ==
    \/ ValidatePendingSessionState(w)
    \/ ValidateNewChallengeState(w)
    \/ ValidatePendingChallengeState(w)
    \/ SetupSession(w)
    \/ SetupChallenge(w)
    \/ SetupMessages(w)
    \/ ProcessPendingMessageResponse(w)
    \/ TakeSnapshot(w)
    \/ Upsert(w)
    \/ FinishSession(w)
    \/ FinishCheck(w)
    \/ FinishUpdate(w)

Next == \E w \in Workers : Receive(w) \/ Crash(w) \/ Serve(w)

Spec == Init /\ [][Next]_vars

-----------------------------------------------------------------------------
(***************************************************************************)
(* Safety                                                                  *)
(***************************************************************************)
\* finish() only lets a session succeed when every challenge of the account
\* version has, though it reads their outcomes in separate statements and
\* the final UPDATE does not look at them (AuthSession.ts:95 TODO).
SessionNeedsChallenges ==
    session = "Succeeded" => \A c \in Challenges : challenge[c] = "Succeeded"

\* A challenge row and its message rows tell the same story: succeeded with
\* all messages Ok, aborted with the last message in error, pending with
\* exactly the last message waiting, and absent without any message.
ChallengeTells(c) ==
    LET rows == message[c]
        okBefore(n) == \A m \in Preceding(n) : rows[m].status = "Ok"
        noneAfter(n) == \A m \in Present(rows) : n \notin Preceding(m)
        last(n, status) == rows[n].status = status /\ okBefore(n) /\ noneAfter(n)
    IN
    /\ Present(rows) \subseteq MessageDefs(c)
    /\ CASE challenge[c] = "absent" -> Present(rows) = {}
         [] challenge[c] = "Pending" -> \E n \in MessageDefs(c) : last(n, "null")
         [] challenge[c] = "Aborted" -> \E n \in MessageDefs(c) : last(n, "Error")
         [] OTHER -> \A n \in MessageDefs(c) : rows[n].status = "Ok"

ChallengeMatchesMessages == \A c \in Challenges : ChallengeTells(c)

\* Of all the concurrent or repeated responses to a message exactly one is
\* accepted, and it is the one that completed the row.
ResponseAcceptedOnce ==
    \A c \in Challenges, n \in MessageNames :
        accepted[c][n] = IF n \in Completed(message[c]) THEN 1 ELSE 0

\* The rows are consistent with each other and with what clients were told.
RowsAreConsistent == ChallengeMatchesMessages /\ ResponseAcceptedOnce

\* The debug assertions on the result of an upsert, which throw after the
\* statement has taken effect, hold whatever other requests wrote between its
\* snapshot and its locks (UpsertChallengeAndMessages.ts:398-667).
AssertionsHold ==
    \A w \in Workers :
        pc[w] = "upsert" /\ ~ (ShouldWrite(w) /\ UniqueViolation(w)) => DebugAssert(w)

\* A session is finished by one request only.
FinishedOnce == logins = IF session = "Succeeded" THEN 1 ELSE 0

\* A client whose answers are right is never refused: a challenge is aborted
\* only if somebody sent it a wrong answer.  The nonce a client was shown
\* must therefore be the nonce its signature is verified against, however
\* its requests are repeated and interleaved.
HonestNeverAborted ==
    \A c \in Challenges : challenge[c] = "Aborted" => c \in wronged

\* pending-message only shows nonces that a message row holds.
ShownNonceIsStored ==
    \A c \in Challenges : \A x \in shown[c] : message[c]["SignNonce"].expect = x

\* The wrong response to the last message of a challenge, once served, leaves
\* that message answered (UpsertChallengeAndMessages marks it Error and aborts
\* the challenge, unless another response was faster).
WrongLastAnswerCounts ==
    \A c \in Challenges, n \in {"GetPasswordFields", "SignNonce"} :
        <<c, n>> \in refuted => n \in Completed(message[c])

\* Right answers are never held against a client, and wrong last ones always.
ClientsAreJudged == HonestNeverAborted /\ ShownNonceIsStored /\ WrongLastAnswerCounts

(***************************************************************************)
(* What the backend promises, and an action property                       *)
(***************************************************************************)
Protocol == INSTANCE AuthProtocol WITH
    Messages <- MessageDefs,
    Before <- Preceding,
    outcome <- challenge,
    passed <- [c \in Challenges |-> {n \in MessageNames : message[c][n].status = "Ok"}]

\* Seen through its outcomes and Ok messages, the backend runs the challenge
\* protocol step by step, although every step of it is several statements.
ImplementsProtocol == Protocol!Spec

\* A completed message row never changes again, and neither does the answer a
\* stored message expects: an upsert works on what its handler read earlier.
RowsAreFinal ==
    [][\A c \in Challenges : \A n \in Present(message[c]) :
        /\ message'[c][n].expect = message[c][n].expect
        /\ n \in Completed(message[c]) => message'[c][n] = message[c][n]]_vars
=============================================================================
