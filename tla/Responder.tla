------------------------------ MODULE Responder ------------------------------
(***************************************************************************)
(* How Secret* answers the messages of one challenge                       *)
(* (browser/extensions/secretstar/src: pages of ui/controlled/challenge,   *)
(* with the forms of their messages, hooks.ts and the handler of           *)
(* respondToChallengeMessage in workers/main.ts).                          *)
(*                                                                         *)
(* The messages of a challenge are a conversation: what a page makes for   *)
(* one, a key pair or the choice of a key, it leaves in the challenge's    *)
(* record, where the page of a later message finds it.  A page takes both  *)
(* the message and the request it answers from the record it watches,      *)
(* which at first may be that of an earlier, rejected request for the same *)
(* message.  The popup, its address and its messages to the background     *)
(* behave as in module SecretStar.                                         *)
(***************************************************************************)
EXTENDS Integers, Sequences, SequencesExt, FiniteSets

CONSTANTS
    Types,          \* challenge types to consider
    Inputs,         \* values a user may choose or enter
    Seamless,       \* the setting for logins
    MaxRetries,     \* bound: messages the web app sends again
    MaxTroubles,    \* bound: payloads the page cannot use, and popups the user closes
    MaxLate,        \* bound: answers under way when the web app sends a message
    MaxSubmits      \* bound: times a page is submitted

ASSUME ResponderAssumption ==
    /\ Types \subseteq {"Identification", "Password", "OffChannelOtp", "DigitalSignature",
                        "SecureRemotePassword"}
    /\ Inputs \subseteq Nat \ {0} /\ Inputs # {}
    /\ Seamless \in BOOLEAN
    /\ MaxRetries \in Nat /\ MaxTroubles \in Nat /\ MaxLate \in Nat /\ MaxSubmits \in Nat

\* The validator's names, in their order.
Names(t) ==
    CASE t = "Identification" -> <<"GetIdentityFields">>
      [] t = "Password" -> <<"GetPasswordFields">>
      [] t = "OffChannelOtp" -> <<"GetOtp">>
      [] t = "DigitalSignature" -> <<"SelectKey", "SignNonce">>
      [] t = "SecureRemotePassword" ->
            <<"SelectSecurePassword", "ExchangePublicKeys", "ComputeClientProof",
              "VerifyServerProof">>

AllNames == UNION {Range(Names(t)) : t \in Types}
MaxAsks == 4 + MaxRetries
Asks == 1 .. MaxAsks

\* Bound: private keys, enough for one that is not in use.
MaxKeys == 2 * MaxAsks + 4

\* Forms that only send what the user enters, and forms that run by themselves;
\* the others write what the user submits first.
Entered == {"GetIdentityFields", "GetPasswordFields", "GetOtp"}
Automatic == {"ExchangePublicKeys", "ComputeClientProof", "VerifyServerProof"}

VARIABLES
    type,       \* the challenge's type
    asks,       \* the web app's messages, each awaited before the next
    count,      \* the browser's counter of messages
    reply,      \* what the web app was told first of each
    told,       \* of each name, the message granted last and its answer
    record,     \* the challenge in the session's record, and the last request there
    handler,    \* the message whose handler has yet to write, 0 if there is none
    url,        \* the message whose page the popup shows when opened, 0 if none
    page,       \* the popup's page, a sequence of one or none
    assoc,      \* messages with a tab in the background's dictionary
    mail,       \* answers of pages that the background has not handled
    hidden,     \* those for which it has hidden the popup
    submits,    \* history: how often each message was answered, up to two
    lost,       \* history: messages whose popup was given up for an earlier one
    troubles    \* counts payloads that cannot be used and popups the user closes

web == <<type, asks, count, reply, told>>
letters == <<assoc, mail, hidden>>
history == <<submits, lost>>
vars == <<web, record, handler, url, page, letters, history, troubles>>

Secret == [fields : Inputs \union {0}, a : Nat, B : Asks \union {0}, salt : Asks \union {0},
           key : Inputs \union {0}, nonce : Asks \union {0}, valid : {"unset", "no", "yes"}]
Record == [messages : [AllNames -> Asks \union {0}], last : Asks \union {0}, secret : Secret]
Run == [ask : Asks, name : AllNames, payload : Asks, value : Seq(Nat),
        stage : {"computing", "writing", "written"}]
Page == [name : AllNames, stage : {"waiting", "ready", "done"}, seen : Record,
         form : Asks \union {0}, key : Inputs \union {0}, ran : BOOLEAN,
         verdict : {"unset", "no", "yes"}, sent : BOOLEAN, runs : Seq(Run),
         tries : 0 .. MaxSubmits]
Letter == [ask : Asks, how : {"resolve", "reject"}, value : Seq(Nat)]

NoSecret == [fields |-> 0, a |-> 0, B |-> 0, salt |-> 0, key |-> 0, nonce |-> 0,
             valid |-> "unset"]
NoRecord == [messages |-> [n \in AllNames |-> 0], last |-> 0, secret |-> NoSecret]

TypeOK ==
    /\ type \in Types /\ count \in Int
    /\ asks \in Seq([name : AllNames, kind : {"fits", "wrong", "unfit", "view"}])
    /\ Len(asks) <= MaxAsks
    /\ reply \in [Asks -> {"none", "resolve", "reject"}]
    /\ told \in [AllNames -> [ask : Asks \union {0}, value : Seq(Nat)]]
    /\ record \in Record /\ handler \in Asks \union {0} /\ url \in Asks \union {0}
    /\ page \in Seq(Page) /\ Len(page) <= 1
    /\ assoc \subseteq Asks /\ mail \subseteq Letter /\ hidden \subseteq mail
    /\ submits \in [Asks -> 0 .. 2] /\ lost \subseteq Asks /\ troubles \in 0 .. MaxTroubles

Init ==
    /\ type \in Types /\ asks = <<>> /\ count = 0 /\ reply = [r \in Asks |-> "none"]
    /\ told = [n \in AllNames |-> [ask |-> 0, value |-> <<>>]]
    /\ record = NoRecord /\ handler = 0 /\ url = 0 /\ page = <<>>
    /\ assoc = {} /\ mail = {} /\ hidden = {}
    /\ submits = [r \in Asks |-> 0] /\ lost = {} /\ troubles = 0

-----------------------------------------------------------------------------
(* What an answer writes                                                   *)
\* The object handed to db.sessions.update in the page's onSubmit.
Written(secret, run) ==
    CASE run.name = "SelectSecurePassword" -> [NoSecret EXCEPT !.fields = run.value[1]]
      [] run.name = "ExchangePublicKeys" ->
            [secret EXCEPT !.a = run.value[1], !.B = run.payload]
      [] run.name = "ComputeClientProof" -> [secret EXCEPT !.salt = run.payload]
      [] run.name = "VerifyServerProof" ->
            [secret EXCEPT !.valid = IF run.value[1] = 1 THEN "yes" ELSE "no"]
      [] run.name = "SelectKey" -> [secret EXCEPT !.key = run.value[1]]
      [] run.name = "SignNonce" -> [secret EXCEPT !.nonce = run.payload]

WithWrite(rec, run) == [rec EXCEPT !.secret = Written(@, run)]

-----------------------------------------------------------------------------
(* The popup                                                               *)
Outstanding == IF asks = <<>> \/ reply[Len(asks)] # "none" THEN {} ELSE {Len(asks)}

\* Mutant of the next definition: a closed page says nothing.
ClosingQuietly == {}

\* beforeunload: a page that has a request, and has not heard that its answer
\* arrived, rejects it.
Closing ==
    {[ask |-> p.seen.last, how |-> "reject", value |-> <<>>] :
        p \in {q \in Range(page) : q.stage = "ready"}}

\* The writes that the page has begun; each writes what the one before it did.
Begun == {run \in UNION {Range(p.runs) : p \in Range(page)} : run.stage = "writing"}

\* The page is gone, and what it had under way: of the writes that were begun the
\* first are done, whose last leaves its mark, or none, and none is answered for.
ClosePage ==
    /\ page' = <<>>
    /\ mail' = mail \union Closing
    /\ record' \in {record} \union {WithWrite(record, run) : run \in Begun}

NamesOf(s) == {s[q].name : q \in DOMAIN s}

\* The web app's next message, as the browser lets it through; the popup opens
\* again with its page.
Ask(kind) ==
    LET r == Len(asks) + 1
        name == Names(type)[count + 1]
    IN
    /\ r \in Asks /\ Outstanding = {} /\ Cardinality(mail) <= MaxLate
    /\ count \in 0 .. Len(Names(type)) - 1
    /\ kind = "wrong" => name = "VerifyServerProof"
    /\ name \in NamesOf(asks) => Len(asks) - Cardinality(NamesOf(asks)) < MaxRetries
    /\ troubles' = IF kind = "fits" THEN troubles ELSE troubles + 1
    /\ troubles' <= MaxTroubles
    /\ asks' = Append(asks, [name |-> name, kind |-> kind])
    /\ count' = count + 1
    /\ handler' = r
    /\ ClosePage /\ url' = r /\ assoc' = assoc \union {r}
    /\ UNCHANGED <<type, reply, told, hidden, history>>

\* The first answer is what the web app hears; every rejection counts a message
\* less.
Settle(r, how, value) ==
    LET name == asks[r].name
        first == reply[r] = "none"
    IN
    /\ reply' = IF first THEN [reply EXCEPT ![r] = how] ELSE reply
    /\ count' = IF how = "reject" THEN count - 1 ELSE count
    /\ told' = IF first /\ how = "resolve"
               THEN [told EXCEPT ![name] = [ask |-> r, value |-> value]] ELSE told
    /\ UNCHANGED <<type, asks>>

\* The handler writes the message and its request, or refuses a view on a buffer
\* or an encrypted packet, and leaves the popup as it is.
Update ==
    /\ handler # 0 /\ asks[handler].kind # "view"
    /\ record' = [record EXCEPT !.messages[asks[handler].name] = handler, !.last = handler]
    /\ handler' = 0
    /\ UNCHANGED <<web, url, page, letters, history, troubles>>

Refuse ==
    /\ handler # 0 /\ asks[handler].kind = "view"
    /\ Settle(handler, "reject", <<>>)
    /\ handler' = 0
    /\ UNCHANGED <<record, url, page, letters, history, troubles>>

-----------------------------------------------------------------------------
(* The page                                                                *)
Open ==
    /\ page = <<>> /\ url # 0
    /\ page' = <<[name |-> asks[url].name, stage |-> "waiting", seen |-> NoRecord, form |-> 0,
                  key |-> 0, ran |-> FALSE, verdict |-> "unset", sent |-> FALSE,
                  runs |-> <<>>, tries |-> 0]>>
    /\ UNCHANGED <<web, record, handler, url, letters, history, troubles>>

Answered(r) == submits' = [submits EXCEPT ![r] = IF @ = 2 THEN 2 ELSE @ + 1]

\* Private keys that nobody has, and the one that is made next.
Unused == {k \in 1 .. MaxKeys :
            /\ k # record.secret.a
            /\ \A n \in AllNames : k \notin Range(told[n].value)
            /\ \A m \in mail : k \notin Range(m.value)
            /\ \A p \in Range(page) : k # p.seen.secret.a
                    /\ \A i \in DOMAIN p.runs : k \notin Range(p.runs[i].value)}
NewKeys == LET unused == Unused IN {k \in unused : \A j \in unused : k <= j}

\* checkM2: the server's proof is for the very secret of the record, that is for
\* what the web app was told and sent.
ProofIsValid(payload, secret) ==
    /\ asks[payload].kind = "fits"
    /\ told["ComputeClientProof"].value = <<secret.fields, secret.a, secret.B, secret.salt>>

\* Forms that run by themselves when a payload comes, once: with a new key pair,
\* which takes a while; with the client's proof; with a verdict on the server's,
\* which the page keeps.
ExchangePublicKeys(p, run) == [p EXCEPT !.runs = Append(@, [run EXCEPT !.stage = "computing"])]

ComputeClientProof(p, run, s) ==
    [p EXCEPT !.ran = TRUE,
              !.runs = IF s.a = 0 \/ s.B = 0 THEN @
                       ELSE Append(@, [run EXCEPT !.value = <<s.fields, s.a, s.B, run.payload>>])]

VerifyServerProof(p, run, s) ==
    [p EXCEPT !.ran = TRUE,
              !.verdict = IF s.a = 0 \/ s.B = 0 \/ s.salt = 0 THEN @
                          ELSE IF ProofIsValid(run.payload, s) THEN "yes" ELSE "no"]

Started(p, rec) ==
    LET run == [ask |-> rec.last, name |-> p.name, payload |-> rec.messages[p.name],
                value |-> <<>>, stage |-> "writing"]
    IN
    IF p.ran \/ asks[run.payload].kind = "unfit" THEN p
    ELSE CASE p.name = "ExchangePublicKeys" -> ExchangePublicKeys(p, run)
           [] p.name = "ComputeClientProof" -> ComputeClientProof(p, run, rec.secret)
           [] p.name = "VerifyServerProof" -> VerifyServerProof(p, run, rec.secret)

\* Mutant of the next definition: the form stays as it was for an earlier payload.
MountedOnce(p, payload) == IF p.form = 0 THEN payload ELSE p.form

\* useYupValidation takes a form away while another payload is validated.
Mounted(p, payload) == payload

\* The live query finds the message, or finds the record changed.
Load ==
    LET p == page[1]
        payload == record.messages[p.name]
        loaded == [p EXCEPT !.stage = "ready", !.seen = record,
                            !.form = Mounted(p, payload),
                            !.tries = IF Mounted(p, payload) = p.form THEN @ ELSE 0,
                            !.key = IF p.stage = "waiting" THEN record.secret.key ELSE @]
    IN
    /\ page # <<>> /\ p.stage # "done"
    /\ payload # 0 /\ record # p.seen
    /\ LET starts == p.name \in Automatic /\ payload # p.seen.messages[p.name]
           q == IF starts THEN Started(loaded, record) ELSE loaded
       IN  /\ page' = <<q>>
           /\ IF Len(q.runs) > Len(p.runs) THEN Answered(record.last) ELSE UNCHANGED submits
    /\ UNCHANGED <<web, record, handler, url, letters, lost, troubles>>

\* genKey's promise: the page makes its public key and submits both, unless the
\* challenge has no password.
Generate ==
    \E i \in DOMAIN page[1].runs :
        /\ page[1].runs[i].stage = "computing"
        /\ \A j \in 1 .. i - 1 : page[1].runs[j].stage # "computing"
        /\ \E key \in NewKeys :
            page' = <<[page[1] EXCEPT
                !.ran = TRUE,
                !.runs = IF page[1].seen.secret.fields = 0 THEN RemoveAt(@, i)
                         ELSE [@ EXCEPT ![i].stage = "writing", ![i].value = <<key>>]]>>
        /\ UNCHANGED <<web, record, handler, url, letters, history, troubles>>

\* useAccountFields: the fields the payload names are the account's.
Fits(p) == asks[p.form].kind = "fits"

\* useTryOnce: with seamless logins a form is shown after its own attempt.
Tried(p) == ~ Seamless \/ p.tries > 0

\* What a form submits: what the account has, or what the user makes of it; a
\* one-time password, which the account does not have; a signature, made when
\* the form was mounted; the verdict.
OfAccount == CHOOSE v \in Inputs : \A w \in Inputs : v <= w
Edited(p) == {<<v>> : v \in Inputs}
FieldListForm(p) == IF Tried(p) THEN Edited(p) ELSE {<<OfAccount>>}
GetOtp(p) == Edited(p)
SelectSecurePassword(p) == IF Tried(p) THEN Edited(p) ELSE {<<OfAccount>>}
SelectKey(p) == IF Tried(p) THEN Edited(p) ELSE {<<OfAccount>>}
SignNonce(p) == {<<p.key, p.form>>}
Verdict(p) == {<<IF v = "yes" THEN 1 ELSE 0>> : v \in {p.verdict} \ {"unset"}}

Values(p) ==
    IF p.name = "VerifyServerProof" THEN Verdict(p)
    ELSE IF p.name \in Automatic \/ ~ Fits(p) THEN {}
    ELSE CASE p.name \in {"GetIdentityFields", "GetPasswordFields"} -> FieldListForm(p)
           [] p.name = "GetOtp" -> GetOtp(p)
           [] p.name = "SelectSecurePassword" -> SelectSecurePassword(p)
           [] p.name = "SelectKey" -> SelectKey(p)
           [] p.name = "SignNonce" -> SignNonce(p)

Submit ==
    LET p == page[1]
        q == [p EXCEPT !.tries = @ + 1]
    IN
    /\ page # <<>> /\ p.stage = "ready" /\ p.tries < MaxSubmits
    /\ \E value \in Values(p) :
        IF p.name \in Entered
        THEN /\ page' = <<[q EXCEPT !.sent = TRUE]>>
             /\ mail' = mail \union {[ask |-> p.seen.last, how |-> "resolve", value |-> value]}
        ELSE /\ page' = <<[q EXCEPT !.runs = Append(@,
                    [ask |-> p.seen.last, name |-> p.name, payload |-> p.form,
                     value |-> value, stage |-> "writing"])]>>
             /\ UNCHANGED mail
    /\ Answered(p.seen.last)
    /\ UNCHANGED <<web, record, handler, url, assoc, hidden, lost, troubles>>

\* await db.sessions.update(...)
Write ==
    \E i \in DOMAIN page[1].runs :
        /\ page[1].runs[i].stage = "writing"
        /\ \A j \in 1 .. i - 1 : page[1].runs[j].stage # "writing"
        /\ record' = WithWrite(record, page[1].runs[i])
        /\ page' = <<[page[1] EXCEPT !.runs[i].stage = "written"]>>
        /\ UNCHANGED <<web, handler, url, letters, history, troubles>>

MaySend(run) == run.stage = "written"

\* submit, with the request of the render in which the run was started.
Send ==
    \E i \in DOMAIN page[1].runs :
        LET run == page[1].runs[i]
        IN
        /\ MaySend(run)
        /\ \A j \in 1 .. i - 1 : ~ MaySend(page[1].runs[j])
        /\ mail' = mail \union {[ask |-> run.ask, how |-> "resolve", value |-> run.value]}
        /\ page' = <<[page[1] EXCEPT !.sent = TRUE, !.runs = RemoveAt(@, i)]>>
        /\ UNCHANGED <<web, record, handler, url, assoc, hidden, history, troubles>>

\* The background has an answer: the page leaves for /loading, its runs go on.
Processed ==
    /\ page # <<>> /\ page[1].stage = "ready" /\ page[1].sent
    /\ page' = <<[page[1] EXCEPT !.stage = "done"]>>
    /\ UNCHANGED <<web, record, handler, url, letters, history, troubles>>

-----------------------------------------------------------------------------
(* The popup is closed                                                     *)
\* The user closes the popup; that of a page with a request gets another address.
Leave ==
    /\ page # <<>>
    /\ ClosePage
    /\ IF page[1].stage = "ready"
       THEN url' = 0 /\ lost' = lost \union (Outstanding \ {page[1].seen.last})
       ELSE UNCHANGED <<url, lost>>
    /\ UNCHANGED <<web, handler, assoc, hidden, submits>>

Close == troubles < MaxTroubles /\ Leave /\ troubles' = troubles + 1

\* A page with nothing to submit, when nothing is under way: an error, or /loading
\* after the answer to an earlier request.
IsIdle(p) ==
    /\ p.runs = <<>> /\ mail = {}
    /\ \/ p.stage = "done"
       \/ p.stage = "ready" /\ ~ p.sent /\ Values(p) = {}

Dismiss == page # <<>> /\ IsIdle(page[1]) /\ Leave /\ UNCHANGED troubles

Hide(m) ==
    /\ m \in mail \ hidden
    /\ hidden' = hidden \union {m}
    /\ IF m.ask \in assoc
       THEN /\ ClosePage /\ url' = 0
            /\ assoc' = assoc \ {m.ask}
            /\ lost' = lost \union (Outstanding \ {m.ask})
       ELSE UNCHANGED <<page, mail, record, url, assoc, lost>>
    /\ UNCHANGED <<web, handler, submits, troubles>>

HandOn(m) ==
    /\ m \in hidden
    /\ mail' = mail \ {m} /\ hidden' = hidden \ {m}
    /\ Settle(m.ask, m.how, m.value)
    /\ UNCHANGED <<record, handler, url, page, assoc, history, troubles>>

-----------------------------------------------------------------------------
Background == Update \/ Refuse
Letters == \E m \in mail : Hide(m) \/ HandOn(m)
Runs == page # <<>> /\ (Generate \/ Write \/ Send)
Popup == Open \/ Load \/ Submit \/ Dismiss

Next ==
    \/ \E kind \in {"fits", "wrong", "unfit", "view"} : Ask(kind)
    \/ Background \/ Popup \/ Runs \/ Processed \/ Close \/ Letters

Spec == Init /\ [][Next]_vars

\* Scripts and the background go on; the user opens the popup again, submits a
\* form or closes one that cannot be submitted.
FairSpec ==
    /\ Spec
    /\ WF_vars(Background) /\ WF_vars(Popup) /\ WF_vars(Runs) /\ WF_vars(Processed)
    /\ WF_vars(Letters)

-----------------------------------------------------------------------------
(* Properties                                                              *)
\* The messages granted last are in the order of the conversation, and none of
\* them was answered twice.
Undisturbed(names) ==
    \A i \in DOMAIN names :
        LET r == told[names[i]].ask
        IN  r # 0 /\ submits[r] = 1 /\ (i > 1 => told[names[i - 1]].ask < r)

\* The client's proof that the web app was given is made of the password it was
\* told of, of the public key it was given, and of the server's key and the salt
\* it sent in the messages that were granted, whatever was rejected and asked
\* again in between, and a signature is that of the granted message's nonce with
\* the key that was selected.
ProofFits ==
    LET t == told
    IN
    /\ "ComputeClientProof" \in AllNames
        /\ Undisturbed(<<"SelectSecurePassword", "ExchangePublicKeys", "ComputeClientProof">>)
       => t["ComputeClientProof"].value =
            <<t["SelectSecurePassword"].value[1], t["ExchangePublicKeys"].value[1],
              t["ExchangePublicKeys"].ask, t["ComputeClientProof"].ask>>
    /\ "SignNonce" \in AllNames /\ Undisturbed(<<"SelectKey", "SignNonce">>)
       => t["SignNonce"].value = <<t["SelectKey"].value[1], t["SignNonce"].ask>>

\* The manager takes the server for authentic only if it sent a proof that was
\* right, and finds what it left for a later message.
SecretHolds ==
    /\ record.secret.valid = "yes" =>
        \E r \in DOMAIN asks : asks[r].name = "VerifyServerProof" /\ asks[r].kind = "fits"
    /\ \A p \in Range(page) :
        p.name \in {"ComputeClientProof", "VerifyServerProof"} /\ p.stage = "ready" =>
            p.seen.secret.fields # 0 /\ p.seen.secret.a # 0 /\ p.seen.secret.B # 0

\* The types, and what the web app and the manager hold of the conversation.
AnswersFit == TypeOK /\ ProofFits /\ SecretHolds

\* Every message is answered, granted or not, but one whose popup was given up
\* when a page of an earlier request was closed or answered.
MessagesAreAnswered ==
    \A r \in Asks : Len(asks) >= r ~> (reply[r] # "none" \/ r \in lost)
=============================================================================
