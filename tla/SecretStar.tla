------------------------------ MODULE SecretStar ------------------------------
(***************************************************************************)
(* A login session in the secret manager Secret*: its background script,   *)
(* the session's record in the database, and the popup in which the user   *)
(* decides on each request (browser/extensions/secretstar/src:             *)
(* workers/main.ts, workers/pageAction-popup-fix.ts, hooks.ts and          *)
(* ui/controlled), in the mode the build chooses, MODE_PAGE_ACTION.        *)
(*                                                                         *)
(* The background reads the record, shows the popup and only then writes   *)
(* what the popup has to wait for; the page watches the record, takes the  *)
(* last request in it as its own, writes to the record, and sends its      *)
(* answer to the background, which hides the popup and hands the answer on *)
(* to the browser.  The user may close the popup at any time.              *)
(***************************************************************************)
EXTENDS Integers, Sequences, SequencesExt

CONSTANTS
    Created,        \* fields whose value the user or the manager makes
    Given,          \* fields whose value the web app gives
    Challenges,
    Seamless,       \* whether the settings let pages submit by themselves
    MaxRequests,    \* bound: requests of the web app
    MaxClosings,    \* bound: popups the user closes
    MaxSubmits,     \* bound: times a page is submitted
    NoItem, NoPage, NoUrl, NoHandler, NoAccount

Fields == Created \union Given
Items == Fields \union Challenges
Ids == 1 .. MaxRequests

ASSUME SecretStarAssumption ==
    /\ Created \intersect Given = {} /\ Fields \intersect Challenges = {}
    /\ NoItem \notin Items
    /\ MaxRequests \in Nat /\ MaxClosings \in Nat /\ MaxSubmits \in Nat
    /\ Seamless \in BOOLEAN

\* The session that approveOperation creates, and the one a transition does.
Slots == 1 .. 2

Creation == {"getUserAttributes", "addField", "rejectFieldValue", "approveTransitionToAuthOp"}
Authentication == {"approveChallengeRequest", "respondToChallengeMessage", "abortChallenge",
                   "closeChallenge"}
Login == {"approveOperation", "closeOperation", "updateMetadata"}
Request == [kind : Creation \union Authentication \union Login,
            item : Items \union {NoItem}, slot : Slots]

VARIABLES
    asked,      \* the requests of the web app, by id
    op,         \* the web app's operation
    known,      \* fields and challenge messages the browser's validators know
    busy,       \* the browser's busy flag
    reply,      \* what the web app was told first of each request
    answers,    \* how often the browser was given an answer, up to two
    told,       \* the value of each field by the last request granted, 0 if there is none
    sessions,   \* the records
    account,    \* the fields of the account saved last
    handlers,   \* of each request, the record its handler in the background read
    url,        \* the request whose page the popup shows when it is opened
    page,       \* the page in the popup
    assoc,      \* requests with a tab in the background's dictionary
    mail,       \* messages of pages that the background has not handled
    hidden,     \* those for which it has hidden the popup
    torn,       \* history: fields written or answered for by another request's page,
                \* and those a handler dropped that had read the record before
    closings    \* counts the popups the user closes

browser == <<op, known, busy, reply, answers, told>>
popup == <<url, page>>
letters == <<assoc, mail, hidden>>
vars == <<asked, browser, sessions, account, handlers, popup, letters, torn, closings>>

Session == [version : 0 .. 2, requests : Seq(Ids), options : SUBSET Created,
            puts : SUBSET Given, fields : [Fields -> Seq(Ids)],
            rejected : SUBSET Fields, closed : BOOLEAN,
            challenges : [Challenges -> {"none", "open", "sealed", "aborted"}],
            messages : SUBSET Challenges]
Page == [req : Ids, stage : {"waiting", "ready", "written", "sent", "done"},
         processed : BOOLEAN, broken : BOOLEAN,
         seen : Session, answer : Ids \union {0}, submits : 0 .. MaxSubmits]
Letter == [req : Ids, how : {"resolve", "reject"}, value : Ids \union {0}]

\* None of them is a record, a page or a request.
ASSUME NothingAssumption ==
    NoHandler \notin Session /\ NoPage \notin Page /\ NoUrl \notin Ids

TypeOK ==
    /\ asked \in Seq(Request) /\ Len(asked) <= MaxRequests
    /\ op \in {"none", "Registration", "Authentication"}
    /\ known \subseteq Items /\ busy \in BOOLEAN
    /\ reply \in [Ids -> {"none", "resolve", "reject"}]
    /\ answers \in [Ids -> 0 .. 2] /\ told \in [Fields -> Ids \union {0}]
    /\ sessions \in [Slots -> Session]
    /\ account \in [Fields -> Seq(Ids)] \union {NoAccount}
    /\ handlers \in [Ids -> Session \union {NoHandler}]
    /\ url \in Ids \union {NoUrl} /\ page \in Page \union {NoPage}
    /\ assoc \subseteq Ids /\ mail \subseteq Letter /\ hidden \subseteq mail
    /\ torn \subseteq Fields /\ closings \in 0 .. MaxClosings

NoFields == [f \in Fields |-> <<>>]
NoSession == [version |-> 0, requests |-> <<>>, options |-> {}, puts |-> {},
              fields |-> NoFields, rejected |-> {}, closed |-> FALSE,
              challenges |-> [c \in Challenges |-> "none"], messages |-> {}]

Init ==
    /\ asked = <<>> /\ op = "none" /\ known = {} /\ busy = FALSE
    /\ reply = [r \in Ids |-> "none"] /\ answers = [r \in Ids |-> 0]
    /\ told = [f \in Fields |-> 0]
    /\ sessions = [s \in Slots |-> NoSession] /\ account = NoAccount
    /\ handlers = [r \in Ids |-> NoHandler]
    /\ url = NoUrl /\ page = NoPage
    /\ assoc = {} /\ mail = {} /\ hidden = {}
    /\ torn = {} /\ closings = 0

-----------------------------------------------------------------------------
(* What a page waits for, and how it may end                               *)
\* The test in each page's live query.  A second rejection of a field's value, a
\* second abort and so on find what the first has left.
UserIntent(s) == s.version > 0
UserAttributes(s) == s.version > 1
CreateField(s, f) == f \in s.options
PutField(s, f) == f \in s.puts
Save(s) == s.closed
AuthFinished(s) == s.closed
TransitionToAuth(s) == s.version > 0
ApproveChallenge(s, c) == s.challenges[c] # "none"
RespondToMessage(s, c) == c \in s.messages
AbortedChallenge(s, c) == s.challenges[c] = "aborted"
SealedChallenge(s, c) == s.challenges[c] \in {"sealed", "aborted"}

IsMarked(a, s) ==
    CASE a.kind = "approveOperation" -> UserIntent(s)
      [] a.kind = "getUserAttributes" -> UserAttributes(s)
      [] a.kind = "addField" /\ a.item \in Created -> CreateField(s, a.item)
      [] a.kind = "addField" /\ a.item \in Given -> PutField(s, a.item)
      [] a.kind = "rejectFieldValue" -> CreateField(s, a.item)
      [] a.kind = "closeOperation" /\ op = "Registration" -> Save(s)
      [] a.kind = "closeOperation" /\ op # "Registration" -> AuthFinished(s)
      [] a.kind = "approveTransitionToAuthOp" -> TransitionToAuth(s)
      [] a.kind = "approveChallengeRequest" -> ApproveChallenge(s, a.item)
      [] a.kind = "respondToChallengeMessage" -> RespondToMessage(s, a.item)
      [] a.kind = "abortChallenge" -> AbortedChallenge(s, a.item)
      [] a.kind = "closeChallenge" -> SealedChallenge(s, a.item)

\* The session whose record a page watches.
SlotOf(a) == IF a.kind = "approveTransitionToAuthOp" THEN 2 ELSE a.slot

\* UserIntent takes the record's first request as its own, all others the last.
LastRequest(p) ==
    IF p.seen.requests = <<>> THEN 0
    ELSE IF asked[p.req].kind = "approveOperation" THEN Head(p.seen.requests)
    ELSE Last(p.seen.requests)

IsField(a) == a.kind \in {"addField", "rejectFieldValue"}

\* Pages that do not watch their window, and that submit by themselves after a
\* while; the last two also have no button.
RunByThemselves == {"abortChallenge", "closeChallenge", "closeOperation"}

\* beforeunload: a page that has loaded its request, and has not been told that
\* its answer arrived, rejects it.
Closing(p) ==
    IF p # NoPage /\ p.stage \in {"ready", "written", "sent"} /\ ~ p.processed
       /\ asked[p.req].kind \notin RunByThemselves
    THEN {[req |-> LastRequest(p), how |-> "reject", value |-> 0]} ELSE {}

\* A field that the page has written and does not reject as its own.
Tearing(p) ==
    IF p # NoPage /\ p.stage = "written" /\ LastRequest(p) # p.req /\ IsField(asked[p.req])
    THEN {asked[p.req].item} ELSE {}

ClosePage ==
    /\ page' = NoPage
    /\ mail' = mail \union Closing(page)
    /\ torn' = torn \union Tearing(page)

-----------------------------------------------------------------------------
(* The web app's requests, as the browser lets them through                *)
HasGot(kind) == \E r \in DOMAIN asked : asked[r].kind = kind /\ reply[r] = "resolve"

MayAsk(kind, item) ==
    CASE kind = "approveOperation" -> asked = <<>> /\ item = NoItem
      [] kind = "getUserAttributes" -> Len(asked) = 1 /\ op = "Registration" /\ item = NoItem
      [] kind = "approveTransitionToAuthOp" ->
            op = "Registration" /\ HasGot("getUserAttributes") /\ item = NoItem
      [] kind \in {"addField", "rejectFieldValue", "updateMetadata"} ->
            /\ op = "Registration" /\ HasGot("getUserAttributes") /\ ~ HasGot("closeOperation")
            /\ item \in CASE kind = "addField" -> Fields \ known
                          [] kind = "rejectFieldValue" -> Fields \intersect known
                          [] OTHER -> {NoItem}
      [] kind = "closeOperation" ->
            /\ item = NoItem
            /\ \/ op = "Registration" /\ HasGot("getUserAttributes") /\ ~ HasGot(kind)
               \/ op = "Authentication"
      [] OTHER -> /\ op = "Authentication"
                  /\ item \in Challenges
                  /\ kind = "respondToChallengeMessage" => item \notin known

\* The page connects a challenge object when its challenge is approved.
IsConnected(c) ==
    \E r \in DOMAIN asked : asked[r].kind = "approveChallengeRequest" /\ asked[r].item = c
                            /\ reply[r] = "resolve"

\* The operation was transitioned to when a request for it was granted.
CurrentSlot == IF HasGot("approveTransitionToAuthOp") THEN 2 ELSE 1

\* The handler starts: it begins to read the record, and asks for the popup,
\* which closes one that is open.
Ask(kind, item) ==
    LET r == Len(asked) + 1
    IN
    /\ r \in Ids /\ ~ busy
    /\ MayAsk(kind, item)
    /\ kind \in Authentication \ {"approveChallengeRequest"} => IsConnected(item)
    /\ asked' = Append(asked, [kind |-> kind, item |-> item, slot |-> CurrentSlot])
    /\ busy' = TRUE
    /\ known' = IF kind \in {"addField", "respondToChallengeMessage"}
                THEN known \union {item} ELSE known
    /\ handlers' = [handlers EXCEPT ![r] = sessions[CurrentSlot]]
    /\ sessions' = IF kind = "approveTransitionToAuthOp"     \* it will have a new id
                   THEN [sessions EXCEPT ![2] = NoSession] ELSE sessions
    /\ IF kind = "updateMetadata"
       THEN UNCHANGED <<popup, assoc, mail, torn>>
       ELSE ClosePage /\ url' = r /\ assoc' = assoc \union {r}
    /\ UNCHANGED <<op, reply, answers, told, account, hidden, closings>>

-----------------------------------------------------------------------------
(* Answers reach the browser                                               *)
\* resolve or reject: the first is what the web app hears; a rejection rolls
\* the validators back, and either clears the busy flag.
Settle(r, how, value) ==
    LET a == asked[r]
        first == reply[r] = "none"
    IN
    /\ busy' = FALSE
    /\ answers' = [answers EXCEPT ![r] = IF @ = 2 THEN 2 ELSE @ + 1]
    /\ reply' = IF first THEN [reply EXCEPT ![r] = how] ELSE reply
    /\ known' = IF how = "reject" /\ a.kind \in {"addField", "respondToChallengeMessage"}
                THEN known \ {a.item} ELSE known
    /\ told' = IF /\ first /\ how = "resolve" /\ IsField(a)
                  /\ \A q \in r + 1 .. Len(asked) :
                        ~ (IsField(asked[q]) /\ asked[q].item = a.item /\ reply[q] = "resolve")
               THEN [told EXCEPT ![a.item] = value] ELSE told
    /\ op' \in IF ~ first \/ how = "reject" THEN {op}
              ELSE CASE a.kind = "approveOperation" -> {"Registration", "Authentication"}
                     [] a.kind = "approveTransitionToAuthOp" -> {"Authentication"}
                     [] OTHER -> {op}

-----------------------------------------------------------------------------
(* The background's handlers                                               *)
Bumped(s) == IF s.version = 2 THEN 2 ELSE s.version + 1

\* What the handler refuses, from the record as it read it.
Refuses(r, s) ==
    LET a == asked[r]
    IN  \/ a.kind = "addField" /\ a.item \in s.options \union s.puts
        \/ a.kind = "rejectFieldValue" /\ (a.item \notin s.options \/ s.fields[a.item] = <<>>)
        \/ a.kind = "approveTransitionToAuthOp" /\ account = NoAccount

\* The keys a handler writes are computed from the record it read (s), and
\* replace those of the record as it is now.
Recorded(r, s, now) == [now EXCEPT !.requests = Append(s.requests, r)]
Changed(r, s, now) == [Recorded(r, s, now) EXCEPT !.version = Bumped(s)]

ApproveOperation(r) == [NoSession EXCEPT !.requests = <<r>>, !.version = 1]
ApproveTransitionToAuthOp(r) == [NoSession EXCEPT !.requests = <<r>>, !.version = 1]
GetUserAttributes(r, s, now) == [Recorded(r, s, now) EXCEPT !.version = 2]
AddField(r, s, now, f) ==
    IF f \in Created THEN [Changed(r, s, now) EXCEPT !.options = s.options \union {f}]
    ELSE [Changed(r, s, now) EXCEPT !.puts = s.puts \union {f}]
RejectFieldValue(r, s, now, f) ==
    [Changed(r, s, now) EXCEPT !.rejected = s.rejected \union {f}]
CloseOperation(r, s, now) == [Changed(r, s, now) EXCEPT !.closed = TRUE]
UpdateMetadata(s, now) == [now EXCEPT !.version = Bumped(s)]
ApproveChallengeRequest(r, s, now, c) ==
    [Changed(r, s, now) EXCEPT !.challenges = [s.challenges EXCEPT ![c] = "open"],
                               !.messages = s.messages \ {c}]
RespondToChallengeMessage(r, s, now, c) ==
    [Changed(r, s, now) EXCEPT !.messages = @ \union {c}]
AbortChallenge(r, s, now, c) == [Recorded(r, s, now) EXCEPT !.challenges[c] = "aborted"]
CloseChallenge(r, s, now, c) ==
    [Recorded(r, s, now) EXCEPT !.challenges[c] = IF @ = "aborted" THEN @ ELSE "sealed"]

Updated(r, s, now) ==
    LET a == asked[r]
    IN
    CASE a.kind = "approveOperation" -> ApproveOperation(r)
      [] a.kind = "approveTransitionToAuthOp" -> ApproveTransitionToAuthOp(r)
      [] a.kind = "getUserAttributes" -> GetUserAttributes(r, s, now)
      [] a.kind = "addField" -> AddField(r, s, now, a.item)
      [] a.kind = "rejectFieldValue" -> RejectFieldValue(r, s, now, a.item)
      [] a.kind = "closeOperation" -> CloseOperation(r, s, now)
      [] a.kind = "updateMetadata" -> UpdateMetadata(s, now)
      [] a.kind = "approveChallengeRequest" -> ApproveChallengeRequest(r, s, now, a.item)
      [] a.kind = "respondToChallengeMessage" -> RespondToChallengeMessage(r, s, now, a.item)
      [] a.kind = "abortChallenge" -> AbortChallenge(r, s, now, a.item)
      [] a.kind = "closeChallenge" -> CloseChallenge(r, s, now, a.item)

\* Mutant of the next definition: only fields the web app gave are taken.
SavedGiven(s) == [f \in Fields |-> IF f \in Given THEN s.fields[f] ELSE <<>>]

\* The account gets the fields of the record as read.
Saved(s) == s.fields

Handled(r) == handlers' = [handlers EXCEPT ![r] = NoHandler]

\* Fields the record had an option or a value for, and no longer has.
Dropped(before, after) ==
    (before.options \union before.puts) \ (after.options \union after.puts)

\* Write what the page waits for, and have the popup's page answer.
Update(r) ==
    LET a == asked[r]
        s == handlers[r]
    IN
    /\ s # NoHandler /\ ~ Refuses(r, s)
    /\ Handled(r)
    /\ sessions' = [sessions EXCEPT ![SlotOf(a)] = Updated(r, s, @)]
    /\ account' = IF a.kind = "closeOperation" /\ op = "Registration" THEN Saved(s) ELSE account
    /\ torn' = torn \union Dropped(sessions[1], sessions'[1])
    /\ IF a.kind = "updateMetadata" THEN Settle(r, "resolve", 0) ELSE UNCHANGED browser
    /\ UNCHANGED <<asked, popup, letters, closings>>

\* rejectRequest, or an exception, which the browser's bridge makes one.  The
\* popup is not hidden.  Values that are not supported are refused as well.
Refuse(r) ==
    /\ handlers[r] # NoHandler
    /\ \/ Refuses(r, handlers[r])
       \/ asked[r].kind \in {"rejectFieldValue", "respondToChallengeMessage"}
       \/ asked[r].kind = "addField" /\ asked[r].item \in Given
    /\ Handled(r)
    /\ Settle(r, "reject", 0)
    /\ UNCHANGED <<asked, sessions, account, popup, letters, torn, closings>>

-----------------------------------------------------------------------------
(* The page in the popup                                                   *)
\* openPopup has the popup open, or the user opens it.
Open ==
    /\ page = NoPage /\ url # NoUrl
    /\ page' = [req |-> url, stage |-> "waiting", processed |-> FALSE, broken |-> FALSE,
                seen |-> NoSession, answer |-> 0, submits |-> 0]
    /\ UNCHANGED <<asked, browser, sessions, account, handlers, url, letters, torn, closings>>

Watched == sessions[SlotOf(asked[page.req])]

IsLoaded(a) == IsMarked(a, Watched)

\* The live query finds the record, for the first time or changed.
Load ==
    LET p == [page EXCEPT !.stage = IF @ = "waiting" THEN "ready" ELSE @,
                          !.seen = Watched]
    IN
    /\ page # NoPage /\ page.stage # "done"
    /\ IsLoaded(asked[page.req])
    /\ p # page
    /\ page' = p
    /\ UNCHANGED <<asked, browser, sessions, account, handlers, url, letters, torn, closings>>

\* The first challenge of a session: a page that looks before the background
\* has written shows an error for good.
LookTooEarly ==
    /\ page # NoPage /\ page.stage = "waiting" /\ ~ page.broken
    /\ asked[page.req].kind = "approveChallengeRequest"
    /\ \A c \in Challenges : Watched.challenges[c] = "none"
    /\ page' = [page EXCEPT !.broken = TRUE]
    /\ UNCHANGED <<asked, browser, sessions, account, handlers, url, letters, torn, closings>>

\* A page that offers the user to submit, or does it itself, which it may do
\* again until it is told that its answer arrived.  PutField shows an error
\* unless some field of the session was created.
CanSubmit ==
    LET a == asked[page.req]
    IN
    /\ page # NoPage /\ ~ page.processed
    /\ page.stage \in {"ready", "sent"} /\ page.submits < MaxSubmits
    /\ page.broken => Seamless
    /\ a.kind = "rejectFieldValue" => a.item \in page.seen.rejected
    /\ a.kind = "addField" /\ a.item \in Given => Seamless \/ page.seen.options # {}

\* Mutant of the next definition: a revised value is added.
EnteredAnew(a) == [page.seen.fields EXCEPT ![a.item] = Append(@, page.req)]

\* The field's entry in the fields the page has seen: added, or its first one
\* changed.
Entered(a) ==
    IF a.kind = "addField"
    THEN [page.seen.fields EXCEPT ![a.item] = Append(@, page.req)]
    ELSE [page.seen.fields EXCEPT ![a.item][1] = page.req]

\* submit, to its write.
Submit ==
    LET a == asked[page.req]
    IN
    /\ CanSubmit
    /\ a.kind = "rejectFieldValue" => page.seen.fields[a.item] # <<>>
    /\ page' = [page EXCEPT !.stage = "written", !.answer = LastRequest(page),
                          !.submits = @ + 1]
    /\ sessions' = IF IsField(a) THEN [sessions EXCEPT ![a.slot].fields = Entered(a)]
                   ELSE sessions
    /\ UNCHANGED <<asked, browser, account, handlers, url, letters, torn, closings>>

\* A secure password without its identity field: the page rejects its request.
GiveUp ==
    /\ CanSubmit /\ IsField(asked[page.req]) /\ asked[page.req].item \in Created
    /\ page' = [page EXCEPT !.stage = "sent", !.answer = LastRequest(page), !.submits = @ + 1]
    /\ mail' = mail \union {[req |-> LastRequest(page), how |-> "reject", value |-> 0]}
    /\ UNCHANGED <<asked, browser, sessions, account, handlers, url, assoc, hidden, torn, closings>>

\* maybeResolve, for the request the page had when it was submitted.  Two pages
\* leave for another one at once.
Send ==
    LET a == asked[page.req]
    IN
    /\ page # NoPage /\ page.stage = "written"
    /\ page' = [page EXCEPT !.stage =
            IF a.kind \in {"approveChallengeRequest", "approveTransitionToAuthOp"}
            THEN "done" ELSE "sent"]
    /\ mail' = mail \union {[req |-> page.answer, how |-> "resolve",
                             value |-> IF IsField(a) THEN page.req ELSE 0]}
    /\ torn' = IF page.answer = page.req THEN torn
               ELSE torn \union (Fields \intersect {a.item, asked[page.answer].item})
    /\ UNCHANGED <<asked, browser, sessions, account, handlers, url, assoc, hidden, closings>>

\* The background has the message: no more answers; most pages leave.
Processed ==
    /\ page # NoPage /\ page.stage = "sent" /\ ~ page.processed
    /\ page' = [page EXCEPT !.processed = TRUE,
                  !.stage = IF asked[page.req].kind \in {"abortChallenge", "closeChallenge"}
                            THEN @ ELSE "done"]
    /\ UNCHANGED <<asked, browser, sessions, account, handlers, url, letters, torn, closings>>

\* Mutant of the next definition: any page that is closed resets the address.
NoUrlAfter(p) == NoUrl

\* A page that has its request and is closed resets the popup's address, to
\* a page of no request.  The user may open another one again.
UrlAfter(p) == IF p.stage # "waiting" /\ asked[p.req].kind \notin RunByThemselves
               THEN NoUrl ELSE url

Leave ==
    /\ ClosePage
    /\ url' = UrlAfter(page)
    /\ UNCHANGED <<asked, browser, sessions, account, handlers, assoc, hidden>>

Close ==
    /\ page # NoPage /\ closings < MaxClosings
    /\ Leave
    /\ closings' = closings + 1

\* The user closes a page that shows an error instead of its request.
Dismiss ==
    /\ page # NoPage /\ page.stage = "ready" /\ ~ CanSubmit
    /\ page.broken \/ asked[page.req].kind = "addField"
    /\ Leave
    /\ UNCHANGED closings

-----------------------------------------------------------------------------
(* The background handles a page's message                                 *)
\* hide: the popup of the request's tab is closed, and cannot be opened.
Hide(m) ==
    /\ m \in mail \ hidden
    /\ hidden' = hidden \union {m}
    /\ IF m.req \in assoc
       THEN /\ ClosePage
            /\ url' = NoUrl
            /\ assoc' = assoc \ {m.req}
       ELSE UNCHANGED <<popup, assoc, mail, torn>>
    /\ UNCHANGED <<asked, browser, sessions, account, handlers, closings>>

\* resolveRequest or rejectRequest.
HandOn(m) ==
    LET a == asked[m.req]
    IN
    /\ m \in hidden
    /\ mail' = mail \ {m} /\ hidden' = hidden \ {m}
    /\ Settle(m.req, m.how, m.value)
    /\ torn' = IF m.how = "reject" /\ reply[m.req] = "none" /\ IsField(a)
                  /\ Contains(sessions[a.slot].fields[a.item], m.req)
               THEN torn \union {a.item} ELSE torn
    /\ UNCHANGED <<asked, sessions, account, handlers, popup, assoc, closings>>

-----------------------------------------------------------------------------
Background == \E r \in DOMAIN asked : Update(r) \/ Refuse(r)
Popup == Open \/ Load \/ Submit \/ GiveUp \/ Send \/ Dismiss
Letters == \E m \in mail : Hide(m) \/ HandOn(m)

Next ==
    \/ \E kind \in Creation \union Authentication \union Login, item \in Items \union {NoItem} :
            Ask(kind, item)
    \/ Background \/ Popup \/ LookTooEarly \/ Processed \/ Close \/ Letters

Spec == Init /\ [][Next]_vars

\* The background and the pages go on, and the user opens the popup again and
\* decides, or closes what cannot be decided on.
FairSpec ==
    /\ Spec
    /\ WF_vars(Background) /\ WF_vars(Popup) /\ WF_vars(Processed) /\ WF_vars(Letters)

-----------------------------------------------------------------------------
(* Properties                                                              *)
\* A page or a message is about to answer for the field.
IsUnderWay(f) ==
    \/ page # NoPage /\ page.stage \in {"written", "sent"} /\ asked[page.req].item = f
    \/ \E m \in mail : asked[m.req].item = f

\* The entry of a field that the manager goes by is the value the web app was
\* told; there is none if it was told none.
IsAsTold(fields, f) ==
    IF told[f] = 0 THEN fields[f] = <<>> ELSE fields[f] # <<>> /\ Head(fields[f]) = told[f]

\* The record has the fields that were granted and no others, with the values
\* the web app was told, whatever the user closes and however often answers
\* are sent, but for a page that was closed between its write and its answer
\* or that answered another request, and for a field whose option was dropped by
\* a handler that had read the record before: it can be added a second time.
GrantedFieldsAreStored ==
    \A f \in Fields \ torn : ~ IsUnderWay(f) => IsAsTold(sessions[1].fields, f)

\* Requests whose pages wait for the same thing.
AskSame(a, b) ==
    /\ a.item = b.item
    /\ a.kind = b.kind \/ {a.kind, b.kind} = {"abortChallenge", "closeChallenge"}

\* A request that was answered twice: the second answer cleared the busy flag,
\* and the browser may have let a request in while another one was shown.
IsAnsweredTwice == \E r \in Ids : answers[r] = 2

\* A page answers another request than the one it was opened for only if what
\* it waits for had been asked for before, or after a second answer to some
\* request.
StraysAreRepeats ==
    page # NoPage /\ page.answer \notin {0, page.req} =>
        \/ IsAnsweredTwice
        \/ \E q \in 1 .. page.req - 1 : AskSame(asked[q], asked[page.req])

SessionInv == TypeOK /\ GrantedFieldsAreStored /\ StraysAreRepeats

\* The account is saved with the fields the web app was told, unless a second
\* answer to some request let others in while the account was being saved: it
\* is made from the record as it was read before.
AccountHoldsFields ==
    [][account' # account /\ ~ IsAnsweredTwice =>
        \A f \in Fields \ torn : ~ IsUnderWay(f) => IsAsTold(account', f)]_vars

\* A request asked for before, or an answer given twice.
IsTroubled ==
    \/ IsAnsweredTwice
    \/ \E r \in DOMAIN asked : \E q \in 1 .. r - 1 : AskSame(asked[q], asked[r])

Unanswered == \E r \in DOMAIN asked : reply[r] = "none"

\* A user who comes back to the popup has every request answered: no page
\* waits for what is never written, and a popup that was closed without an
\* answer can be opened again for the request it was for.
RequestsAreAnswered == Unanswered ~> ~ Unanswered \/ IsTroubled
=============================================================================
