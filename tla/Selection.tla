------------------------------ MODULE Selection ------------------------------
(***************************************************************************)
(* The choice of a secret manager: Agent.collectCredentialsMetadata asks   *)
(* the registered managers, and PromptService shows those that are         *)
(* relevant to the user (Agent.sys.mts, PromptService.sys.mts).            *)
(*                                                                         *)
(* Every page has a tab of one browser window.  The list box, its radio    *)
(* buttons and the Select button belong to the window: the prompt of one   *)
(* page clears and refills what another one's still shows.                 *)
(*                                                                         *)
(* What SecretStar has a name of its own for begins with Selection here,   *)
(* so that ManagerProofs can extend both.                                  *)
(***************************************************************************)
EXTENDS Naturals, Sequences, SequencesExt, FiniteSets

CONSTANTS
    Managers,       \* secret managers
    Pages,          \* pages that ask for one, each in a tab of its own
    SigningKey,     \* the key of each manager
    Wanted,         \* per page, the sequence secretManagerPublicKey, maybe empty
    Nobody,
    MaxErasures     \* bound: how often a manager is ereased

ASSUME SelectionAssumption ==
    /\ Nobody \notin Managers \union Pages
    /\ IsFiniteSet(Managers)
    /\ \A p \in Pages : Wanted[p] \in Seq(ToSet(Wanted[p]))
    /\ MaxErasures \in Nat

VARIABLES
    managers,       \* the Liaison's managers, in the order they registered
    serving,        \* the request a manager's handler serves, or Nobody
    inFlight,       \* requests that have not been answered
    phase,          \* of a page's prompt
    polled,         \* the managers its collection began with
    key,            \* what became of asking each of them for its signing key
    entries,        \* the managers its prompt lists
    metadata,       \* what became of asking each of those for its metadata
    front,          \* the page whose tab is selected
    owner,          \* the page whose entries fill the list box
    checked,        \* the manager whose radio button is checked
    button,         \* whether the Select button is enabled
    chosen,         \* the manager a page's prompt resolved with
    refilled,       \* history: pages whose open prompt another page's refilled
    refusals,       \* history: <<page, manager>> that a busy or absent handler refused
    erasures        \* counts the erasures

agent == <<managers, serving, inFlight, polled, key, metadata, refusals, erasures>>
window == <<front, owner, checked, button, refilled>>
prompts == <<phase, entries, chosen>>
selectionVars == <<agent, window, prompts>>

ManagerRequest == [manager : Managers, page : Pages, method : {"getSigningKey", "getCredentialsMetadata"}]
Outcome == {"none", "pending", "ok", "no", "error"}

SelectionTypeOK ==
    /\ managers \in Seq(Managers)
    /\ serving \in [Managers -> ManagerRequest \union {Nobody}]
    /\ inFlight \subseteq ManagerRequest
    /\ \A m \in Managers : serving[m] # Nobody => serving[m] \in inFlight /\ serving[m].manager = m
    /\ phase \in [Pages -> {"idle", "asking", "open", "chosen", "aborted", "failed"}]
    /\ polled \in [Pages -> Seq(Managers)] /\ entries \in [Pages -> Seq(Managers)]
    /\ key \in [Pages -> [Managers -> Outcome]]
    /\ metadata \in [Pages -> [Managers -> Outcome]]
    /\ front \in Pages /\ owner \in Pages \union {Nobody}
    /\ checked \in Managers \union {Nobody} /\ button \in BOOLEAN
    /\ chosen \in [Pages -> Managers \union {Nobody}]
    /\ refilled \subseteq Pages /\ refusals \subseteq Pages \X Managers
    /\ erasures \in 0 .. MaxErasures

SelectionInit ==
    /\ managers \in {SetToSeq(Managers)}
    /\ serving = [m \in Managers |-> Nobody] /\ inFlight = {}
    /\ phase = [p \in Pages |-> "idle"]
    /\ polled = [p \in Pages |-> <<>>] /\ entries = [p \in Pages |-> <<>>]
    /\ key = [p \in Pages |-> [m \in Managers |-> "none"]]
    /\ metadata = [p \in Pages |-> [m \in Managers |-> "none"]]
    /\ front \in Pages /\ owner = Nobody /\ checked = Nobody /\ button = FALSE
    /\ chosen = [p \in Pages |-> Nobody]
    /\ refilled = {} /\ refusals = {} /\ erasures = 0

-----------------------------------------------------------------------------
(* Requests                                                                *)
Registered(m) == Contains(managers, m)

\* Array.filter: the elements of s that are in K, in their order.  It is
\* SelectSeq, written as a function that a proof can unfold.
Kept(s, K) ==
    LET kept[n \in 0 .. Len(s)] ==
            IF n = 0 THEN <<>>
            ELSE IF s[n] \in K THEN Append(kept[n - 1], s[n]) ELSE kept[n - 1]
    IN  kept[Len(s)]

\* Agent.target looks the handler up when the message is sent, and the
\* handler serves one request at a time.
Takes(m) == Registered(m) /\ serving[m] = Nobody

Requests(p, method, ms) == {[manager |-> m, page |-> p, method |-> method] : m \in ms}

\* The requests to the managers ms, some of which take them; gone are those
\* whose handler could not be found.
Dispatch(p, method, ms, gone) ==
    LET taken == {m \in ms : Takes(m)}
    IN  /\ inFlight' = inFlight \union Requests(p, method, taken)
        /\ serving' = [m \in Managers |-> IF m \in taken
                                          THEN [manager |-> m, page |-> p, method |-> method]
                                          ELSE serving[m]]
        /\ refusals' = refusals \union {<<p, m>> : m \in gone \union (ms \ taken)}

Ended(r) ==
    /\ inFlight' = inFlight \ {r}
    /\ serving' = [serving EXCEPT ![r.manager] = IF @ = r THEN Nobody ELSE @]

(* The prompt                                                              *)
IsOpen(p) == phase[p] = "open"

\* Whether the closure of a page's prompt has seen a manager's metadata.
AtLeastOneManagerCanBeSelected(p) == \E m \in Managers : metadata[p][m] = "ok"

\* updateSelectButton, called for the prompt of p: it finds no button while
\* no panel is shown.
UpdateSelectButton(p) ==
    button' = IF IsOpen(front) THEN AtLeastOneManagerCanBeSelected(p)' ELSE button

\* The prompt of p lists ms and waits for their metadata.
Show(p, ms) ==
    IF ms = <<>>
    THEN /\ phase' = [phase EXCEPT ![p] = "failed"]
         /\ UNCHANGED <<entries, window, chosen>>
    ELSE /\ phase' = [phase EXCEPT ![p] = "open"]
         /\ entries' = [entries EXCEPT ![p] = ms]
         /\ owner' = p /\ checked' = Head(ms)
         /\ refilled' = refilled \union {q \in Pages \ {p} : IsOpen(q)}
         /\ button' = IF front = p THEN FALSE ELSE button
         /\ UNCHANGED <<front, chosen>>

\* getCredentialsMetadata, asked of each in turn; the first one that is no
\* longer registered fails the prompt and leaves the earlier requests behind.
AskForMetadata(p, ms) ==
    LET absent == {i \in DOMAIN ms : ~Registered(ms[i])}
        reached == {ms[i] : i \in {j \in DOMAIN ms : \A a \in absent : j < a}}
    IN  /\ Dispatch(p, "getCredentialsMetadata", reached, {ms[a] : a \in absent})
        /\ metadata' = [metadata EXCEPT ![p] = [m \in Managers |->
               IF m \notin reached THEN "none"
               ELSE IF Takes(m) THEN "pending" ELSE "error"]]
        /\ IF absent = {} THEN Show(p, ms)
           ELSE /\ phase' = [phase EXCEPT ![p] = "failed"]
                /\ UNCHANGED <<entries, window, chosen>>

-----------------------------------------------------------------------------
(* The page                                                                *)
\* Agent.collectCredentialsMetadata up to its first await.
Collect(p) ==
    /\ phase[p] = "idle"
    /\ polled' = [polled EXCEPT ![p] = managers]
    /\ UNCHANGED <<managers, erasures>>
    /\ IF Wanted[p] = <<>>
       THEN AskForMetadata(p, managers) /\ UNCHANGED key
       ELSE /\ Dispatch(p, "getSigningKey", ToSet(managers), {})
            /\ key' = [key EXCEPT ![p] = [m \in Managers |->
                   IF ~Registered(m) THEN "none" ELSE IF Takes(m) THEN "pending" ELSE "error"]]
            /\ phase' = [phase EXCEPT ![p] = "asking"]
            /\ UNCHANGED <<metadata, entries, window, chosen>>

\* Mutant of the next definition: the index is taken for a truth value, which
\* only 0 is not.
IsWantedByTruth(p, m) == Head(Wanted[p]) # SigningKey[m]

\* keys.indexOf(key) !== -1
IsWanted(p, m) == Contains(Wanted[p], SigningKey[m])

\* Mutant of the next definition: the list is filtered when a manager has
\* answered, whatever the others do.
SomeKeySettled(p) == \E m \in Managers : key[p][m] \in {"ok", "no"}

\* Mutant of the next definition: a promise that was refused does not settle.
KeysAnswered(p) == \A m \in ToSet(polled[p]) : key[p][m] \in {"ok", "no"}

\* Promise.all of the promises that ask for a key.
KeysSettled(p) == \A m \in Managers : key[p][m] # "pending"

\* The rest of collectCredentialsMetadata, and the prompt.
Filter(p) ==
    /\ phase[p] = "asking" /\ KeysSettled(p)
    /\ AskForMetadata(p, Kept(polled[p], {m \in Managers : key[p][m] = "ok"}))
    /\ UNCHANGED <<managers, polled, key, erasures>>

(* The manager                                                             *)
AnswerSigningKey(r) ==
    /\ r \in inFlight /\ r.method = "getSigningKey"
    /\ Ended(r)
    /\ \E failing \in BOOLEAN :
        /\ key' = [key EXCEPT ![r.page][r.manager] =
               IF failing THEN "error" ELSE IF IsWanted(r.page, r.manager) THEN "ok" ELSE "no"]
        /\ refusals' = IF failing THEN refusals \union {<<r.page, r.manager>>} ELSE refusals
    /\ UNCHANGED <<managers, polled, metadata, erasures, window, prompts>>

\* The answer enables the radio button, if the prompt that asked was shown.
AnswerCredentialsMetadata(r) ==
    /\ r \in inFlight /\ r.method = "getCredentialsMetadata"
    /\ Ended(r)
    /\ \E outcome \in {"ok", "error"} :
        metadata' = [metadata EXCEPT ![r.page][r.manager] = outcome]
    /\ IF entries[r.page] = <<>> THEN UNCHANGED button ELSE UpdateSelectButton(r.page)
    /\ UNCHANGED <<managers, polled, key, refusals, erasures>>
    /\ UNCHANGED <<front, owner, checked, refilled, prompts>>

\* An extension unregisters or is shut down; what it was asked is still
\* answered by the page that serves it.
EreaseManager(m) ==
    /\ Registered(m) /\ erasures < MaxErasures
    /\ managers' = Kept(managers, Managers \ {m})
    /\ serving' = [serving EXCEPT ![m] = Nobody]
    /\ erasures' = erasures + 1
    /\ UNCHANGED <<inFlight, polled, key, metadata, refusals, window, prompts>>

RegisterManager(m) ==
    /\ ~Registered(m)
    /\ managers' = Append(managers, m)
    /\ UNCHANGED <<serving, inFlight, polled, key, metadata, refusals, erasures, window, prompts>>

(* The user                                                                *)
\* The panel of the tab is shown anew, with a button of its own.
SwitchTab(p) ==
    /\ p # front
    /\ front' = p
    /\ button' = (IsOpen(p) /\ AtLeastOneManagerCanBeSelected(p))
    /\ UNCHANGED <<agent, owner, checked, refilled, prompts>>

\* The radio button of an entry is enabled once its metadata has arrived.
IsEnabled(p, m) == metadata[p][m] = "ok"

Check(m) ==
    /\ IsOpen(front) /\ owner # Nobody /\ checked # m
    /\ Contains(entries[owner], m) /\ IsEnabled(owner, m)
    /\ checked' = m
    /\ UNCHANGED <<agent, front, owner, button, refilled, prompts>>

Closes(p, how) ==
    /\ IsOpen(p) /\ front = p
    /\ phase' = [phase EXCEPT ![p] = how]
    /\ button' = FALSE
    /\ UNCHANGED <<agent, front, owner, checked, refilled, entries>>

\* mainAction: the promise resolves with the radio button that is checked.
Select(p) ==
    /\ button
    /\ Closes(p, "chosen")
    /\ chosen' = [chosen EXCEPT ![p] = checked]

\* The Cancel button, or the removal of the notification.
Cancel(p) == Closes(p, "aborted") /\ UNCHANGED chosen

SelectionNext ==
    \/ \E p \in Pages : Collect(p) \/ Filter(p) \/ SwitchTab(p) \/ Select(p) \/ Cancel(p)
    \/ \E r \in ManagerRequest : AnswerSigningKey(r) \/ AnswerCredentialsMetadata(r)
    \/ \E m \in Managers : EreaseManager(m) \/ RegisterManager(m) \/ Check(m)

SelectionSpec == SelectionInit /\ [][SelectionNext]_selectionVars

\* Managers answer what they took, and an awaited promise that settled resumes.
SelectionFairSpec ==
    /\ SelectionSpec
    /\ \A m \in Managers, p \in Pages :
        WF_selectionVars(\E r \in Requests(p, "getSigningKey", {m}) : AnswerSigningKey(r))
    /\ \A p \in Pages : WF_selectionVars(Filter(p))

-----------------------------------------------------------------------------
(* Properties                                                              *)
\* A page that requires a key gets a manager that has one of its keys, unless
\* the prompt of another page refilled the list while its own was open
\* (Agent.sys.mts:31-56; nothing after the prompt looks at the key again).
ChosenHasAKey ==
    \A p \in Pages : phase[p] = "chosen" /\ Wanted[p] # <<>> /\ p \notin refilled =>
        SigningKey[chosen[p]] \in ToSet(Wanted[p])

\* A registered manager that has a wanted key is listed, or its handler was
\* busy or gone when this page asked, or it failed: another page's prompt can
\* make a manager disappear, and nothing else can (Agent.sys.mts:38-55).
LeftOutForAReason ==
    \A p \in Pages, m \in Managers :
        /\ phase[p] \in {"open", "chosen", "aborted", "failed"}
        /\ Contains(polled[p], m) /\ SigningKey[m] \in ToSet(Wanted[p])
        => \/ Contains(entries[p], m) \/ <<p, m>> \in refusals
           \/ phase[p] = "failed" /\ \E n \in Managers : <<p, n>> \in refusals

\* What a page gets while no other one refilled its list answered with its
\* metadata, or is the one whose radio button was checked from the start
\* though disabled (PromptService.sys.mts:115-118, 131-132).
ChosenAnsweredOrFirst ==
    \A p \in Pages : phase[p] = "chosen" /\ p \notin refilled =>
        chosen[p] = Head(entries[p]) \/ metadata[p][chosen[p]] = "ok"

\* What is chosen from a list that stayed its page's own is right, and
\* everything has its type.
ChoiceInv == SelectionTypeOK /\ ChosenHasAKey /\ ChosenAnsweredOrFirst

\* The collection of a page ends, whichever managers are ereased, busy or fail
\* while it waits: the user gets a prompt, or the page an error.
CollectionEnds == \A p \in Pages : phase[p] = "asking" ~> phase[p] # "asking"

=============================================================================
