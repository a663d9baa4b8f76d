------------------------------ MODULE Accounts ------------------------------
(***************************************************************************)
(* The account side of the web application's backend: the endpoints        *)
(* create, exists, id and the last part of finish, over the tables of      *)
(* accounts, fields and user attributes (db/models/Account.ts).            *)
(*                                                                         *)
(* Every statement runs by itself on the connection pool, so a request is  *)
(* a sequence of steps, one per statement, between which the steps of      *)
(* other requests come.  One version of the account's definition is        *)
(* modelled: no statement relates two of them.                             *)
(*                                                                         *)
(* What AuthBackend has a name of its own for begins with Accounts here,   *)
(* so that BackendProofs can extend both.                                  *)
(***************************************************************************)
EXTENDS Integers, FiniteSets, Sequences

CONSTANTS
    Requests,           \* the requests that are made
    Fields,             \* fields of an account
    KeyFields,          \* the fields that identify an account
    Values,             \* values of fields
    Inputs,             \* lists of fields that clients send
    CreatesAtOnce,      \* a bound: how many creates are served at a time
    MayStop             \* whether the server may stop while serving

ASSUME KeyFieldsAssumption ==
    IsFiniteSet(KeyFields) /\ KeyFields # {} /\ KeyFields \subseteq Fields
ASSUME InputsAssumption == Inputs \subseteq Seq([id : Fields, value : Values]) \ {<<>>}
ASSUME BoundsAssumption ==
    IsFiniteSet(Requests) /\ CreatesAtOnce \in Nat /\ MayStop \in BOOLEAN

VARIABLES
    accounts,       \* berytus_account: the ids handed out
    rows,           \* berytus_account_field
    attributes,     \* accounts with a row in berytus_account_user_attributes
    sessions,       \* berytus_account_auth_session: the account of each
    asked,          \* what each request asks for
    stage,          \* the statement it comes to next
    found,          \* the account it has found or inserted
    answer          \* what it was answered

tables == <<accounts, rows, attributes, sessions>>
accountsVars == <<tables, asked, stage, found, answer>>

NoAccount == 0
Operations == {"create", "exists", "id"}
Unasked == [op |-> "none"]

-----------------------------------------------------------------------------
(***************************************************************************)
(* AccountDefKeyFieldList                                                  *)
(***************************************************************************)
FieldsOf(input) == {input[i].id : i \in DOMAIN input}

DoFieldInputsContainAllKeyFields(input) == KeyFields \subseteq FieldsOf(input)

\* pickKeyFieldInputsFrom: the first input of each key field.
PickKeyFieldInputsFrom(input) ==
    [f \in KeyFields |->
        LET i == CHOOSE i \in DOMAIN input :
                    input[i].id = f /\ \A j \in DOMAIN input : input[j].id = f => i <= j
        IN  input[i].value]

(***************************************************************************)
(* getAccount: accounts with a row of a key field, most such rows first.   *)
(***************************************************************************)
Matching(a, input) ==
    {f \in KeyFields :
        [account |-> a, id |-> f, value |-> PickKeyFieldInputsFrom(input)[f]] \in rows}

MatchCount(a, input) == Cardinality(Matching(a, input))

\* Mutant: an account that shares a key field will do.
GetAccountOfAny(input) ==
    LET first == {a \in accounts : Matching(a, input) # {}}
    IN  IF first = {} THEN {NoAccount} ELSE first

\* The accounts the first row may have, or none.
GetAccount(input) ==
    LET first == {a \in accounts :
                    /\ Matching(a, input) # {}
                    /\ \A b \in accounts : MatchCount(b, input) <= MatchCount(a, input)}
    IN  {IF MatchCount(a, input) < Cardinality(KeyFields) THEN NoAccount ELSE a : a \in first}
            \union (IF first = {} THEN {NoAccount} ELSE {})

-----------------------------------------------------------------------------
AccountsInit ==
    /\ accounts = {}
    /\ rows = {}
    /\ attributes = {}
    /\ sessions = {}
    /\ asked = [r \in Requests |-> Unasked]
    /\ stage = [r \in Requests |-> "idle"]
    /\ found = [r \in Requests |-> NoAccount]
    /\ answer = [r \in Requests |-> "none"]

Creating(r) == asked[r].op = "create" /\ stage[r] \in {"lookup", "insert", "attributes"}

AccountsReceive(r) ==
    /\ stage[r] = "idle"
    /\ \E kind \in Operations, input \in Inputs :
        /\ kind = "create" => Cardinality({q \in Requests : Creating(q)}) < CreatesAtOnce
        /\ asked' = [asked EXCEPT ![r] = [op |-> kind, input |-> input]]
    /\ stage' = [stage EXCEPT ![r] = "lookup"]
    /\ UNCHANGED <<tables, found, answer>>

Reply(r, a) ==
    /\ stage' = [stage EXCEPT ![r] = "done"]
    /\ answer' = [answer EXCEPT ![r] = a]

Proceed(r, next) ==
    /\ stage' = [stage EXCEPT ![r] = next]
    /\ UNCHANGED answer

Asks(r, kind) == asked[r].op = kind

\* Mutants of Lookup: create and id go on whatever was found.
LookupUnchecked(r) ==
    /\ stage[r] = "lookup"
    /\ DoFieldInputsContainAllKeyFields(asked[r].input)
    /\ \E a \in GetAccount(asked[r].input) : found' = [found EXCEPT ![r] = a]
    /\ \/ Asks(r, "create") /\ Proceed(r, "insert")
       \/ Asks(r, "id") /\ Proceed(r, "session")
    /\ UNCHANGED <<tables, asked>>

\* getAccount, and what each endpoint does with its result.
Lookup(r) ==
    /\ stage[r] = "lookup"
    /\ \/ /\ ~ DoFieldInputsContainAllKeyFields(asked[r].input)
          /\ Reply(r, "malformed")
          /\ UNCHANGED found
       \/ /\ DoFieldInputsContainAllKeyFields(asked[r].input)
          /\ \E a \in GetAccount(asked[r].input) :
                /\ found' = [found EXCEPT ![r] = a]
                /\ \/ a # NoAccount /\ Asks(r, "create") /\ Reply(r, "reserved")
                   \/ a = NoAccount /\ Asks(r, "create") /\ Proceed(r, "insert")
                   \/ a # NoAccount /\ Asks(r, "exists") /\ Reply(r, "exists")
                   \/ a = NoAccount /\ Asks(r, "exists") /\ Reply(r, "absent")
                   \/ a # NoAccount /\ Asks(r, "id") /\ Proceed(r, "session")
                   \/ a = NoAccount /\ Asks(r, "id") /\ Reply(r, "not found")
    /\ UNCHANGED <<tables, asked>>

\* The primary key of berytus_account_field.
Duplicates(input) == \E i, j \in DOMAIN input : i # j /\ input[i].id = input[j].id

RowsOf(a, input) ==
    {[account |-> a, id |-> input[i].id, value |-> input[i].value] : i \in DOMAIN input}

\* #createAccount: one statement, all of it or nothing.
InsertAccount(r) ==
    LET a == Cardinality(accounts) + 1
        input == asked[r].input
    IN
    /\ stage[r] = "insert"
    /\ \/ /\ Duplicates(input)
          /\ Reply(r, "failed")
          /\ UNCHANGED <<accounts, rows, found>>
       \/ /\ ~ Duplicates(input)
          /\ accounts' = accounts \union {a}
          /\ rows' = rows \union RowsOf(a, input)
          /\ found' = [found EXCEPT ![r] = a]
          /\ Proceed(r, "attributes")
    /\ UNCHANGED <<attributes, sessions, asked>>

\* Mutant: the attributes are forgotten.
CreateNoUserAttributes(r) ==
    /\ stage[r] = "attributes"
    /\ Reply(r, "created")
    /\ UNCHANGED <<tables, asked, found>>

CreateUserAttributes(r) ==
    /\ stage[r] = "attributes"
    /\ attributes' = attributes \union {found[r]}
    /\ Reply(r, "created")
    /\ UNCHANGED <<accounts, rows, sessions, asked, found>>

CreateSession(r) ==
    /\ stage[r] = "session"
    /\ sessions' = sessions \union {[of |-> r, account |-> found[r]]}
    /\ Reply(r, "session")
    /\ UNCHANGED <<accounts, rows, attributes, asked, found>>

\* getUserAttributes, of a session that finish has just made succeed.
GetUserAttributes(r) ==
    /\ stage[r] = "done"
    /\ answer[r] = "session"
    /\ \E s \in sessions :
        /\ s.of = r
        /\ Reply(r, IF s.account \in attributes THEN "welcome" ELSE "no attributes")
    /\ UNCHANGED <<tables, asked, found>>

\* The server stops: its requests get no answer, and the tables remain.
Stop ==
    /\ MayStop
    /\ stage' = [r \in Requests |-> IF stage[r] = "idle" THEN "idle" ELSE "done"]
    /\ stage' # stage
    /\ UNCHANGED <<tables, asked, found, answer>>

AccountsServe(r) ==
    Lookup(r) \/ InsertAccount(r) \/ CreateUserAttributes(r) \/ CreateSession(r)

AccountsNext == Stop \/ \E r \in Requests : AccountsReceive(r) \/ AccountsServe(r) \/ GetUserAttributes(r)

AccountsSpec == AccountsInit /\ [][AccountsNext]_accountsVars

-----------------------------------------------------------------------------
Answers == {"none", "malformed", "reserved", "exists", "absent", "not found", "failed",
            "created", "session", "welcome", "no attributes"}

AccountsTypeOK ==
    /\ accounts \subseteq Nat \ {NoAccount}
    /\ rows \subseteq [account : accounts, id : Fields, value : Values]
    /\ attributes \subseteq accounts
    /\ sessions \subseteq [of : Requests, account : accounts]
    /\ asked \in [Requests -> [op : Operations, input : Inputs] \union {Unasked}]
    /\ stage \in [Requests -> {"idle", "lookup", "insert", "attributes", "session", "done"}]
    /\ found \in [Requests -> accounts \union {NoAccount}]
    /\ answer \in [Requests -> Answers]

(***************************************************************************)
(* Safety                                                                  *)
(***************************************************************************)
Holds(a, identity) ==
    \A f \in KeyFields : [account |-> a, id |-> f, value |-> identity[f]] \in rows

\* "Passed identity fields are reserved" (Account.ts:145): two accounts never
\* have the same values of all key fields.  Nothing but the lookup before the
\* insertion sees to it, and the tables have no constraint that says it.
AccountsAreDistinct ==
    \A identity \in [KeyFields -> Values] : \A a, b \in accounts :
        Holds(a, identity) /\ Holds(b, identity) => a = b

\* A session is of an account with the identity its client gave, for all the
\* key fields and not for some, whatever was inserted since the lookup.
SessionsAreOwners ==
    \A s \in sessions : Holds(s.account, PickKeyFieldInputsFrom(asked[s.of].input))

(***************************************************************************)
(* The directory                                                           *)
(***************************************************************************)
Identities == [KeyFields -> Values]
Nobody == <<>>

Verdict(r) ==
    CASE asked[r] = Unasked -> "none"
      [] asked[r].op = "create" /\ found[r] # NoAccount ->
            IF answer[r] = "reserved" THEN "known" ELSE "new"
      [] answer[r] = "exists" \/ (asked[r].op = "id" /\ found[r] # NoAccount) -> "known"
      [] answer[r] \in {"absent", "not found"} -> "unknown"
      [] OTHER -> "none"

DirectoryOf == INSTANCE Directory WITH
    registered <- {identity \in Identities : \E a \in accounts : Holds(a, identity)},
    subject <- [r \in Requests |->
                    IF asked[r] # Unasked /\ DoFieldInputsContainAllKeyFields(asked[r].input)
                    THEN PickKeyFieldInputsFrom(asked[r].input) ELSE Nobody],
    verdict <- [r \in Requests |-> Verdict(r)]

\* The lookup's count of matching rows and the two-step creation implement the
\* directory: a refusal, a find and a miss are all true when they are decided.
ImplementsDirectory == DirectoryOf!Spec

(***************************************************************************)
(* Liveness: the server keeps serving what it has received.                *)
(***************************************************************************)
AccountsFairSpec == AccountsSpec /\ \A r \in Requests : WF_accountsVars(AccountsServe(r))

Interrupted(r) == stage[r] = "done" /\ answer[r] = "none"

\* Unless the server stops between its two statements, creation goes on to
\* the user attributes: no account stays without them, for finish to miss.
AccountsGetAttributes ==
    \A r \in Requests :
        found[r] \in accounts /\ answer[r] = "none" /\ Asks(r, "create")
            ~> found[r] \in attributes \/ Interrupted(r)
=============================================================================
