---------------------------- MODULE BackendProofs ----------------------------
(***************************************************************************)
(* What holds of the web application's backend: of its accounts, for any   *)
(* key fields, inputs and number of requests, and of authentication, for   *)
(* every set of challenges, nonces and concurrent requests.                *)
(***************************************************************************)
EXTENDS Accounts, AuthBackend, FiniteSetTheorems, WellFoundedInduction, TLAPS

(***************************************************************************)
(* Accounts.                                                               *)
(***************************************************************************)
-----------------------------------------------------------------------------
(***************************************************************************)
(* getAccount                                                              *)
(***************************************************************************)
LEMMA MatchingAll ==
  ASSUME NEW a, NEW input
  PROVE  /\ Matching(a, input) \subseteq KeyFields
         /\ MatchCount(a, input) \in Nat
         /\ Cardinality(KeyFields) \in Nat
         /\ MatchCount(a, input) <= Cardinality(KeyFields)
         /\ MatchCount(a, input) = Cardinality(KeyFields) <=> Holds(a, PickKeyFieldInputsFrom(input))
<1>1. Matching(a, input) \subseteq KeyFields
  BY DEF Matching
<1>2. /\ IsFiniteSet(Matching(a, input))
      /\ Cardinality(Matching(a, input)) <= Cardinality(KeyFields)
      /\ Cardinality(KeyFields) = Cardinality(Matching(a, input)) => KeyFields = Matching(a, input)
  BY <1>1, FS_Subset, KeyFieldsAssumption
<1>3. Cardinality(Matching(a, input)) \in Nat /\ Cardinality(KeyFields) \in Nat
  BY <1>2, FS_CardinalityType, KeyFieldsAssumption
<1>4. KeyFields = Matching(a, input) <=> Holds(a, PickKeyFieldInputsFrom(input))
  BY DEF Matching, Holds
<1> QED  BY <1>1, <1>2, <1>3, <1>4 DEF MatchCount

\* getAccount returns an account with all the key fields of the input, or none
\* if there is no such account: the count it compares is a count of key fields.
LEMMA GetAccountFinds ==
  ASSUME NEW input, NEW a \in GetAccount(input), NoAccount \notin accounts
  PROVE  IF a = NoAccount
         THEN \A b \in accounts : ~ Holds(b, PickKeyFieldInputsFrom(input))
         ELSE a \in accounts /\ Holds(a, PickKeyFieldInputsFrom(input))
<1> DEFINE first == {c \in accounts :
                        /\ Matching(c, input) # {}
                        /\ \A b \in accounts : MatchCount(b, input) <= MatchCount(c, input)}
<1>1. CASE a # NoAccount
  <2>1. a \in first /\ ~ MatchCount(a, input) < Cardinality(KeyFields)
    BY <1>1 DEF GetAccount
  <2>2. MatchCount(a, input) = Cardinality(KeyFields)
    BY <2>1, MatchingAll
  <2> QED  BY <1>1, <2>1, <2>2, MatchingAll
<1>2. CASE a = NoAccount
  <2> SUFFICES ASSUME NEW b \in accounts, Holds(b, PickKeyFieldInputsFrom(input))
               PROVE  FALSE
    BY <1>2
  <2>1. MatchCount(b, input) = Cardinality(KeyFields) /\ Matching(b, input) # {}
    BY MatchingAll, KeyFieldsAssumption DEF Matching, Holds
  <2>2. \A c \in accounts : MatchCount(c, input) <= MatchCount(b, input)
    BY <2>1, MatchingAll
  <2>3. b \in first
    BY <2>1, <2>2
  <2>4. PICK c \in first : MatchCount(c, input) < Cardinality(KeyFields)
    BY <1>2, <2>3 DEF GetAccount
  <2>5. MatchCount(b, input) <= MatchCount(c, input)
    BY <2>4
  <2> QED  BY <2>1, <2>4, <2>5, MatchingAll
<1> QED  BY <1>1, <1>2

\* What the rows of an input without duplicates say about its account.
LEMMA RowsHold ==
  ASSUME NEW input \in Inputs, DoFieldInputsContainAllKeyFields(input), ~ Duplicates(input),
         NEW a, NEW f \in KeyFields, NEW v
  PROVE  [account |-> a, id |-> f, value |-> v] \in RowsOf(a, input)
            <=> v = PickKeyFieldInputsFrom(input)[f]
<1>1. PICK i \in DOMAIN input : input[i].id = f
  BY DEF DoFieldInputsContainAllKeyFields, FieldsOf
<1>2. \A j \in DOMAIN input : input[j].id = f => j = i
  BY <1>1 DEF Duplicates
<1>3. i <= i
  BY <1>1, InputsAssumption
<1>4. PickKeyFieldInputsFrom(input)[f] = input[i].value
  BY <1>1, <1>2, <1>3 DEF PickKeyFieldInputsFrom
<1> QED  BY <1>1, <1>2, <1>4 DEF RowsOf

-----------------------------------------------------------------------------
(***************************************************************************)
(* Type correctness                                                        *)
(***************************************************************************)
\* Ids are handed out in order, and a request under way has been asked.
Numbered == \E n \in Nat : accounts = 1 .. n

Asked == \A r \in Requests : stage[r] # "idle" => asked[r] # Unasked

Located ==
  \A r \in Requests : stage[r] \in {"attributes", "session"} => found[r] # NoAccount

TypeInv == AccountsTypeOK /\ Numbered /\ Asked /\ Located

LEMMA InitTypeInv == AccountsInit => TypeInv
<1>1. 1 .. 0 = {}
  OBVIOUS
<1> QED  BY <1>1 DEF AccountsInit, TypeInv, AccountsTypeOK, Numbered, Asked, Located, Answers, Unasked

LEMMA NumberedNext ==
  ASSUME Numbered
  PROVE  LET a == Cardinality(accounts) + 1
         IN  /\ a \in Nat \ {NoAccount}
             /\ a \notin accounts
             /\ \E n \in Nat : accounts \union {a} = 1 .. n
<1> PICK n \in Nat : accounts = 1 .. n
  BY DEF Numbered
<1>1. Cardinality(1 .. n) = n
  BY FS_Interval
<1>2. (1 .. n) \union {n + 1} = 1 .. n + 1
  OBVIOUS
<1> QED  BY <1>1, <1>2 DEF NoAccount

LEMMA AskedInput ==
  ASSUME TypeInv, NEW r \in Requests, stage[r] # "idle"
  PROVE  asked[r].op \in Operations /\ asked[r].input \in Inputs
  BY DEF TypeInv, AccountsTypeOK, Asked

LEMMA ElementType ==
  ASSUME NEW S, NEW s \in Seq(S), NEW i \in DOMAIN s  PROVE  s[i] \in S
  OBVIOUS

LEMMA RowsOfType ==
  ASSUME NEW input \in Inputs, NEW a
  PROVE  RowsOf(a, input) \subseteq [account : {a}, id : Fields, value : Values]
<1>1. \A i \in DOMAIN input : input[i] \in [id : Fields, value : Values]
  <2>1. input \in Seq([id : Fields, value : Values])
    BY InputsAssumption
  <2> QED  BY <2>1, ElementType
<1> QED  BY <1>1 DEF RowsOf

LEMMA NextTypeInv == TypeInv /\ [AccountsNext]_accountsVars => TypeInv'
<1> SUFFICES ASSUME TypeInv, [AccountsNext]_accountsVars  PROVE  TypeInv'
  OBVIOUS
<1> USE DEF TypeInv
<1>1. ASSUME NEW r \in Requests, AccountsReceive(r)  PROVE  TypeInv'
  <2>1. PICK kind \in Operations, input \in Inputs :
            asked' = [asked EXCEPT ![r] = [op |-> kind, input |-> input]]
    BY <1>1 DEF AccountsReceive
  <2>2. asked' \in [Requests -> [op : Operations, input : Inputs] \union {Unasked}]
    BY <2>1 DEF AccountsTypeOK
  <2>3. asked'[r] # Unasked
    BY <2>1 DEF AccountsTypeOK, Operations, Unasked
  <2>4. Asked'
    BY <1>1, <2>1, <2>3 DEF AccountsTypeOK, Asked, AccountsReceive
  <2>5. Located'
    BY <1>1 DEF AccountsTypeOK, Located, AccountsReceive
  <2> QED  BY <1>1, <2>2, <2>4, <2>5 DEF AccountsTypeOK, Numbered, AccountsReceive, tables
<1>2. ASSUME NEW r \in Requests, Lookup(r)  PROVE  TypeInv'
  <2>1. UNCHANGED <<accounts, rows, attributes, sessions, asked>> /\ stage[r] = "lookup"
    BY <1>2 DEF Lookup, tables
  <2>2. stage' \in [Requests -> {"idle", "lookup", "insert", "attributes", "session", "done"}]
    BY <1>2 DEF Lookup, Reply, Proceed, AccountsTypeOK
  <2>3. answer' \in [Requests -> Answers]
    BY <1>2 DEF Lookup, Reply, Proceed, AccountsTypeOK, Answers
  <2>4. found' \in [Requests -> accounts \union {NoAccount}]
    <3>1. CASE UNCHANGED found
      BY <3>1 DEF AccountsTypeOK
    <3>2. CASE \E a \in GetAccount(asked[r].input) : found' = [found EXCEPT ![r] = a]
      <4>1. PICK a \in GetAccount(asked[r].input) : found' = [found EXCEPT ![r] = a]
        BY <3>2
      <4>2. a \in accounts \union {NoAccount}
        BY <4>1, GetAccountFinds DEF AccountsTypeOK
      <4> QED  BY <4>1, <4>2 DEF AccountsTypeOK
    <3> QED  BY <1>2, <3>1, <3>2 DEF Lookup
  <2>5. Asked'
    BY <1>2, <2>1 DEF AccountsTypeOK, Asked, Lookup, Reply, Proceed
  <2>6. Located'
    <3>1. \A q \in Requests : q # r => stage'[q] = stage[q] /\ found'[q] = found[q]
      BY <1>2 DEF AccountsTypeOK, Lookup, Reply, Proceed
    <3>2. stage'[r] = "session" => found'[r] # NoAccount
      BY <1>2 DEF AccountsTypeOK, Lookup, Reply, Proceed
    <3>3. stage'[r] # "attributes"
      BY <1>2 DEF AccountsTypeOK, Lookup, Reply, Proceed
    <3> QED  BY <3>1, <3>2, <3>3 DEF Located
  <2> QED  BY <2>1, <2>2, <2>3, <2>4, <2>5, <2>6 DEF AccountsTypeOK, Numbered
<1>3. ASSUME NEW r \in Requests, InsertAccount(r)  PROVE  TypeInv'
  <2> DEFINE a == Cardinality(accounts) + 1
             input == asked[r].input
  <2>1. stage[r] = "insert" /\ UNCHANGED <<attributes, sessions, asked>>
    BY <1>3 DEF InsertAccount
  <2>2. Asked' /\ stage' \in [Requests -> {"idle", "lookup", "insert", "attributes", "session", "done"}]
    BY <1>3, <2>1 DEF AccountsTypeOK, Asked, InsertAccount, Reply, Proceed
  <2>3. answer' \in [Requests -> Answers]
    BY <1>3 DEF InsertAccount, Reply, Proceed, AccountsTypeOK, Answers
  <2>4. CASE UNCHANGED <<accounts, rows, found>> /\ Reply(r, "failed")
    <3>1. stage' = [stage EXCEPT ![r] = "done"]
      BY <1>3, <2>4 DEF AccountsTypeOK, InsertAccount, Reply, Proceed
    <3>2. Located'
      BY <2>4, <3>1 DEF AccountsTypeOK, Located
    <3> QED  BY <2>1, <2>2, <2>3, <2>4, <3>2 DEF AccountsTypeOK, Numbered
  <2>5. CASE /\ accounts' = accounts \union {a}
             /\ rows' = rows \union RowsOf(a, input)
             /\ found' = [found EXCEPT ![r] = a]
    <3>1. a \in Nat \ {NoAccount} /\ \E n \in Nat : accounts' = 1 .. n
      BY <2>5, NumberedNext
    <3>2. RowsOf(a, input) \subseteq [account : {a}, id : Fields, value : Values]
      BY <2>1, AskedInput, RowsOfType
    <3>3. rows' \subseteq [account : accounts', id : Fields, value : Values]
      BY <2>5, <3>2 DEF AccountsTypeOK
    <3>4. found' \in [Requests -> accounts' \union {NoAccount}]
      BY <2>5 DEF AccountsTypeOK
    <3>5. attributes' \subseteq accounts' /\ sessions' \subseteq [of : Requests, account : accounts']
      BY <2>1, <2>5 DEF AccountsTypeOK
    <3>6. accounts' \subseteq Nat \ {NoAccount}
      BY <2>5, <3>1 DEF AccountsTypeOK
    <3>7. Located'
      BY <1>3, <2>5, <3>1 DEF AccountsTypeOK, Located, InsertAccount, Reply, Proceed
    <3> QED  BY <2>1, <2>2, <2>3, <3>1, <3>3, <3>4, <3>5, <3>6, <3>7 DEF AccountsTypeOK, Numbered
  <2> QED  BY <1>3, <2>4, <2>5 DEF InsertAccount
<1>4. ASSUME NEW r \in Requests, CreateUserAttributes(r)  PROVE  TypeInv'
  <2>1. found[r] \in accounts /\ stage[r] # "idle"
    BY <1>4 DEF AccountsTypeOK, Located, CreateUserAttributes
  <2> QED
    BY <1>4, <2>1 DEF AccountsTypeOK, Answers, Numbered, Asked, Located, CreateUserAttributes, Reply
<1>5. ASSUME NEW r \in Requests, CreateSession(r)  PROVE  TypeInv'
  <2>1. found[r] \in accounts /\ stage[r] # "idle"
    BY <1>5 DEF AccountsTypeOK, Located, CreateSession
  <2>2. sessions' \subseteq [of : Requests, account : accounts]
    BY <1>5, <2>1 DEF AccountsTypeOK, CreateSession
  <2> QED
    BY <1>5, <2>1, <2>2 DEF AccountsTypeOK, Answers, Numbered, Asked, Located, CreateSession, Reply
<1>6. ASSUME NEW r \in Requests, GetUserAttributes(r)  PROVE  TypeInv'
  <2>1. UNCHANGED <<tables, asked, found>>
    BY <1>6 DEF GetUserAttributes
  <2>2. stage' = [stage EXCEPT ![r] = "done"]
    BY <1>6 DEF GetUserAttributes, Reply
  <2>3. \E a \in {"welcome", "no attributes"} : answer' = [answer EXCEPT ![r] = a]
    BY <1>6 DEF GetUserAttributes, Reply
  <2>4. answer' \in [Requests -> Answers]
    BY <2>3 DEF AccountsTypeOK, Answers
  <2>5. stage[r] = "done"
    BY <1>6 DEF GetUserAttributes
  <2>6. stage' \in [Requests -> {"idle", "lookup", "insert", "attributes", "session", "done"}]
    BY <2>2 DEF AccountsTypeOK
  <2>7. Asked' /\ Located'
    BY <2>1, <2>2, <2>5 DEF AccountsTypeOK, Asked, Located
  <2> QED  BY <2>1, <2>4, <2>6, <2>7 DEF AccountsTypeOK, Numbered, tables
<1>7. CASE Stop
  <2>1. stage' = [r \in Requests |-> IF stage[r] = "idle" THEN "idle" ELSE "done"]
    BY <1>7 DEF Stop
  <2>2. stage' \in [Requests -> {"idle", "lookup", "insert", "attributes", "session", "done"}]
    BY <2>1
  <2>3. Asked' /\ Located'
    BY <1>7, <2>1 DEF Asked, Located, Stop
  <2> QED  BY <1>7, <2>2, <2>3 DEF AccountsTypeOK, Numbered, Stop, tables
<1>8. CASE UNCHANGED accountsVars
  BY <1>8 DEF AccountsTypeOK, Numbered, Asked, Located, accountsVars, tables
<1> QED
  BY <1>1, <1>2, <1>3, <1>4, <1>5, <1>6, <1>7, <1>8 DEF AccountsNext, AccountsServe

\* The tables and the requests keep their types: rows, sessions and attributes
\* are of accounts that exist, and requests go on with accounts that do.
THEOREM AccountsTypeCorrect == AccountsSpec => []AccountsTypeOK
<1>1. TypeInv => AccountsTypeOK
  BY DEF TypeInv
<1> QED  BY <1>1, InitTypeInv, NextTypeInv, PTL DEF AccountsSpec

-----------------------------------------------------------------------------
(***************************************************************************)
(* Sessions                                                                *)
(***************************************************************************)
Wants(r) == PickKeyFieldInputsFrom(asked[r].input)

OwnersInv ==
  /\ TypeInv
  /\ \A r \in Requests : stage[r] = "session" => Holds(found[r], Wants(r))
  /\ \A s \in sessions : stage[s.of] # "idle" /\ Holds(s.account, Wants(s.of))

\* Nothing is deleted or updated, and a request is what it was.
LEMMA TablesGrow ==
  ASSUME TypeInv, [AccountsNext]_accountsVars
  PROVE  /\ rows \subseteq rows' /\ accounts \subseteq accounts'
         /\ \A q \in Requests : stage[q] # "idle" => asked'[q] = asked[q] /\ stage'[q] # "idle"
<1>1. ASSUME NEW r \in Requests, AccountsReceive(r)
      PROVE  /\ UNCHANGED <<rows, accounts>>
             /\ \A q \in Requests : stage[q] # "idle" => asked'[q] = asked[q] /\ stage'[q] # "idle"
  <2>1. PICK x : asked' = [asked EXCEPT ![r] = x]
    BY <1>1 DEF AccountsReceive
  <2> QED  BY <1>1, <2>1 DEF TypeInv, AccountsTypeOK, AccountsReceive, tables
<1>2. ASSUME NEW r \in Requests, AccountsServe(r) \/ GetUserAttributes(r)
      PROVE  /\ rows \subseteq rows' /\ accounts \subseteq accounts' /\ UNCHANGED asked
             /\ \A q \in Requests : stage[q] # "idle" => stage'[q] # "idle"
  BY <1>2
  DEF TypeInv, AccountsTypeOK, AccountsServe, Lookup, InsertAccount, CreateUserAttributes, CreateSession,
      GetUserAttributes, Reply, Proceed, tables
<1>3. CASE Stop
  BY <1>3 DEF Stop, tables
<1>4. CASE UNCHANGED accountsVars
  BY <1>4 DEF accountsVars, tables
<1> QED  BY <1>1, <1>2, <1>3, <1>4 DEF AccountsNext

LEMMA NextOwners == OwnersInv /\ [AccountsNext]_accountsVars => OwnersInv'
<1> SUFFICES ASSUME OwnersInv, [AccountsNext]_accountsVars  PROVE  OwnersInv'
  OBVIOUS
<1>1. TypeInv /\ TypeInv'
  BY NextTypeInv DEF OwnersInv
<1>2. \A a, i : Holds(a, i) => Holds(a, i)'
  BY <1>1, TablesGrow DEF Holds
<1>3. \A q \in Requests : stage[q] # "idle" => Wants(q)' = Wants(q)
  BY <1>1, TablesGrow DEF Wants
<1>4. ASSUME NEW q \in Requests, stage'[q] = "session"
      PROVE  Holds(found[q], Wants(q))'
  <2>1. CASE stage[q] = "session" /\ found'[q] = found[q]
    <3> PICK a : a = found[q] /\ a = found'[q]
      BY <2>1
    <3> PICK i : i = Wants(q) /\ i = Wants(q)'
      BY <1>3, <2>1
    <3>1. Holds(a, i)'
      BY <1>2, <2>1 DEF OwnersInv
    <3> QED  BY <3>1
  <2>2. CASE Lookup(q)
    <3>1. DoFieldInputsContainAllKeyFields(asked[q].input)
      BY <1>1, <1>4, <2>2 DEF TypeInv, AccountsTypeOK, Lookup, Reply
    <3>2. PICK a \in GetAccount(asked[q].input) :
              found' = [found EXCEPT ![q] = a] /\ a # NoAccount
      BY <1>1, <1>4, <2>2, <3>1 DEF TypeInv, AccountsTypeOK, Lookup, Reply, Proceed
    <3>3. Holds(a, Wants(q)) /\ stage[q] # "idle"
      BY <1>1, <2>2, <3>2, GetAccountFinds DEF TypeInv, AccountsTypeOK, Wants, Lookup
    <3> PICK i : i = Wants(q) /\ i = Wants(q)'
      BY <1>3, <3>3
    <3>4. Holds(a, i)' /\ found'[q] = a
      BY <1>1, <1>2, <3>2, <3>3 DEF TypeInv, AccountsTypeOK
    <3> QED  BY <3>4
  <2>3. ASSUME NEW r \in Requests, Lookup(r), r # q
        PROVE  stage[q] = "session" /\ found'[q] = found[q]
    BY <1>1, <1>4, <2>3 DEF TypeInv, AccountsTypeOK, Lookup, Reply, Proceed
  <2>4. ASSUME NEW r \in Requests, InsertAccount(r)
        PROVE  stage[q] = "session" /\ found'[q] = found[q]
    <3>1. stage'[r] \in {"done", "attributes"} /\ \A p \in Requests \ {r} : found'[p] = found[p] /\ stage'[p] = stage[p]
      BY <1>1, <2>4 DEF TypeInv, AccountsTypeOK, InsertAccount, Reply, Proceed
    <3> QED  BY <1>4, <3>1
  <2>5. ASSUME NEW r \in Requests,
               AccountsReceive(r) \/ CreateUserAttributes(r) \/ CreateSession(r) \/ GetUserAttributes(r)
        PROVE  stage[q] = "session" /\ found'[q] = found[q]
    <3>1. UNCHANGED found /\ \E x \in {"lookup", "done"} : stage' = [stage EXCEPT ![r] = x]
      BY <2>5 DEF AccountsReceive, CreateUserAttributes, CreateSession, GetUserAttributes, Reply
    <3> QED  BY <1>1, <1>4, <3>1 DEF TypeInv, AccountsTypeOK
  <2>6. ASSUME Stop \/ UNCHANGED accountsVars
        PROVE  stage[q] = "session" /\ found'[q] = found[q]
    BY <1>1, <1>4, <2>6 DEF TypeInv, AccountsTypeOK, Stop, accountsVars
  <2> QED  BY <2>1, <2>2, <2>3, <2>4, <2>5, <2>6 DEF AccountsNext, AccountsServe
<1>5. ASSUME NEW s \in sessions'
      PROVE  stage'[s.of] # "idle" /\ Holds(s.account, Wants(s.of))'
  <2>1. s.of \in Requests
    BY <1>1 DEF TypeInv, AccountsTypeOK
  <2>2. stage[s.of] # "idle" /\ Holds(s.account, Wants(s.of))
    <3>1. CASE s \in sessions
      BY <3>1 DEF OwnersInv
    <3>2. CASE s \notin sessions
      <4>1. PICK r \in Requests : CreateSession(r)
        BY <1>5, <3>2
        DEF AccountsNext, accountsVars, tables, AccountsReceive, AccountsServe, Lookup, InsertAccount,
            CreateUserAttributes, GetUserAttributes, Stop
      <4>2. s = [of |-> r, account |-> found[r]]
        BY <1>5, <3>2, <4>1 DEF CreateSession
      <4> QED  BY <4>1, <4>2 DEF CreateSession, OwnersInv
    <3> QED  BY <3>1, <3>2
  <2> PICK q \in Requests : q = s.of
    BY <2>1
  <2> PICK i : i = Wants(q) /\ i = Wants(q)'
    BY <1>3, <2>2
  <2>3. stage'[q] # "idle" /\ Holds(s.account, i)'
    BY <1>1, <1>2, <2>2, TablesGrow
  <2> QED  BY <2>3
<1> QED  BY <1>1, <1>4, <1>5 DEF OwnersInv

\* id opens a session for an account that has every key field its client gave,
\* whatever other requests inserted between its two statements.
THEOREM SessionsFollowIdentities == AccountsSpec => []SessionsAreOwners
<1>1. AccountsInit => OwnersInv
  BY InitTypeInv DEF AccountsInit, OwnersInv
<1>2. OwnersInv => SessionsAreOwners
  BY DEF OwnersInv, SessionsAreOwners, Wants
<1> QED  BY <1>1, <1>2, NextOwners, PTL DEF AccountsSpec

-----------------------------------------------------------------------------
(***************************************************************************)
(* Distinct accounts, when creates are served one after the other.         *)
(***************************************************************************)
OneByOne == CreatesAtOnce <= 1

\* What a create has found absent is absent until its insertion.
DistinctInv ==
  /\ TypeInv
  /\ \A r, q \in Requests : Creating(r) /\ Creating(q) => r = q
  /\ \A r \in Requests : stage[r] = "insert" =>
        /\ asked[r].op = "create"
        /\ DoFieldInputsContainAllKeyFields(asked[r].input)
        /\ \A a \in accounts : ~ Holds(a, Wants(r))
  /\ AccountsAreDistinct

\* A step that inserts no account.
LEMMA NoInsertDistinct ==
  ASSUME DistinctInv, TypeInv', UNCHANGED <<accounts, rows>>,
         \A r \in Requests : Creating(r)' => Creating(r),
         \A r \in Requests : stage'[r] = "insert" => stage[r] = "insert" /\ asked'[r] = asked[r]
  PROVE  DistinctInv'
<1>1. \A a, i : Holds(a, i)' = Holds(a, i)
  BY DEF Holds
<1>2. AccountsAreDistinct'
  BY <1>1 DEF DistinctInv, AccountsAreDistinct
<1>3. ASSUME NEW r \in Requests, stage'[r] = "insert"
      PROVE  /\ asked'[r].op = "create"
             /\ DoFieldInputsContainAllKeyFields(asked'[r].input)
             /\ \A a \in accounts' : ~ Holds(a, Wants(r))'
  <2>1. stage[r] = "insert" /\ asked'[r] = asked[r]
    BY <1>3
  <2>2. Wants(r)' = Wants(r)
    BY <2>1 DEF Wants
  <2> PICK i : i = Wants(r) /\ i = Wants(r)'
    BY <2>2
  <2>3. \A a \in accounts' : ~ Holds(a, i)'
    BY <1>1, <2>1 DEF DistinctInv
  <2> QED  BY <2>1, <2>3 DEF DistinctInv
<1> QED  BY <1>2, <1>3 DEF DistinctInv, DoFieldInputsContainAllKeyFields

LEMMA ReceiveDistinct ==
  ASSUME OneByOne, DistinctInv, TypeInv', NEW r \in Requests, AccountsReceive(r)
  PROVE  DistinctInv'
<1>1. PICK kind \in Operations, input \in Inputs :
        /\ kind = "create" => Cardinality({q \in Requests : Creating(q)}) < CreatesAtOnce
        /\ asked' = [asked EXCEPT ![r] = [op |-> kind, input |-> input]]
  BY DEF AccountsReceive
<1>2. \A q \in Requests : q # r => asked'[q] = asked[q] /\ stage'[q] = stage[q]
  BY <1>1 DEF DistinctInv, TypeInv, AccountsTypeOK, AccountsReceive
<1>3. UNCHANGED <<accounts, rows>> /\ stage'[r] = "lookup" /\ asked'[r].op = kind
  BY <1>1 DEF DistinctInv, TypeInv, AccountsTypeOK, AccountsReceive, tables
<1>4. \A q \in Requests : q # r => Creating(q)' = Creating(q)
  BY <1>2 DEF Creating
<1>5. CASE kind = "create"
  <2> DEFINE C == {q \in Requests : Creating(q)}
  <2>1. IsFiniteSet(C) /\ Cardinality(C) \in Nat
    BY FS_Subset, FS_CardinalityType, BoundsAssumption
  <2>2. Cardinality(C) = 0
    BY <1>1, <1>5, <2>1, BoundsAssumption DEF OneByOne
  <2>3. \A q \in Requests : ~ Creating(q)
    BY <2>1, <2>2, FS_EmptySet
  <2>4. \A q, p \in Requests : Creating(q)' /\ Creating(p)' => q = p
    BY <1>4, <2>3
  <2>5. \A q \in Requests : stage'[q] # "insert"
    BY <1>2, <1>3, <2>3 DEF DistinctInv, Creating
  <2>6. AccountsAreDistinct'
    BY <1>3 DEF DistinctInv, AccountsAreDistinct, Holds
  <2> QED  BY <2>4, <2>5, <2>6 DEF DistinctInv
<1>6. CASE kind # "create"
  <2>1. ~ Creating(r)'
    BY <1>3, <1>6 DEF Creating
  <2> QED  BY <1>2, <1>3, <1>4, <2>1, NoInsertDistinct
<1> QED  BY <1>5, <1>6

LEMMA LookupDistinct ==
  ASSUME DistinctInv, TypeInv', NEW r \in Requests, Lookup(r)
  PROVE  DistinctInv'
<1>1. /\ stage[r] = "lookup" /\ UNCHANGED <<accounts, rows, asked>>
      /\ \A q \in Requests : q # r => stage'[q] = stage[q]
  BY DEF DistinctInv, TypeInv, AccountsTypeOK, Lookup, Reply, Proceed, tables
<1>2. \A q \in Requests : Creating(q)' => Creating(q)
  BY <1>1 DEF Creating
<1>3. CASE stage'[r] # "insert"
  BY <1>1, <1>2, <1>3, NoInsertDistinct
<1>4. CASE stage'[r] = "insert"
  <2>1. /\ DoFieldInputsContainAllKeyFields(asked[r].input) /\ asked[r].op = "create"
        /\ NoAccount \in GetAccount(asked[r].input)
    BY <1>4 DEF DistinctInv, TypeInv, AccountsTypeOK, Lookup, Reply, Proceed, Asks
  <2>2. \A a \in accounts : ~ Holds(a, Wants(r))
    BY <2>1, GetAccountFinds DEF DistinctInv, TypeInv, AccountsTypeOK, Wants
  <2>3. \A a, i : Holds(a, i)' = Holds(a, i)
    BY <1>1 DEF Holds
  <2>4. \A q \in Requests : Wants(q)' = Wants(q)
    BY <1>1 DEF Wants
  <2>5. ASSUME NEW q \in Requests, stage'[q] = "insert"
        PROVE  /\ asked'[q].op = "create"
               /\ DoFieldInputsContainAllKeyFields(asked'[q].input)
               /\ \A a \in accounts' : ~ Holds(a, Wants(q))'
    <3> PICK i : i = Wants(q) /\ i = Wants(q)'
      BY <2>4
    <3>1. \A a \in accounts' : ~ Holds(a, i)'
      BY <1>1, <2>2, <2>3, <2>5 DEF DistinctInv
    <3> QED  BY <1>1, <2>1, <2>5, <3>1 DEF DistinctInv
  <2>6. AccountsAreDistinct'
    BY <1>1, <2>3 DEF DistinctInv, AccountsAreDistinct
  <2>7. \A q, p \in Requests : Creating(q)' /\ Creating(p)' => q = p
    BY <1>2 DEF DistinctInv
  <2> QED  BY <2>5, <2>6, <2>7 DEF DistinctInv, DoFieldInputsContainAllKeyFields
<1> QED  BY <1>3, <1>4

LEMMA InsertDistinct ==
  ASSUME DistinctInv, TypeInv', NEW r \in Requests, InsertAccount(r)
  PROVE  DistinctInv'
<1>1. /\ stage[r] = "insert" /\ UNCHANGED asked /\ stage'[r] \in {"done", "attributes"}
      /\ \A q \in Requests : q # r => stage'[q] = stage[q]
  BY DEF DistinctInv, TypeInv, AccountsTypeOK, InsertAccount, Reply, Proceed
<1>2. \A q \in Requests : Creating(q)' => Creating(q)
  BY <1>1 DEF Creating
<1>3. CASE UNCHANGED <<accounts, rows>>
  BY <1>1, <1>2, <1>3, NoInsertDistinct
<1> PICK b : b = Cardinality(accounts) + 1
  OBVIOUS
<1> DEFINE input == asked[r].input
<1>4. CASE /\ ~ Duplicates(input)
           /\ accounts' = accounts \union {b}
           /\ rows' = rows \union RowsOf(b, input)
  <2>1. b \notin accounts
    BY NumberedNext DEF DistinctInv, TypeInv
  <2>2. input \in Inputs /\ DoFieldInputsContainAllKeyFields(input)
    BY <1>1, AskedInput DEF DistinctInv
  <2>3. \A a \in accounts : \A i : Holds(a, i)' = Holds(a, i)
    BY <1>4, <2>1 DEF Holds, RowsOf
  <2>4. \A f \in KeyFields : \A v : [account |-> b, id |-> f, value |-> v] \notin rows
    BY <2>1 DEF DistinctInv, TypeInv, AccountsTypeOK
  <2>5. ASSUME NEW i \in [KeyFields -> Values], Holds(b, i)'  PROVE  i = Wants(r)
    <3>1. \A f \in KeyFields : [account |-> b, id |-> f, value |-> i[f]] \in RowsOf(b, input)
      BY <1>4, <2>4, <2>5 DEF Holds
    <3>2. \A f \in KeyFields : i[f] = PickKeyFieldInputsFrom(input)[f]
      BY <1>4, <2>2, <3>1, RowsHold
    <3> QED  BY <3>2 DEF Wants, PickKeyFieldInputsFrom
  <2>6. AccountsAreDistinct'
    <3> SUFFICES ASSUME NEW i \in [KeyFields -> Values], NEW a \in accounts', NEW c \in accounts',
                        Holds(a, i)', Holds(c, i)'
                 PROVE  a = c
      BY DEF AccountsAreDistinct
    <3>1. CASE a \in accounts /\ c \in accounts
      BY <2>3, <3>1 DEF DistinctInv, AccountsAreDistinct
    <3>2. CASE a = b /\ c = b
      BY <3>2
    <3>3. CASE a = b /\ c \in accounts
      BY <1>1, <2>3, <2>5, <3>3 DEF DistinctInv
    <3>4. CASE c = b /\ a \in accounts
      BY <1>1, <2>3, <2>5, <3>4 DEF DistinctInv
    <3> QED  BY <1>4, <3>1, <3>2, <3>3, <3>4
  <2>7. \A q \in Requests : stage'[q] # "insert"
    <3>1. \A q \in Requests : stage[q] = "insert" => Creating(q)
      BY DEF DistinctInv, Creating
    <3> QED  BY <1>1, <3>1 DEF DistinctInv
  <2>8. \A q, p \in Requests : Creating(q)' /\ Creating(p)' => q = p
    BY <1>2 DEF DistinctInv
  <2> QED  BY <2>6, <2>7, <2>8 DEF DistinctInv
<1> QED  BY <1>3, <1>4 DEF InsertAccount

LEMMA NextDistinct == OneByOne => (DistinctInv /\ [AccountsNext]_accountsVars => DistinctInv')
<1> SUFFICES ASSUME OneByOne, DistinctInv, [AccountsNext]_accountsVars  PROVE  DistinctInv'
  OBVIOUS
<1>1. TypeInv'
  BY NextTypeInv DEF DistinctInv
<1>2. ASSUME NEW r \in Requests,
             CreateUserAttributes(r) \/ CreateSession(r) \/ GetUserAttributes(r)
      PROVE  DistinctInv'
  <2>1. UNCHANGED <<accounts, rows, asked>> /\ stage' = [stage EXCEPT ![r] = "done"]
    BY <1>2 DEF CreateUserAttributes, CreateSession, GetUserAttributes, Reply, tables
  <2>2. \A q \in Requests : stage'[q] = stage[q] \/ stage'[q] = "done"
    BY <2>1 DEF DistinctInv, TypeInv, AccountsTypeOK
  <2>3. \A q \in Requests : Creating(q)' => Creating(q)
    BY <2>1, <2>2 DEF Creating
  <2> QED  BY <1>1, <2>1, <2>2, <2>3, NoInsertDistinct
<1>3. CASE Stop \/ UNCHANGED accountsVars
  <2>1. UNCHANGED <<accounts, rows, asked>>
    BY <1>3 DEF Stop, accountsVars, tables
  <2>2. \A q \in Requests : stage'[q] = stage[q] \/ stage'[q] \in {"idle", "done"}
    BY <1>3 DEF Stop, accountsVars
  <2>3. \A q \in Requests : Creating(q)' => Creating(q)
    BY <2>1, <2>2 DEF Creating
  <2> QED  BY <1>1, <2>1, <2>2, <2>3, NoInsertDistinct
<1> QED
  BY <1>1, <1>2, <1>3, ReceiveDistinct, LookupDistinct, InsertDistinct DEF AccountsNext, AccountsServe

\* createAccount keeps identities apart as long as creates do not overlap,
\* however they overlap with other requests and wherever the server stops.
THEOREM DistinctOneByOne == OneByOne => (AccountsSpec => []AccountsAreDistinct)
<1> SUFFICES ASSUME OneByOne  PROVE  AccountsSpec => []AccountsAreDistinct
  OBVIOUS
<1>1. AccountsInit => DistinctInv
  BY InitTypeInv DEF AccountsInit, DistinctInv, Creating, AccountsAreDistinct
<1>2. DistinctInv => AccountsAreDistinct
  BY DEF DistinctInv
<1>3. DistinctInv /\ [AccountsNext]_accountsVars => DistinctInv'
  BY NextDistinct
<1> QED  BY <1>1, <1>2, <1>3, PTL DEF AccountsSpec

-----------------------------------------------------------------------------
(***************************************************************************)
(* The directory, when creates are served one after the other.             *)
(***************************************************************************)
LEMMA LeastNat ==
  ASSUME NEW S, S \subseteq Nat, S # {}
  PROVE  \E m \in S : \A n \in S : m <= n
<1>1. IsWellFoundedOn(OpToRel(<, Nat), Nat)
  BY NatLessThanWellFounded
<1>2. PICK m \in S : \A n \in S : ~ (<<n, m>> \in OpToRel(<, Nat))
  BY <1>1, WFMin
<1>3. \A n \in S : ~ (n < m)
  BY <1>2 DEF OpToRel
<1> QED  BY <1>3

\* An input with all key fields has an identity.
LEMMA PickedIdentity ==
  ASSUME NEW input \in Inputs, DoFieldInputsContainAllKeyFields(input)
  PROVE  PickKeyFieldInputsFrom(input) \in Identities /\ PickKeyFieldInputsFrom(input) # Nobody
<1>1. input \in Seq([id : Fields, value : Values])
  BY InputsAssumption
<1>2. ASSUME NEW f \in KeyFields
      PROVE  PickKeyFieldInputsFrom(input)[f] \in Values
  <2> DEFINE Of == {i \in DOMAIN input : input[i].id = f}
  <2>1. Of \subseteq Nat /\ Of # {}
    BY <1>1, <1>2 DEF DoFieldInputsContainAllKeyFields, FieldsOf
  <2>2. \E i \in Of : \A j \in Of : i <= j
    <3> HIDE DEF Of
    <3> QED  BY <2>1, LeastNat
  <2>3. \E i \in DOMAIN input :
            input[i].id = f /\ \A j \in DOMAIN input : input[j].id = f => i <= j
    BY <2>2
  <2>4. \A i \in DOMAIN input : input[i] \in [id : Fields, value : Values]
    BY <1>1, ElementType
  <2> QED  BY <2>3, <2>4 DEF PickKeyFieldInputsFrom
<1>3. PickKeyFieldInputsFrom(input) \in Identities
  BY <1>2 DEF PickKeyFieldInputsFrom, Identities
<1>4. DOMAIN Nobody = {}
  BY DEF Nobody
<1> QED  BY <1>3, <1>4, KeyFieldsAssumption DEF Identities

Undecided(r) == found[r] = NoAccount /\ answer[r] = "none"

\* How far a request got says what it has found and what it was answered.
Course(r) ==
  /\ stage[r] = "idle" => asked[r] = Unasked
  /\ stage[r] \in {"idle", "lookup", "insert"} => Undecided(r)
  /\ stage[r] \in {"attributes", "session"} => answer[r] = "none"
  /\ stage[r] \in {"insert", "attributes"} => asked[r].op = "create"
  /\ stage[r] = "session" => asked[r].op = "id"
  /\ stage[r] \in {"insert", "attributes", "session"} =>
        DoFieldInputsContainAllKeyFields(asked[r].input)
  /\ answer[r] \in {"malformed", "failed"} => found[r] = NoAccount
  /\ answer[r] \in {"reserved", "created"} => asked[r].op = "create" /\ found[r] # NoAccount
  /\ answer[r] \in {"exists", "absent"} => asked[r].op = "exists"
  /\ answer[r] \in {"not found", "absent"} => found[r] = NoAccount
  /\ answer[r] \in {"not found", "session", "welcome", "no attributes"} => asked[r].op = "id"
  /\ answer[r] \in {"session", "welcome", "no attributes"} => found[r] # NoAccount

DirectoryInv == DistinctInv /\ \A r \in Requests : Course(r)

LEMMA InitDirectoryInv == AccountsInit => DirectoryInv
<1>1. AccountsInit => DistinctInv
  BY InitTypeInv DEF AccountsInit, DistinctInv, Creating, AccountsAreDistinct
<1> QED  BY <1>1 DEF AccountsInit, DirectoryInv, Course, Undecided

\* A step of one request leaves the others as they are.
Others(r) ==
  \A q \in Requests : q # r =>
      /\ stage'[q] = stage[q] /\ asked'[q] = asked[q]
      /\ found'[q] = found[q] /\ answer'[q] = answer[q]

LEMMA OthersCourse ==
  ASSUME DirectoryInv, NEW r \in Requests, Others(r), Course(r)'
  PROVE  \A q \in Requests : Course(q)'
<1>1. ASSUME NEW q \in Requests, q # r  PROVE  Course(q)'
  BY <1>1 DEF DirectoryInv, Others, Course, Undecided
<1> QED  BY <1>1

LEMMA StepOthers ==
  ASSUME AccountsTypeOK, NEW r \in Requests, AccountsReceive(r) \/ AccountsServe(r) \/ GetUserAttributes(r)
  PROVE  Others(r)
<1>1. CASE AccountsReceive(r)
  <2>1. PICK x : asked' = [asked EXCEPT ![r] = x]
    BY <1>1 DEF AccountsReceive
  <2> QED  BY <1>1, <2>1 DEF AccountsTypeOK, Others, AccountsReceive
<1>2. CASE Lookup(r)
  BY <1>2 DEF AccountsTypeOK, Others, Lookup, Reply, Proceed
<1>3. CASE InsertAccount(r)
  BY <1>3 DEF AccountsTypeOK, Others, InsertAccount, Reply, Proceed
<1>4. CASE CreateUserAttributes(r) \/ CreateSession(r) \/ GetUserAttributes(r)
  BY <1>4 DEF AccountsTypeOK, Others, CreateUserAttributes, CreateSession, GetUserAttributes, Reply
<1> QED  BY <1>1, <1>2, <1>3, <1>4 DEF AccountsServe

\* The ways a lookup may end.
LEMMA LookupCases ==
  ASSUME TypeInv, NEW r \in Requests, Lookup(r)
  PROVE  /\ stage[r] = "lookup" /\ UNCHANGED <<accounts, rows, asked>>
         /\ \/ /\ ~ DoFieldInputsContainAllKeyFields(asked[r].input)
               /\ stage'[r] = "done" /\ answer'[r] = "malformed" /\ found'[r] = found[r]
            \/ /\ DoFieldInputsContainAllKeyFields(asked[r].input)
               /\ found'[r] \in accounts /\ found'[r] # NoAccount /\ Holds(found'[r], Wants(r))
               /\ \/ Asks(r, "create") /\ stage'[r] = "done" /\ answer'[r] = "reserved"
                  \/ Asks(r, "exists") /\ stage'[r] = "done" /\ answer'[r] = "exists"
                  \/ Asks(r, "id") /\ stage'[r] = "session" /\ answer'[r] = answer[r]
            \/ /\ DoFieldInputsContainAllKeyFields(asked[r].input)
               /\ found'[r] = NoAccount /\ \A b \in accounts : ~ Holds(b, Wants(r))
               /\ \/ Asks(r, "create") /\ stage'[r] = "insert" /\ answer'[r] = answer[r]
                  \/ Asks(r, "exists") /\ stage'[r] = "done" /\ answer'[r] = "absent"
                  \/ Asks(r, "id") /\ stage'[r] = "done" /\ answer'[r] = "not found"
<1>1. stage[r] = "lookup" /\ UNCHANGED <<accounts, rows, asked>>
  BY DEF Lookup, tables
<1>2. CASE ~ DoFieldInputsContainAllKeyFields(asked[r].input)
  BY <1>1, <1>2 DEF TypeInv, AccountsTypeOK, Lookup, Reply
<1>3. CASE DoFieldInputsContainAllKeyFields(asked[r].input)
  <2>1. PICK a \in GetAccount(asked[r].input) :
            /\ found' = [found EXCEPT ![r] = a]
            /\ \/ a # NoAccount /\ Asks(r, "create") /\ Reply(r, "reserved")
               \/ a = NoAccount /\ Asks(r, "create") /\ Proceed(r, "insert")
               \/ a # NoAccount /\ Asks(r, "exists") /\ Reply(r, "exists")
               \/ a = NoAccount /\ Asks(r, "exists") /\ Reply(r, "absent")
               \/ a # NoAccount /\ Asks(r, "id") /\ Proceed(r, "session")
               \/ a = NoAccount /\ Asks(r, "id") /\ Reply(r, "not found")
    BY <1>3 DEF Lookup
  <2>2. found'[r] = a
    BY <2>1 DEF TypeInv, AccountsTypeOK
  <2>3. IF a = NoAccount
        THEN \A b \in accounts : ~ Holds(b, Wants(r))
        ELSE a \in accounts /\ Holds(a, Wants(r))
    BY GetAccountFinds DEF TypeInv, AccountsTypeOK, Wants
  <2> QED  BY <1>1, <1>3, <2>1, <2>2, <2>3 DEF TypeInv, AccountsTypeOK, Reply, Proceed
<1> QED  BY <1>2, <1>3

\* The two ways of an insertion.
LEMMA InsertCases ==
  ASSUME TypeInv, NEW r \in Requests, InsertAccount(r)
  PROVE  /\ stage[r] = "insert" /\ UNCHANGED asked
         /\ \/ /\ UNCHANGED <<accounts, rows>> /\ found'[r] = found[r]
               /\ stage'[r] = "done" /\ answer'[r] = "failed"
            \/ \E b : /\ b \in Nat \ {NoAccount} /\ b \notin accounts
                      /\ ~ Duplicates(asked[r].input)
                      /\ accounts' = accounts \union {b}
                      /\ rows' = rows \union RowsOf(b, asked[r].input)
                      /\ found'[r] = b /\ answer'[r] = answer[r] /\ stage'[r] = "attributes"
<1> PICK b : b = Cardinality(accounts) + 1
  OBVIOUS
<1>1. b \in Nat \ {NoAccount} /\ b \notin accounts
  BY NumberedNext DEF TypeInv
<1> QED  BY <1>1 DEF TypeInv, AccountsTypeOK, InsertAccount, Reply, Proceed

LEMMA CourseStep ==
  ASSUME DirectoryInv, NEW r \in Requests, AccountsReceive(r) \/ AccountsServe(r) \/ GetUserAttributes(r)
  PROVE  Course(r)'
<1> USE DEF DirectoryInv, DistinctInv
<1>1. Course(r) /\ TypeInv /\ AccountsTypeOK
  BY DEF TypeInv
<1>2. CASE AccountsReceive(r)
  <2>1. PICK kind \in Operations, input \in Inputs :
            asked' = [asked EXCEPT ![r] = [op |-> kind, input |-> input]]
    BY <1>2 DEF AccountsReceive
  <2>2. /\ stage[r] = "idle" /\ stage'[r] = "lookup"
        /\ found'[r] = found[r] /\ answer'[r] = answer[r]
    BY <1>1, <1>2 DEF AccountsReceive, AccountsTypeOK
  <2> QED  BY <1>1, <2>2 DEF Course, Undecided, NoAccount
<1>3. CASE Lookup(r)
  BY <1>1, <1>3, LookupCases DEF Course, Undecided, Asks
<1>4. CASE InsertAccount(r)
  <2>1. asked'[r] = asked[r] /\ stage[r] = "insert"
    BY <1>1, <1>4, InsertCases
  <2> QED
    BY <1>1, <1>4, <2>1, InsertCases DEF Course, Undecided
<1>5. CASE CreateUserAttributes(r)
  <2>1. /\ stage[r] = "attributes" /\ stage'[r] = "done" /\ answer'[r] = "created"
        /\ found'[r] = found[r] /\ asked'[r] = asked[r]
    BY <1>1, <1>5 DEF CreateUserAttributes, Reply, AccountsTypeOK
  <2> QED  BY <1>1, <2>1 DEF Course, TypeInv, Located
<1>6. CASE CreateSession(r)
  <2>1. /\ stage[r] = "session" /\ stage'[r] = "done" /\ answer'[r] = "session"
        /\ found'[r] = found[r] /\ asked'[r] = asked[r]
    BY <1>1, <1>6 DEF CreateSession, Reply, AccountsTypeOK
  <2> QED  BY <1>1, <2>1 DEF Course, TypeInv, Located
<1>7. CASE GetUserAttributes(r)
  <2>1. /\ answer[r] = "session" /\ stage'[r] = "done"
        /\ answer'[r] \in {"welcome", "no attributes"}
        /\ found'[r] = found[r] /\ asked'[r] = asked[r]
    BY <1>1, <1>7 DEF GetUserAttributes, Reply, AccountsTypeOK
  <2> QED  BY <1>1, <2>1 DEF Course
<1> QED  BY <1>2, <1>3, <1>4, <1>5, <1>6, <1>7 DEF AccountsServe

LEMMA NextDirectory == OneByOne => (DirectoryInv /\ [AccountsNext]_accountsVars => DirectoryInv')
<1> SUFFICES ASSUME OneByOne, DirectoryInv, [AccountsNext]_accountsVars  PROVE  DirectoryInv'
  OBVIOUS
<1>1. DistinctInv'
  BY NextDistinct DEF DirectoryInv
<1>2. CASE Stop
  <2>1. UNCHANGED <<asked, found, answer>>
    BY <1>2 DEF Stop
  <2>2. \A q \in Requests : stage'[q] = stage[q] \/ stage'[q] = "done"
    BY <1>2 DEF Stop
  <2> QED  BY <1>1, <2>1, <2>2 DEF DirectoryInv, Course, Undecided
<1>3. CASE UNCHANGED accountsVars
  BY <1>1, <1>3 DEF accountsVars, DirectoryInv, Course, Undecided
<1>4. ASSUME NEW r \in Requests, AccountsReceive(r) \/ AccountsServe(r) \/ GetUserAttributes(r)
      PROVE  DirectoryInv'
  <2>1. Others(r) /\ Course(r)'
    BY <1>4, StepOthers, CourseStep DEF DirectoryInv, DistinctInv, TypeInv
  <2> QED  BY <1>1, <2>1, OthersCourse DEF DirectoryInv
<1> QED  BY <1>2, <1>3, <1>4 DEF AccountsNext

-----------------------------------------------------------------------------
(* The mapped variables. *)
Registered == {identity \in Identities : \E a \in accounts : Holds(a, identity)}
Subject(r) ==
  IF asked[r] # Unasked /\ DoFieldInputsContainAllKeyFields(asked[r].input)
  THEN PickKeyFieldInputsFrom(asked[r].input) ELSE Nobody

\* What was decided about a request, operation by operation.
LEMMA VerdictCases ==
  ASSUME AccountsTypeOK, NEW r \in Requests, Course(r)
  PROVE  /\ asked[r] = Unasked => Verdict(r) = "none"
         /\ asked[r] # Unasked /\ asked[r].op = "create" =>
                Verdict(r) = IF found[r] = NoAccount THEN "none"
                             ELSE IF answer[r] = "reserved" THEN "known" ELSE "new"
         /\ asked[r] # Unasked /\ asked[r].op = "id" =>
                Verdict(r) = IF found[r] # NoAccount THEN "known"
                             ELSE IF answer[r] = "not found" THEN "unknown" ELSE "none"
         /\ asked[r] # Unasked /\ asked[r].op = "exists" =>
                Verdict(r) = IF answer[r] = "exists" THEN "known"
                             ELSE IF answer[r] = "absent" THEN "unknown" ELSE "none"
<1>1. asked[r] # Unasked => asked[r].op \in Operations
  BY DEF AccountsTypeOK
<1>2. CASE asked[r] = Unasked
  <2>1. asked[r].op = "none"
    BY <1>2 DEF Unasked
  <2>2. answer[r] \notin {"exists", "absent", "not found"}
    BY <2>1 DEF Course
  <2> QED  BY <1>2, <2>1, <2>2 DEF Verdict
<1>3. CASE asked[r] # Unasked /\ asked[r].op = "create"
  BY <1>3 DEF Verdict, Course
<1>4. CASE asked[r] # Unasked /\ asked[r].op = "id"
  BY <1>4 DEF Verdict, Course
<1>5. CASE asked[r] # Unasked /\ asked[r].op = "exists"
  BY <1>5 DEF Verdict, Course
<1> QED  BY <1>1, <1>2, <1>3, <1>4, <1>5 DEF Operations

\* A step that decides nothing about r.
LEMMA VerdictKept ==
  ASSUME NEW r \in Requests, asked'[r] = asked[r], found'[r] = found[r], answer'[r] = answer[r]
  PROVE  Verdict(r)' = Verdict(r) /\ Subject(r)' = Subject(r)
  BY DEF Verdict, Subject, DoFieldInputsContainAllKeyFields, FieldsOf, PickKeyFieldInputsFrom

\* What happens to one request happens to one question.
LEMMA OneDecides ==
  ASSUME NEW r \in Requests, Others(r), Subject(r)' = Subject(r), NEW v, Verdict(r)' = v
  PROVE  /\ [q \in Requests |-> Subject(q)]' = [q \in Requests |-> Subject(q)]
         /\ [q \in Requests |-> Verdict(q)]' = [[q \in Requests |-> Verdict(q)] EXCEPT ![r] = v]
<1>1. \A q \in Requests : q # r => Verdict(q)' = Verdict(q) /\ Subject(q)' = Subject(q)
  BY VerdictKept DEF Others
<1> QED  BY <1>1

LEMMA RegisteredKept ==
  ASSUME UNCHANGED <<accounts, rows>>  PROVE  Registered' = Registered
  BY DEF Registered, Holds

LEMMA SubjectIs ==
  ASSUME TypeInv, NEW r \in Requests, stage[r] # "idle",
         DoFieldInputsContainAllKeyFields(asked[r].input)
  PROVE  Subject(r) = Wants(r) /\ Wants(r) \in Identities /\ Subject(r) # Nobody
<1>1. asked[r] # Unasked /\ asked[r].input \in Inputs
  BY AskedInput DEF TypeInv, Asked
<1> QED  BY <1>1, PickedIdentity DEF Subject, Wants

LEMMA InitDirectory == AccountsInit => DirectoryOf!Init
<1> SUFFICES ASSUME AccountsInit  PROVE  DirectoryOf!Init
  OBVIOUS
<1>1. Registered = {}
  BY DEF AccountsInit, Registered
<1>2. \A r \in Requests : Subject(r) = Nobody
  BY DEF AccountsInit, Subject
<1>3. \A r \in Requests : Verdict(r) = "none"
  BY DEF AccountsInit, Verdict, Unasked, NoAccount
<1> QED  BY <1>1, <1>2, <1>3 DEF DirectoryOf!Init, Registered, Subject

\* Nothing is decided, and nobody is registered.
LEMMA DirectoryKept ==
  ASSUME UNCHANGED <<accounts, rows>>,
         \A q \in Requests : Verdict(q)' = Verdict(q) /\ Subject(q)' = Subject(q)
  PROVE  UNCHANGED DirectoryOf!vars
<1>1. Registered' = Registered
  BY RegisteredKept
<1>2. [q \in Requests |-> Subject(q)]' = [q \in Requests |-> Subject(q)]
  OBVIOUS
<1>3. [q \in Requests |-> Verdict(q)]' = [q \in Requests |-> Verdict(q)]
  OBVIOUS
<1> QED  BY <1>1, <1>2, <1>3 DEF DirectoryOf!vars, Registered, Subject

LEMMA ReceiveRefines ==
  ASSUME DirectoryInv, NEW r \in Requests, AccountsReceive(r)
  PROVE  [DirectoryOf!Next]_(DirectoryOf!vars)
<1> USE DEF DirectoryInv, DistinctInv
<1>1. PICK kind \in Operations, input \in Inputs :
          asked' = [asked EXCEPT ![r] = [op |-> kind, input |-> input]]
  BY DEF AccountsReceive
<1>2. /\ stage[r] = "idle" /\ asked[r] = Unasked /\ found[r] = NoAccount /\ answer[r] = "none"
      /\ UNCHANGED <<accounts, rows, found, answer>>
      /\ asked'[r] = [op |-> kind, input |-> input] /\ asked'[r] # Unasked
  BY <1>1 DEF Course, Undecided, AccountsReceive, tables, TypeInv, AccountsTypeOK, Unasked, Operations
<1>3. Others(r) /\ AccountsTypeOK /\ AccountsTypeOK' /\ Course(r) /\ Course(r)'
  <2>1. AccountsTypeOK'
    BY NextTypeInv DEF AccountsNext, TypeInv
  <2> QED  BY <2>1, StepOthers, CourseStep DEF TypeInv
<1>4. Verdict(r) = "none" /\ Verdict(r)' = "none"
  <2>1. Verdict(r) = "none"
    BY <1>2, <1>3, VerdictCases
  <2>2. Verdict(r)' = "none"
    BY <1>2 DEF Verdict
  <2> QED  BY <2>1, <2>2
<1>5. \A q \in Requests : Verdict(q)' = Verdict(q)
  BY <1>3, <1>4, VerdictKept DEF Others
<1>6. \A q \in Requests : q # r => Subject(q)' = Subject(q)
  BY <1>3, VerdictKept DEF Others
<1>7. Subject(r) = Nobody
  BY <1>2 DEF Subject
<1>8. CASE DoFieldInputsContainAllKeyFields(input)
  <2>1. Subject(r)' = PickKeyFieldInputsFrom(input) /\ Subject(r)' \in Identities
    BY <1>2, <1>8, PickedIdentity DEF Subject
  <2>2. PICK i \in Identities : i = Subject(r)'
    BY <2>1
  <2>3. [q \in Requests |-> Subject(q)]' = [[q \in Requests |-> Subject(q)] EXCEPT ![r] = i]
    BY <1>6, <2>2
  <2>4. [q \in Requests |-> Verdict(q)]' = [q \in Requests |-> Verdict(q)] /\ Registered' = Registered
    BY <1>2, <1>5, RegisteredKept
  <2>5. DirectoryOf!Ask(r)
    BY <1>7, <2>3, <2>4 DEF DirectoryOf!Ask, Registered, Subject
  <2> QED  BY <2>5 DEF DirectoryOf!Next
<1>9. CASE ~ DoFieldInputsContainAllKeyFields(input)
  <2>1. Subject(r)' = Nobody
    BY <1>2, <1>9 DEF Subject
  <2> QED  BY <1>2, <1>5, <1>6, <1>7, <2>1, DirectoryKept
<1> QED  BY <1>8, <1>9

LEMMA LookupRefines ==
  ASSUME DirectoryInv, NEW r \in Requests, Lookup(r)
  PROVE  [DirectoryOf!Next]_(DirectoryOf!vars)
<1> USE DEF DirectoryInv, DistinctInv
<1>1. TypeInv /\ AccountsTypeOK /\ Course(r) /\ AccountsTypeOK' /\ Course(r)' /\ Others(r)
  <2>1. AccountsTypeOK'
    BY NextTypeInv DEF AccountsNext, AccountsServe, TypeInv
  <2> QED  BY <2>1, StepOthers, CourseStep DEF TypeInv, AccountsServe
<1>2. /\ stage[r] = "lookup" /\ UNCHANGED <<accounts, rows, asked>>
      /\ found[r] = NoAccount /\ answer[r] = "none" /\ asked[r] # Unasked
      /\ asked'[r] = asked[r]
  BY <1>1, LookupCases DEF Course, Undecided, TypeInv, Asked
<1>3. Subject(r)' = Subject(r) /\ Registered' = Registered
  BY <1>2, RegisteredKept DEF Subject, DoFieldInputsContainAllKeyFields, FieldsOf, PickKeyFieldInputsFrom
<1>4. Verdict(r) = "none"
  BY <1>1, <1>2, VerdictCases DEF AccountsTypeOK, Operations
<1>5. ASSUME Verdict(r)' = "none"  PROVE  UNCHANGED DirectoryOf!vars
  BY <1>1, <1>2, <1>3, <1>4, <1>5, VerdictKept, DirectoryKept DEF Others
<1>6. ASSUME DoFieldInputsContainAllKeyFields(asked[r].input),
             Verdict(r)' = IF Wants(r) \in Registered THEN "known" ELSE "unknown"
      PROVE  DirectoryOf!Find(r)
  <2>1. Subject(r) = Wants(r) /\ Subject(r) # Nobody
    BY <1>1, <1>2, <1>6, SubjectIs
  <2> PICK v : v = Verdict(r)'
    OBVIOUS
  <2>2. /\ [q \in Requests |-> Subject(q)]' = [q \in Requests |-> Subject(q)]
        /\ [q \in Requests |-> Verdict(q)]' = [[q \in Requests |-> Verdict(q)] EXCEPT ![r] = v]
    BY <1>1, <1>3, OneDecides
  <2>3. v = IF Subject(r) \in Registered THEN "known" ELSE "unknown"
    BY <1>6, <2>1
  <2> QED
    BY <1>3, <1>4, <2>1, <2>2, <2>3 DEF DirectoryOf!Find, DirectoryOf!Decide, Registered, Subject
<1>7. CASE ~ DoFieldInputsContainAllKeyFields(asked[r].input)
  <2>1. answer'[r] = "malformed" /\ found'[r] = NoAccount
    BY <1>1, <1>2, <1>7, LookupCases
  <2>2. Verdict(r)' = "none"
    BY <2>1 DEF Verdict
  <2> QED  BY <1>5, <2>2
<1>8. CASE /\ DoFieldInputsContainAllKeyFields(asked[r].input)
           /\ found'[r] \in accounts /\ found'[r] # NoAccount /\ Holds(found'[r], Wants(r))
           /\ \/ Asks(r, "create") /\ answer'[r] = "reserved"
              \/ Asks(r, "exists") /\ answer'[r] = "exists"
              \/ Asks(r, "id") /\ answer'[r] = answer[r]
  <2>1. Verdict(r)' = "known"
    BY <1>2, <1>8 DEF Verdict, Asks
  <2>2. Wants(r) \in Registered
    BY <1>1, <1>2, <1>8, SubjectIs DEF Registered
  <2> QED  BY <1>6, <1>8, <2>1, <2>2 DEF DirectoryOf!Next
<1>9. CASE /\ DoFieldInputsContainAllKeyFields(asked[r].input)
           /\ found'[r] = NoAccount /\ \A b \in accounts : ~ Holds(b, Wants(r))
  <2>1. Wants(r) \notin Registered
    BY <1>9 DEF Registered
  <2>2. CASE Asks(r, "create") /\ answer'[r] = answer[r]
    <3>1. Verdict(r)' = "none"
      BY <1>2, <1>9, <2>2 DEF Verdict, Asks
    <3> QED  BY <1>5, <3>1
  <2>3. CASE (Asks(r, "exists") /\ answer'[r] = "absent") \/ (Asks(r, "id") /\ answer'[r] = "not found")
    <3>1. Verdict(r)' = "unknown"
      BY <1>2, <1>9, <2>3 DEF Verdict, Asks
    <3> QED  BY <1>6, <1>9, <2>1, <3>1 DEF DirectoryOf!Next
  <2> QED  BY <1>1, <1>2, <1>9, <2>2, <2>3, LookupCases
<1> QED  BY <1>1, <1>7, <1>8, <1>9, LookupCases

LEMMA IdentityRows ==
  ASSUME NEW input \in Inputs, DoFieldInputsContainAllKeyFields(input), ~ Duplicates(input),
         NEW b, NEW i
  PROVE  (\A f \in KeyFields : [account |-> b, id |-> f, value |-> i[f]] \in RowsOf(b, input))
            <=> \A f \in KeyFields : i[f] = PickKeyFieldInputsFrom(input)[f]
<1>1. ASSUME NEW f \in KeyFields
      PROVE  [account |-> b, id |-> f, value |-> i[f]] \in RowsOf(b, input)
                <=> i[f] = PickKeyFieldInputsFrom(input)[f]
  <2> DEFINE v == i[f]
  <2> HIDE DEF v
  <2>1. [account |-> b, id |-> f, value |-> v] \in RowsOf(b, input)
            <=> v = PickKeyFieldInputsFrom(input)[f]
    BY RowsHold
  <2> QED  BY <2>1 DEF v
<1> QED  BY <1>1

\* The identity of a new account is the one its create asked for, and the
\* identities of the others are what they were.
LEMMA InsertRegisters ==
  ASSUME DirectoryInv, NEW r \in Requests, stage[r] = "insert",
         NEW b \in Nat \ {NoAccount}, b \notin accounts, ~ Duplicates(asked[r].input),
         accounts' = accounts \union {b}, rows' = rows \union RowsOf(b, asked[r].input)
  PROVE  Registered' = Registered \union {Wants(r)}
<1> USE DEF DirectoryInv, DistinctInv
<1> DEFINE input == asked[r].input
<1>1. input \in Inputs /\ DoFieldInputsContainAllKeyFields(input) /\ Wants(r) \in Identities
  BY AskedInput, SubjectIs
<1>2. \A a \in accounts : \A i : Holds(a, i)' = Holds(a, i)
  BY DEF Holds, RowsOf
<1>3. \A f \in KeyFields : \A v : [account |-> b, id |-> f, value |-> v] \notin rows
  BY DEF TypeInv, AccountsTypeOK
<1>4. ASSUME NEW i \in Identities  PROVE  Holds(b, i)' <=> i = Wants(r)
  <2>1. Holds(b, i)' <=> \A f \in KeyFields : [account |-> b, id |-> f, value |-> i[f]] \in RowsOf(b, input)
    <3>1. Holds(b, i)' <=> \A f \in KeyFields : [account |-> b, id |-> f, value |-> i[f]] \in rows'
      BY DEF Holds
    <3>2. \A f \in KeyFields : [account |-> b, id |-> f, value |-> i[f]] \notin rows
      BY <1>3
    <3> QED  BY <3>1, <3>2
  <2>2. Holds(b, i)' <=> \A f \in KeyFields : i[f] = PickKeyFieldInputsFrom(input)[f]
    <3> HIDE DEF DirectoryInv, DistinctInv
    <3>1. input \in Inputs /\ DoFieldInputsContainAllKeyFields(input) /\ ~ Duplicates(input)
      BY <1>1
    <3> HIDE DEF input
    <3>2. (\A f \in KeyFields : [account |-> b, id |-> f, value |-> i[f]] \in RowsOf(b, input))
            <=> \A f \in KeyFields : i[f] = PickKeyFieldInputsFrom(input)[f]
      BY <3>1, IdentityRows
    <3> QED  BY <2>1, <3>2
  <2>3. i = Wants(r) <=> \A f \in KeyFields : i[f] = PickKeyFieldInputsFrom(input)[f]
    BY <1>1 DEF Wants, Identities, PickKeyFieldInputsFrom
  <2> QED  BY <2>2, <2>3
<1>5. ASSUME NEW i \in Identities
      PROVE  (\E a \in accounts' : Holds(a, i)') <=> i = Wants(r) \/ \E a \in accounts : Holds(a, i)
  BY <1>2, <1>4
<1> QED  BY <1>1, <1>5 DEF Registered

LEMMA InsertRefines ==
  ASSUME DirectoryInv, NEW r \in Requests, InsertAccount(r)
  PROVE  [DirectoryOf!Next]_(DirectoryOf!vars)
<1> USE DEF DirectoryInv, DistinctInv
<1>1. TypeInv /\ AccountsTypeOK /\ Course(r) /\ Others(r)
  BY StepOthers DEF TypeInv, AccountsServe
<1>2. /\ stage[r] = "insert" /\ asked'[r] = asked[r] /\ asked[r] # Unasked
      /\ found[r] = NoAccount /\ answer[r] = "none" /\ asked[r].op = "create"
      /\ DoFieldInputsContainAllKeyFields(asked[r].input)
  BY <1>1, InsertCases DEF Course, Undecided, TypeInv, Asked
<1>3. Subject(r)' = Subject(r)
  BY <1>2 DEF Subject, DoFieldInputsContainAllKeyFields, FieldsOf, PickKeyFieldInputsFrom
<1>4. Verdict(r) = "none"
  BY <1>1, <1>2, VerdictCases
<1>5. Subject(r) = Wants(r) /\ Subject(r) # Nobody /\ Subject(r) \notin Registered
  <2>1. \A a \in accounts : ~ Holds(a, Wants(r))
    BY <1>2
  <2> QED  BY <1>1, <1>2, <2>1, SubjectIs DEF Registered
<1>6. CASE UNCHANGED <<accounts, rows>> /\ found'[r] = found[r] /\ answer'[r] = "failed"
  <2>1. Verdict(r)' = "none"
    BY <1>2, <1>6 DEF Verdict
  <2> QED  BY <1>1, <1>3, <1>4, <1>6, <2>1, VerdictKept, DirectoryKept DEF Others
<1>7. ASSUME NEW b \in Nat \ {NoAccount}, b \notin accounts, ~ Duplicates(asked[r].input),
             accounts' = accounts \union {b}, rows' = rows \union RowsOf(b, asked[r].input),
             found'[r] = b, answer'[r] = answer[r]
      PROVE  DirectoryOf!Next
  <2>1. Verdict(r)' = "new"
    BY <1>2, <1>7 DEF Verdict
  <2>2. Registered' = Registered \union {Subject(r)}
    BY <1>2, <1>5, <1>7, InsertRegisters
  <2>3. /\ [q \in Requests |-> Subject(q)]' = [q \in Requests |-> Subject(q)]
        /\ [q \in Requests |-> Verdict(q)]' = [[q \in Requests |-> Verdict(q)] EXCEPT ![r] = "new"]
    BY <1>1, <1>3, <2>1, OneDecides
  <2>4. DirectoryOf!Register(r)
    BY <1>4, <1>5, <2>2, <2>3 DEF DirectoryOf!Register, DirectoryOf!Decide, Registered, Subject
  <2> QED  BY <2>4 DEF DirectoryOf!Next
<1> QED  BY <1>1, <1>6, <1>7, InsertCases

\* The second statement of a creation and the rows of sessions decide nothing.
LEMMA RestRefines ==
  ASSUME DirectoryInv, NEW r \in Requests,
         CreateUserAttributes(r) \/ CreateSession(r) \/ GetUserAttributes(r)
  PROVE  UNCHANGED DirectoryOf!vars
<1> USE DEF DirectoryInv, DistinctInv
<1>1. TypeInv /\ AccountsTypeOK /\ Course(r) /\ Others(r) /\ Course(r)' /\ AccountsTypeOK'
  <2>1. AccountsTypeOK'
    BY NextTypeInv DEF AccountsNext, AccountsServe, TypeInv
  <2> QED  BY <2>1, StepOthers, CourseStep DEF TypeInv, AccountsServe
<1>2. UNCHANGED <<accounts, rows, asked, found>>
  BY DEF CreateUserAttributes, CreateSession, GetUserAttributes, tables
<1>3. Subject(r)' = Subject(r)
  BY <1>2 DEF Subject, DoFieldInputsContainAllKeyFields, FieldsOf, PickKeyFieldInputsFrom
<1>4. Verdict(r)' = Verdict(r)
  <2>1. CASE CreateUserAttributes(r)
    <3>1. asked[r] # Unasked /\ asked[r].op = "create" /\ found[r] # NoAccount /\ answer[r] = "none"
      BY <1>1, <2>1 DEF CreateUserAttributes, Course, TypeInv, Asked, Located
    <3>2. Verdict(r) = "new"
      BY <3>1 DEF Verdict
    <3>3. answer'[r] = "created"
      BY <1>1, <2>1 DEF CreateUserAttributes, Reply, AccountsTypeOK
    <3>4. Verdict(r)' = "new"
      BY <1>2, <3>1, <3>3 DEF Verdict
    <3> QED  BY <3>2, <3>4
  <2>2. CASE CreateSession(r) \/ GetUserAttributes(r)
    <3>1. /\ asked[r] # Unasked /\ asked[r].op = "id" /\ found[r] # NoAccount
          /\ answer[r] \in {"none", "session"}
      BY <1>1, <2>2 DEF CreateSession, GetUserAttributes, Course, TypeInv, Asked, Located, Unasked
    <3>2. Verdict(r) = "known"
      BY <3>1 DEF Verdict
    <3>3. answer'[r] \in {"session", "welcome", "no attributes"}
      BY <1>1, <2>2 DEF CreateSession, GetUserAttributes, Reply, AccountsTypeOK
    <3>4. Verdict(r)' = "known"
      BY <1>2, <3>1, <3>3 DEF Verdict
    <3> QED  BY <3>2, <3>4
  <2> QED  BY <2>1, <2>2
<1> QED  BY <1>1, <1>2, <1>3, <1>4, VerdictKept, DirectoryKept DEF Others

\* The count of matching rows and the two-step creation implement the
\* directory, as long as creates do not overlap: an identity is registered once,
\* and a refusal, a find and a miss are each true at the statement that decides.
THEOREM AccountsImplementDirectory == OneByOne => (AccountsSpec => ImplementsDirectory)
<1> SUFFICES ASSUME OneByOne  PROVE  AccountsSpec => DirectoryOf!Spec
  BY DEF ImplementsDirectory
<1>1. DirectoryInv /\ [AccountsNext]_accountsVars => DirectoryInv'
  BY NextDirectory
<1>2. DirectoryInv /\ [AccountsNext]_accountsVars => [DirectoryOf!Next]_(DirectoryOf!vars)
  <2> SUFFICES ASSUME DirectoryInv, [AccountsNext]_accountsVars  PROVE  [DirectoryOf!Next]_(DirectoryOf!vars)
    OBVIOUS
  <2>1. CASE Stop \/ UNCHANGED accountsVars
    <3>1. UNCHANGED <<accounts, rows, asked, found, answer>>
      BY <2>1 DEF Stop, accountsVars, tables
    <3> QED  BY <3>1, VerdictKept, DirectoryKept
  <2> QED
    BY <2>1, ReceiveRefines, LookupRefines, InsertRefines, RestRefines DEF AccountsNext, AccountsServe
<1> QED  BY <1>1, <1>2, InitDirectoryInv, InitDirectory, PTL DEF AccountsSpec, DirectoryOf!Spec

-----------------------------------------------------------------------------
(***************************************************************************)
(* Authentication.                                                         *)
(***************************************************************************)
-----------------------------------------------------------------------------
(***************************************************************************)
(* Types                                                                   *)
(***************************************************************************)
\* The empty table and the placeholder request are well typed.
LEMMA ConstantTypes ==
    /\ NoRows \in [MessageNames -> Row]
    /\ AbsentRow \in Row
    /\ Finish \in Operation
    /\ NoVisible \in [challenge : BOOLEAN, messages : SUBSET MessageNames]
<1>1. AbsentRow \in Row
  BY DEF AbsentRow, Row
<1>2. \E c : c \in Challenges
  BY ChallengesAssumption
<1>3. Finish.ch \in Challenges
  BY <1>2 DEF Finish
<1>4. QED
  BY <1>1, <1>3 DEF NoRows, Finish, Operation, NoVisible, MessageNames

\* What a handler drafts is well typed.
LEMMA EnsureType ==
    ASSUME NEW c, NEW old, NEW new \in [MessageNames -> Row],
           NEW x \in Nonces \union {NoAnswer}
    PROVE  EnsurePendingMessage(c, old, new, x) \in [MessageNames -> Row]
<1> DEFINE next == NextDraft(c, old, new)
<1>1. CASE next = NoMessage
  BY <1>1 DEF EnsurePendingMessage
<1>2. CASE next # NoMessage
  <2>1. next \in {NoMessage, "GetPasswordFields", "SelectKey", "SignNonce"}
    BY DEF NextDraft, DraftNextMessage, PasswordDraft, SignatureDraft
  <2>2. [status |-> "null", expect |-> IF next = "SignNonce" THEN x ELSE Stored] \in Row
    BY DEF Row
  <2>3. EnsurePendingMessage(c, old, new, x) =
            [new EXCEPT ![next] = [status |-> "null",
                expect |-> IF next = "SignNonce" THEN x ELSE Stored]]
    BY <1>2 DEF EnsurePendingMessage
  <2>4. QED
    BY <2>2, <2>3
<1>3. QED
  BY <1>1, <1>2

\* Ending a request keeps the types.
LEMMA ForgetType ==
    ASSUME TypeOK, NEW w \in Workers, Forget(w)
    PROVE  /\ pc' \in [Workers -> Steps]
           /\ op' \in [Workers -> Operation]
           /\ final' \in [Workers -> [MessageNames -> Row]]
           /\ draft' \in [Workers -> [MessageNames -> Row]]
           /\ visible' \in [Workers -> [challenge : BOOLEAN, messages : SUBSET MessageNames]]
           /\ todo' \in [Workers -> SUBSET Challenges]
           /\ judged' \in [Workers -> MessageNames \union {NoMessage}]
  BY ConstantTypes DEF TypeOK, Forget, Steps

LEMMA OperationTypes ==
    ASSUME NEW o \in Operation
    PROVE  /\ o.ch \in Challenges
           /\ o.kind = "respond-message" => o.msg \in MessageNames
<1>1. CASE o = Finish
  BY <1>1, ChallengesAssumption DEF Finish
<1>2. CASE o # Finish
  <2>1. \/ o \in [kind : {"new", "pending-message"}, ch : Challenges,
                  msg : {NoMessage}, answer : {NoAnswer}]
        \/ o \in [kind : {"respond-message"}, ch : Challenges,
                  msg : MessageNames, answer : Nonces \union {Stored, Wrong}]
    BY <1>2 DEF Operation
  <2>2. QED
    BY <2>1
<1>3. QED
  BY <1>1, <1>2

LEMMA AnswerType ==
    ASSUME TypeOK, NEW w \in Workers, Answer(w)
    PROVE  refuted' \subseteq Challenges \X MessageNames
<1>1. op[w] \in Operation /\ judged[w] \in MessageNames \union {NoMessage}
  BY DEF TypeOK
<1>2. op[w].ch \in Challenges
  BY <1>1, OperationTypes
<1>3. QED
  BY <1>1, <1>2 DEF Answer, TypeOK

LEMMA FailType ==
    ASSUME TypeOK, NEW w \in Workers, Fail(w)
    PROVE  TypeOK'
<1>1. Forget(w) /\ Answer(w)
  BY DEF Fail, Answer
<1>2. UNCHANGED <<session, challenge, message, shown, wronged, accepted, logins>>
  BY DEF Fail, db
<1>3. QED
  BY <1>1, <1>2, ForgetType, AnswerType DEF TypeOK

LEMMA WriteType ==
    ASSUME TypeOK, NEW w \in Workers, Write(w)
    PROVE  TypeOK'
<1>1. op[w] \in Operation /\ op[w].ch \in Challenges
  BY OperationTypes DEF TypeOK
<1>2. Forget(w) /\ Answer(w)
  BY DEF Write, Answer
<1>3. challenge' \in [Challenges -> {"absent", "Pending", "Aborted", "Succeeded"}]
  <2>1. AuthOutcome(op[w].ch, draft[w]) \in {"Pending", "Aborted", "Succeeded"}
    BY DEF AuthOutcome
  <2>2. QED
    BY <2>1, <1>1 DEF Write, TypeOK
<1>4. message' \in [Challenges -> [MessageNames -> Row]]
  BY <1>1 DEF Write, TypeOK
<1>5. accepted' \in [Challenges -> [MessageNames -> 0 .. 2]]
  <2> DEFINE c == op[w].ch
             n == op[w].msg
  <2>1. CASE op[w].kind # "respond-message"
    BY <2>1 DEF Write, TypeOK
  <2>2. CASE op[w].kind = "respond-message"
    <3>1. n \in MessageNames
      BY <1>1, <2>2, OperationTypes
    <3>2. accepted[c][n] \in 0 .. 2
      BY <1>1, <3>1 DEF TypeOK
    <3>3. AtMostTwo(accepted[c][n] + 1) \in 0 .. 2
      BY <3>2 DEF AtMostTwo
    <3>4. accepted' = [accepted EXCEPT ![c][n] = AtMostTwo(accepted[c][n] + 1)]
      BY <2>2 DEF Write
    <3>5. QED
      BY <1>1, <3>1, <3>3, <3>4 DEF TypeOK
  <2>3. QED
    BY <2>1, <2>2
<1>6. UNCHANGED <<session, shown, wronged, logins>>
  BY DEF Write
<1>7. QED
  BY <1>2, <1>3, <1>4, <1>5, <1>6, ForgetType, AnswerType DEF TypeOK

\* Types are preserved by every step of a request.
LEMMA TypeStep ==
    ASSUME TypeOK, [Next]_vars
    PROVE  TypeOK'
<1>1. CASE UNCHANGED vars
  BY <1>1 DEF vars, db, memory, history, TypeOK
<1>2. ASSUME NEW w \in Workers, Receive(w)
      PROVE  TypeOK'
  <2>1. PICK o \in Operation :
            /\ op' = [op EXCEPT ![w] = o]
            /\ Goto(w, IF o.kind = "finish" THEN "finish_session" ELSE "validate_session")
            /\ wronged' = IF o.answer = Wrong THEN wronged \union {o.ch} ELSE wronged
    BY <1>2 DEF Receive
  <2>2. o.ch \in Challenges
    BY OperationTypes
  <2>3. QED
    BY <1>2, <2>1, <2>2 DEF Receive, Goto, TypeOK, Steps, db
<1>3. ASSUME NEW w \in Workers, Crash(w)
      PROVE  TypeOK'
  BY <1>3, ForgetType DEF Crash, TypeOK, db, history
<1>4. ASSUME NEW w \in Workers, ValidatePendingSessionState(w)
      PROVE  TypeOK'
  BY <1>4, FailType DEF ValidatePendingSessionState, Goto, TypeOK, Steps, db, memory, history
<1>5. ASSUME NEW w \in Workers, ValidateNewChallengeState(w)
      PROVE  TypeOK'
  BY <1>5, FailType DEF ValidateNewChallengeState, Goto, TypeOK, Steps, db, memory, history
<1>6. ASSUME NEW w \in Workers, ValidatePendingChallengeState(w)
      PROVE  TypeOK'
  BY <1>6, FailType DEF ValidatePendingChallengeState, Goto, TypeOK, Steps, db, memory, history
<1>7. ASSUME NEW w \in Workers, SetupSession(w)
      PROVE  TypeOK'
  BY <1>7, FailType DEF SetupSession, Goto, TypeOK, Steps, db, memory, history
<1>8. ASSUME NEW w \in Workers, SetupChallenge(w)
      PROVE  TypeOK'
  BY <1>8, FailType DEF SetupChallenge, Goto, TypeOK, Steps, db, memory, history
<1>9. ASSUME NEW w \in Workers, SetupMessages(w)
      PROVE  TypeOK'
  <2> DEFINE c == op[w].ch
             msgs == message[c]
             old == ExistingFinalMessages(msgs)
             new == ProspectiveMessages(msgs)
  <2>1. c \in Challenges
    BY OperationTypes DEF TypeOK
  <2>2. msgs \in [MessageNames -> Row]
    BY <2>1 DEF TypeOK
  <2>3. old \in [MessageNames -> Row] /\ new \in [MessageNames -> Row]
    BY <2>2, ConstantTypes DEF ExistingFinalMessages, ProspectiveMessages
  <2>4. UNCHANGED <<session, challenge, message, wronged, accepted, logins>>
    BY <1>9 DEF SetupMessages, db
  <2> HIDE DEF old, new
  <2>5. PICK x \in Nonces \union {NoAnswer} :
          \/ /\ final' = [final EXCEPT ![w] = old]
             /\ draft' = [draft EXCEPT ![w] = EnsurePendingMessage(c, old, new, x)]
             /\ Goto(w, IF op[w].kind = "new" THEN "save" ELSE "respond")
             /\ UNCHANGED <<op, visible, todo, judged, shown, refuted>>
          \/ /\ shown' = [shown EXCEPT ![c] = @ \union
                    (Expected(EnsurePendingMessage(c, old, new, x)) \cap Nonces)]
             /\ Answer(w)
    BY <1>9 DEF SetupMessages, old, new, msgs
  <2>6. EnsurePendingMessage(c, old, new, x) \in [MessageNames -> Row]
    BY <2>3, EnsureType
  <2>7. CASE /\ final' = [final EXCEPT ![w] = old]
             /\ draft' = [draft EXCEPT ![w] = EnsurePendingMessage(c, old, new, x)]
             /\ Goto(w, IF op[w].kind = "new" THEN "save" ELSE "respond")
             /\ UNCHANGED <<op, visible, todo, judged, shown, refuted>>
    BY <2>3, <2>4, <2>6, <2>7 DEF TypeOK, Goto, Steps
  <2>8. CASE /\ shown' = [shown EXCEPT ![c] = @ \union
                    (Expected(EnsurePendingMessage(c, old, new, x)) \cap Nonces)]
             /\ Answer(w)
    <3>1. Forget(w)
      BY <2>8 DEF Answer
    <3>2. shown' \in [Challenges -> SUBSET Nonces]
      BY <2>1, <2>8 DEF TypeOK
    <3>3. QED
      BY <2>4, <2>8, <3>1, <3>2, ForgetType, AnswerType DEF TypeOK
  <2>9. QED
    BY <2>5, <2>7, <2>8
<1>10. ASSUME NEW w \in Workers, ProcessPendingMessageResponse(w)
       PROVE  TypeOK'
  <2>1. CASE Fail(w)
    BY <2>1, FailType
  <2>2. CASE ~ Fail(w)
    <3> DEFINE n == op[w].msg
               new == [draft[w] EXCEPT ![n].status = Judge(draft[w][n], op[w].answer)]
    <3>1. n \in MessageNames
      BY <1>10, <2>2 DEF ProcessPendingMessageResponse, AwaitingResponse
    <3>2. new \in [MessageNames -> Row]
      <4>1. Judge(draft[w][n], op[w].answer) \in {"absent", "null", "Ok", "Error"}
        BY DEF Judge
      <4>2. draft[w] \in [MessageNames -> Row] /\ draft[w][n] \in Row
        BY <3>1 DEF TypeOK
      <4>3. [draft[w][n] EXCEPT !.status = Judge(draft[w][n], op[w].answer)] \in Row
        BY <4>1, <4>2 DEF Row
      <4>4. QED
        BY <3>1, <4>2, <4>3
    <3>3. /\ judged' \in [Workers -> MessageNames \union {NoMessage}]
          /\ Goto(w, "save")
          /\ UNCHANGED <<session, challenge, message, op, final, visible, todo,
                         shown, wronged, refuted, accepted, logins>>
      BY <1>10, <2>2, <3>1 DEF ProcessPendingMessageResponse, TypeOK, db
    <3> HIDE DEF n, new
    <3>4. PICK x \in Nonces \union {NoAnswer} :
              draft' = [draft EXCEPT ![w] = EnsurePendingMessage(op[w].ch, final[w], new, x)]
      BY <1>10, <2>2 DEF ProcessPendingMessageResponse, DraftAfter, n, new
    <3>5. draft' \in [Workers -> [MessageNames -> Row]]
      BY <3>2, <3>4, EnsureType DEF TypeOK
    <3>6. QED
      BY <3>3, <3>5 DEF TypeOK, Goto, Steps
  <2>3. QED
    BY <2>1, <2>2
<1>11. ASSUME NEW w \in Workers, TakeSnapshot(w)
       PROVE  TypeOK'
  <2>1. CASE Fail(w)
    BY <2>1, FailType
  <2>2. CASE ~ Fail(w)
    <3>1. visible' \in [Workers -> [challenge : BOOLEAN, messages : SUBSET MessageNames]]
      <4> DEFINE seen == [challenge |-> challenge[op[w].ch] # "absent",
                          messages |-> Present(message[op[w].ch])]
      <4>1. seen \in [challenge : BOOLEAN, messages : SUBSET MessageNames]
        BY DEF Present
      <4>2. visible' = [visible EXCEPT ![w] = seen]
        BY <1>11, <2>2 DEF TakeSnapshot
      <4> HIDE DEF seen
      <4>3. QED
        BY <4>1, <4>2 DEF TypeOK
    <3>2. QED
      BY <1>11, <2>2, <3>1 DEF TakeSnapshot, Goto, TypeOK, Steps, db, history
  <2>3. QED
    BY <2>1, <2>2
<1>12. ASSUME NEW w \in Workers, Upsert(w)
       PROVE  TypeOK'
  BY <1>12, FailType, WriteType DEF Upsert
<1>13. ASSUME NEW w \in Workers, FinishSession(w)
       PROVE  TypeOK'
  <2>1. CASE Fail(w)
    BY <2>1, FailType
  <2>2. CASE ~ Fail(w)
    <3>1. todo' \in [Workers -> SUBSET Challenges]
      BY <1>13, <2>2 DEF FinishSession, TypeOK
    <3>2. QED
      BY <1>13, <2>2, <3>1 DEF FinishSession, Goto, TypeOK, Steps, db, history
  <2>3. QED
    BY <2>1, <2>2
<1>14. ASSUME NEW w \in Workers, FinishCheck(w)
       PROVE  TypeOK'
  <2>1. CASE Fail(w)
    BY <2>1, FailType
  <2>2. CASE ~ Fail(w)
    <3>0. PICK c \in todo[w] :
              /\ todo' = [todo EXCEPT ![w] = @ \ {c}]
              /\ Goto(w, IF todo[w] = {c} THEN "finish_update" ELSE "finish_checks")
      BY <1>14, <2>2 DEF FinishCheck
    <3>1. todo' \in [Workers -> SUBSET Challenges]
      BY <3>0 DEF TypeOK
    <3>2. pc' \in [Workers -> Steps]
      BY <3>0 DEF Goto, TypeOK, Steps
    <3>3. UNCHANGED <<db, op, final, draft, visible, judged, history>>
      BY <1>14, <2>2 DEF FinishCheck
    <3>4. QED
      BY <3>1, <3>2, <3>3 DEF TypeOK, db, history
  <2>3. QED
    BY <2>1, <2>2
<1>15. ASSUME NEW w \in Workers, FinishUpdate(w)
       PROVE  TypeOK'
  <2>1. CASE Fail(w)
    BY <2>1, FailType
  <2>2. CASE ~ Fail(w)
    <3>1. Answer(w) /\ Forget(w)
      BY <1>15, <2>2 DEF FinishUpdate, Answer
    <3>2. session' = "Succeeded" /\ logins' \in 0 .. 2
      BY <1>15, <2>2 DEF FinishUpdate, TypeOK, AtMostTwo
    <3>3. UNCHANGED <<challenge, message, shown, wronged, accepted>>
      BY <1>15, <2>2 DEF FinishUpdate
    <3>4. QED
      BY <3>1, <3>2, <3>3, ForgetType, AnswerType DEF TypeOK
  <2>3. QED
    BY <2>1, <2>2
<1>16. QED
  BY <1>1, <1>2, <1>3, <1>4, <1>5, <1>6, <1>7, <1>8, <1>9, <1>10, <1>11,
     <1>12, <1>13, <1>14, <1>15 DEF Next, Serve

LEMMA TypeInit == Init => TypeOK
  BY ConstantTypes DEF Init, TypeOK, Steps

\* Type correctness: every variable of the backend keeps its type.
THEOREM TypeCorrect == Spec => []TypeOK
<1>1. TypeOK /\ [Next]_vars => TypeOK'
  BY TypeStep
<1>2. QED
  BY TypeInit, <1>1, PTL DEF Spec

-----------------------------------------------------------------------------
(***************************************************************************)
(* A session succeeds only after its challenges, and only once.            *)
(*                                                                         *)
(* finish() looks at one challenge per statement, so when it updates the   *)
(* session what it read may be several steps old.  That is harmless since  *)
(* a challenge that has succeeded stays so (WriteElsewhere): FinishInv     *)
(* adds to the properties that the challenges a worker has crossed off its *)
(* list still are what it saw.                                             *)
(***************************************************************************)
FinishInv ==
    /\ SessionNeedsChallenges
    /\ FinishedOnce
    /\ \A w \in Workers : pc[w] = "finish_checks" =>
            \A c \in Challenges \ todo[w] : challenge[c] = "Succeeded"
    /\ \A w \in Workers : pc[w] = "finish_update" =>
            \A c \in Challenges : challenge[c] = "Succeeded"

\* A step of w outside finish's checks that writes no outcome.
Elsewhere(w) ==
    /\ \E s \in Steps \ {"finish_checks", "finish_update"} : pc' = [pc EXCEPT ![w] = s]
    /\ \A v \in Workers \ {w} : todo'[v] = todo[v]
    /\ UNCHANGED <<session, logins>>

LEMMA FailElsewhere ==
    ASSUME NEW w \in Workers, TypeOK, Fail(w)
    PROVE  Elsewhere(w) /\ UNCHANGED challenge
  BY DEF Fail, Answer, Forget, Elsewhere, db, TypeOK, Steps

\* An upsert writes the outcome of a challenge that was pending or absent.
LEMMA WriteElsewhere ==
    ASSUME NEW w \in Workers, TypeOK, Upsert(w)
    PROVE  /\ Elsewhere(w)
           /\ \A c \in Challenges : challenge[c] = "Succeeded" => challenge'[c] = "Succeeded"
<1>1. CASE Fail(w)
  BY <1>1, FailElsewhere
<1>2. CASE ~ Fail(w)
  <2>1. ShouldWrite(w) /\ ~ UniqueViolation(w) /\ Write(w)
    BY <1>2 DEF Upsert
  <2>2. op[w].ch \in Challenges
    BY OperationTypes DEF TypeOK
  <2>3. challenge[op[w].ch] # "Succeeded"
    BY <2>1 DEF ShouldWrite, UniqueViolation
  <2>4. Elsewhere(w)
    BY <2>1 DEF Write, Answer, Forget, Elsewhere, TypeOK, Steps
  <2>5. challenge' = [challenge EXCEPT ![op[w].ch] = AuthOutcome(op[w].ch, draft[w])]
    BY <2>1 DEF Write
  <2>6. QED
    BY <2>2, <2>3, <2>4, <2>5 DEF TypeOK
<1>3. QED
  BY <1>1, <1>2

\* Which steps of the requests are of no concern to finish().
LEMMA ServeElsewhere ==
    ASSUME NEW w \in Workers, TypeOK,
           \/ Receive(w) \/ Crash(w) \/ ValidatePendingSessionState(w)
           \/ ValidateNewChallengeState(w) \/ ValidatePendingChallengeState(w)
           \/ SetupSession(w) \/ SetupChallenge(w) \/ SetupMessages(w)
           \/ ProcessPendingMessageResponse(w) \/ TakeSnapshot(w)
    PROVE  Elsewhere(w) /\ UNCHANGED challenge
<1> USE DEF Elsewhere, Goto, db, memory, history, TypeOK, Steps
<1>1. CASE Receive(w)
  BY <1>1 DEF Receive
<1>2. CASE Crash(w)
  BY <1>2 DEF Crash, Forget
<1>3. CASE Fail(w)
  BY <1>3, FailElsewhere
<1>4. CASE ValidatePendingSessionState(w) /\ ~ Fail(w)
  BY <1>4 DEF ValidatePendingSessionState
<1>5. CASE ValidateNewChallengeState(w) /\ ~ Fail(w)
  BY <1>5 DEF ValidateNewChallengeState
<1>6. CASE ValidatePendingChallengeState(w) /\ ~ Fail(w)
  BY <1>6 DEF ValidatePendingChallengeState
<1>7. CASE SetupSession(w) /\ ~ Fail(w)
  BY <1>7 DEF SetupSession
<1>8. CASE SetupChallenge(w) /\ ~ Fail(w)
  BY <1>8 DEF SetupChallenge
<1>9. CASE SetupMessages(w)
  BY <1>9 DEF SetupMessages, Answer, Forget
<1>10. CASE ProcessPendingMessageResponse(w) /\ ~ Fail(w)
  BY <1>10 DEF ProcessPendingMessageResponse
<1>11. CASE TakeSnapshot(w) /\ ~ Fail(w)
  BY <1>11 DEF TakeSnapshot
<1>12. QED
  BY <1>1, <1>2, <1>3, <1>4, <1>5, <1>6, <1>7, <1>8, <1>9, <1>10, <1>11

LEMMA ElsewhereKeeps ==
    ASSUME NEW w \in Workers, TypeOK, FinishInv, Elsewhere(w),
           \A c \in Challenges : challenge[c] = "Succeeded" => challenge'[c] = "Succeeded"
    PROVE  FinishInv'
<1>1. SessionNeedsChallenges' /\ FinishedOnce'
  BY DEF FinishInv, Elsewhere, SessionNeedsChallenges, FinishedOnce
<1>2. \A v \in Workers : pc'[v] \in {"finish_checks", "finish_update"} =>
        v # w /\ pc'[v] = pc[v] /\ todo'[v] = todo[v]
  BY DEF Elsewhere, TypeOK
<1>3. QED
  BY <1>1, <1>2 DEF FinishInv

LEMMA FinishStep ==
    ASSUME TypeOK, FinishInv, [Next]_vars
    PROVE  FinishInv'
<1>1. CASE UNCHANGED vars
  BY <1>1 DEF FinishInv, SessionNeedsChallenges, FinishedOnce, vars, db, memory, history
<1>2. ASSUME NEW w \in Workers, FinishSession(w)
      PROVE  FinishInv'
  <2>1. CASE Fail(w)
    BY <2>1, FailElsewhere, ElsewhereKeeps
  <2>2. CASE ~ Fail(w)
    BY <1>2, <2>2 DEF FinishSession, Goto, db, history, FinishInv,
        SessionNeedsChallenges, FinishedOnce, TypeOK
  <2>3. QED
    BY <2>1, <2>2
<1>3. ASSUME NEW w \in Workers, FinishCheck(w)
      PROVE  FinishInv'
  <2>1. CASE Fail(w)
    BY <2>1, FailElsewhere, ElsewhereKeeps
  <2>2. CASE ~ Fail(w)
    <3>1. PICK d \in todo[w] :
              /\ challenge[d] = "Succeeded"
              /\ todo' = [todo EXCEPT ![w] = todo[w] \ {d}]
              /\ pc' = [pc EXCEPT ![w] = IF todo[w] = {d} THEN "finish_update" ELSE "finish_checks"]
      BY <1>3, <2>2 DEF FinishCheck, Missing, Goto
    <3>2. pc[w] = "finish_checks" /\ UNCHANGED <<session, challenge, logins>>
      BY <1>3, <2>2 DEF FinishCheck, db, history
    <3>3. \A c \in Challenges \ (todo[w] \ {d}) : challenge[c] = "Succeeded"
      BY <3>1, <3>2 DEF FinishInv
    <3>4. SessionNeedsChallenges' /\ FinishedOnce'
      BY <3>2 DEF FinishInv, SessionNeedsChallenges, FinishedOnce
    <3>5. ASSUME NEW v \in Workers, pc'[v] = "finish_checks", NEW c \in Challenges \ todo'[v]
          PROVE  challenge'[c] = "Succeeded"
      BY <3>1, <3>2, <3>3, <3>5 DEF FinishInv, TypeOK
    <3>6. ASSUME NEW v \in Workers, pc'[v] = "finish_update", NEW c \in Challenges
          PROVE  challenge'[c] = "Succeeded"
      BY <3>1, <3>2, <3>3, <3>6 DEF FinishInv, TypeOK
    <3>7. QED
      BY <3>4, <3>5, <3>6 DEF FinishInv
  <2>3. QED
    BY <2>1, <2>2
<1>4. ASSUME NEW w \in Workers, FinishUpdate(w)
      PROVE  FinishInv'
  <2>1. CASE Fail(w)
    BY <2>1, FailElsewhere, ElsewhereKeeps
  <2>2. CASE ~ Fail(w)
    <3>1. /\ session = "Pending" /\ session' = "Succeeded"
          /\ logins' = AtMostTwo(logins + 1)
          /\ UNCHANGED challenge /\ pc[w] = "finish_update" /\ Forget(w)
      BY <1>4, <2>2 DEF FinishUpdate, Answer
    <3>2. logins = 0
      BY <3>1 DEF FinishInv, FinishedOnce
    <3>3. SessionNeedsChallenges' /\ FinishedOnce'
      BY <3>1, <3>2 DEF FinishInv, SessionNeedsChallenges, FinishedOnce, AtMostTwo
    <3>4. QED
      BY <3>1, <3>3 DEF FinishInv, Forget, TypeOK
  <2>3. QED
    BY <2>1, <2>2
<1>5. ASSUME NEW w \in Workers, Receive(w) \/ Crash(w) \/ Serve(w),
             ~ FinishSession(w), ~ FinishCheck(w), ~ FinishUpdate(w)
      PROVE  FinishInv'
  <2>1. CASE Upsert(w)
    BY <2>1, WriteElsewhere, ElsewhereKeeps
  <2>2. CASE ~ Upsert(w)
    BY <1>5, <2>2, ServeElsewhere, ElsewhereKeeps DEF Serve
  <2>3. QED
    BY <2>1, <2>2
<1>6. QED
  BY <1>1, <1>2, <1>3, <1>4, <1>5 DEF Next

\* FinishInv is an invariant.
LEMMA FinishInvariant == Spec => []FinishInv
<1>1. Init => FinishInv
  BY DEF Init, FinishInv, SessionNeedsChallenges, FinishedOnce
<1>2. TypeOK /\ FinishInv /\ [Next]_vars => FinishInv'
  BY FinishStep
<1>3. QED
  BY <1>1, <1>2, TypeCorrect, PTL DEF Spec

\* A session succeeds only when every challenge of its account version has,
\* for any number of challenges and concurrent requests.
THEOREM SessionSound == Spec => []SessionNeedsChallenges
<1>1. FinishInv => SessionNeedsChallenges
  BY DEF FinishInv
<1>2. QED
  BY <1>1, FinishInvariant, PTL

\* At most one finish request is told that the session succeeded.
THEOREM FinishesOnce == Spec => []FinishedOnce
<1>1. FinishInv => FinishedOnce
  BY DEF FinishInv
<1>2. QED
  BY <1>1, FinishInvariant, PTL

-----------------------------------------------------------------------------
(***************************************************************************)
(* The challenge and message rows of AuthBackend stay consistent, and its  *)
(* requests run the protocol of AuthProtocol, for every set of challenges, *)
(* nonces and concurrent requests.                                         *)
(***************************************************************************)
-----------------------------------------------------------------------------
(***************************************************************************)
(* What the rows of a challenge can be: one of few stories.                *)
(***************************************************************************)
\* The first message of a challenge, the one that opens it.
First(c) == IF ChallengeType[c] = "Password" THEN "GetPasswordFields" ELSE "SelectKey"

\* A row is the empty one, or expects an answer of its kind.
RowFits(n, row) ==
    IF row.status = "absent" THEN row = AbsentRow
    ELSE row.expect \in IF n = "SignNonce" THEN Nonces ELSE {Stored}

\* The outcomes a challenge may have, with the statuses of its messages.
PasswordStory(outcome, msgs) ==
    /\ msgs["SelectKey"].status = "absent"
    /\ msgs["SignNonce"].status = "absent"
    /\ <<outcome, msgs["GetPasswordFields"].status>> \in
            {<<"absent", "absent">>, <<"Pending", "null">>,
             <<"Aborted", "Error">>, <<"Succeeded", "Ok">>}

SignatureStory(outcome, msgs) ==
    /\ msgs["GetPasswordFields"].status = "absent"
    /\ <<outcome, msgs["SelectKey"].status, msgs["SignNonce"].status>> \in
            {<<"absent", "absent", "absent">>, <<"Pending", "null", "absent">>,
             <<"Pending", "Ok", "null">>, <<"Aborted", "Ok", "Error">>,
             <<"Succeeded", "Ok", "Ok">>}

Story(c) ==
    /\ \A n \in MessageNames : RowFits(n, message[c][n])
    /\ IF ChallengeType[c] = "Password" THEN PasswordStory(challenge[c], message[c])
                                        ELSE SignatureStory(challenge[c], message[c])

(***************************************************************************)
(* What the handlers of the concurrent requests carry between statements.  *)
(***************************************************************************)
\* A batch with a pending message, before a response was judged.
Waiting(c, msgs) ==
    IF ChallengeType[c] = "Password"
    THEN /\ msgs["SelectKey"].status = "absent" /\ msgs["SignNonce"].status = "absent"
         /\ msgs["GetPasswordFields"].status \in {"absent", "null"}
    ELSE /\ msgs["GetPasswordFields"].status = "absent"
         /\ <<msgs["SelectKey"].status, msgs["SignNonce"].status>> \in
                {<<"absent", "absent">>, <<"null", "absent">>, <<"absent", "null">>}

\* A batch whose message n was judged; SelectKey is followed by SignNonce.
Judged(c, n, msgs) ==
    /\ msgs[n].status \in {"Ok", "Error"}
    /\ \A m \in MessageNames \ {n} :
            msgs[m].status = IF n = "SelectKey" /\ m = "SignNonce" THEN "null" ELSE "absent"

\* A nonce in a batch without SelectKey is the nonce of the stored row.
NonceIsStored(c, msgs) ==
    "SignNonce" \in Present(msgs) /\ "SelectKey" \notin Present(msgs) =>
        /\ "SignNonce" \in Present(message[c])
        /\ message[c]["SignNonce"].expect = msgs["SignNonce"].expect

\* The kinds of requests each step serves.
Kinds(step) ==
    CASE step = "validate_new" -> {"new"}
      [] step \in {"validate_challenge", "respond"} -> {"respond-message"}
      [] step \in {"save", "upsert"} -> {"new", "respond-message"}
      [] step \in {"validate_session", "setup_session", "setup_challenge", "setup_messages"}
            -> {"new", "pending-message", "respond-message"}
      [] OTHER -> {"finish"}

RequestOf(w) ==
    /\ op[w].kind \in Kinds(pc[w])
    /\ Sendable(op[w])
    /\ op[w].answer = Wrong => op[w].ch \in wronged
    /\ /\ op[w].kind = "respond-message"
       /\ pc[w] \notin {"validate_session", "validate_challenge"}
       => challenge[op[w].ch] # "absent"
    /\ judged[w] # NoMessage =>
        /\ pc[w] \in {"save", "upsert"}
        /\ op[w].kind = "respond-message"
        /\ judged[w] = op[w].msg
        /\ draft[w][judged[w]].status = "Error"

DraftOf(w) ==
    LET c == op[w].ch
        msgs == draft[w]
    IN
    pc[w] \in {"respond", "save", "upsert"} =>
        /\ \A n \in MessageNames : RowFits(n, msgs[n])
        /\ NonceIsStored(c, msgs)
        /\ IF op[w].kind = "respond-message" /\ pc[w] # "respond"
           THEN /\ Judged(c, op[w].msg, msgs)
                /\ msgs[op[w].msg].status = "Error" => c \in wronged
           ELSE Waiting(c, msgs)
        /\ pc[w] = "respond" /\ "SelectKey" \in Present(msgs) =>
                "SignNonce" \notin Completed(final[w])

SnapshotOf(w) ==
    LET c == op[w].ch
        seen == visible[w].messages
    IN
    pc[w] = "upsert" =>
        /\ ValidInput(draft[w])
        /\ seen \subseteq Present(message[c])
        /\ IF visible[w].challenge THEN challenge[c] # "absent" /\ First(c) \in seen
                                   ELSE seen = {}
        /\ op[w].kind = "respond-message" => visible[w].challenge
        /\ "SignNonce" \in Present(draft[w]) /\ "SelectKey" \notin Present(draft[w]) =>
                {"SelectKey", "SignNonce"} \subseteq seen

RowsInv ==
    /\ \A c \in Challenges : Story(c)
    /\ ResponseAcceptedOnce
    /\ ClientsAreJudged
    /\ \A w \in Workers : RequestOf(w) /\ DraftOf(w) /\ SnapshotOf(w)

-----------------------------------------------------------------------------
(***************************************************************************)
(* Drafting                                                                *)
(***************************************************************************)
\* The message definitions by the type of the challenge.
LEMMA Definitions ==
    ASSUME NEW c \in Challenges
    PROVE  /\ ChallengeType[c] \in HandledTypes
           /\ ChallengeType[c] = "Password" => MessageDefs(c) = {"GetPasswordFields"}
           /\ ChallengeType[c] # "Password" => MessageDefs(c) = {"SelectKey", "SignNonce"}
  BY ChallengesAssumption DEF MessageDefs, HandledTypes

\* A draft for the rows of a table that tells a story waits for an answer, and
\* a nonce in it is the stored one.
LEMMA SetupDraft ==
    ASSUME NEW c \in Challenges, Story(c), message[c] \in [MessageNames -> Row],
           NEW x \in Nonces \union {NoAnswer},
           NEW old, old = ExistingFinalMessages(message[c]),
           NEW new, new = ProspectiveMessages(message[c]),
           Draws(c, old, new, x),
           NEW msgs, msgs = EnsurePendingMessage(c, old, new, x)
    PROVE  /\ \A n \in MessageNames : RowFits(n, msgs[n])
           /\ NonceIsStored(c, msgs)
           /\ Waiting(c, msgs)
           /\ "SelectKey" \in Present(msgs) => "SignNonce" \notin Completed(old)
           /\ \A y \in Expected(msgs) \cap Nonces : message[c]["SignNonce"].expect = y
<1> USE DEF MessageNames, Row, AbsentRow
<1> DEFINE stored == message[c]
<1>1. /\ old = [n \in MessageNames |-> IF stored[n].status \in {"Ok", "Error"} THEN stored[n] ELSE AbsentRow]
      /\ new = [n \in MessageNames |-> IF stored[n].status = "null" THEN stored[n] ELSE AbsentRow]
  BY DEF ExistingFinalMessages, ProspectiveMessages, Completed, AwaitingResponse
<1>2. \A n \in MessageNames : RowFits(n, stored[n])
  BY DEF Story
<1>3. Stored \notin Nonces /\ NoAnswer \notin Nonces
  BY NoncesAssumption
<1>0. /\ AwaitingResponse(new) = {n \in MessageNames : stored[n].status = "null"}
      /\ Completed(old) = {n \in MessageNames : stored[n].status \in {"Ok", "Error"}}
      /\ Completed(new) = {}
      /\ new \in [MessageNames -> Row]
      /\ NoMessage \notin MessageNames
  BY <1>1 DEF AwaitingResponse, Completed, NoMessage
<1>4. CASE ChallengeType[c] = "Password"
  <2>1. PasswordStory(challenge[c], stored)
    BY <1>4 DEF Story
  <2>2. stored["SelectKey"].status = "absent" /\ stored["SignNonce"].status = "absent"
    BY <2>1 DEF PasswordStory
  <2>3. CASE stored["GetPasswordFields"].status = "absent"
    <3>0. NextDraft(c, old, new) = "GetPasswordFields"
      BY <1>0, <1>4, <2>2, <2>3 DEF NextDraft, DraftNextMessage, PasswordDraft
    <3>1. msgs = [new EXCEPT !["GetPasswordFields"] = [status |-> "null", expect |-> Stored]]
      BY <1>0, <3>0 DEF EnsurePendingMessage
    <3>2. /\ msgs["GetPasswordFields"] = [status |-> "null", expect |-> Stored]
          /\ msgs["SelectKey"] = AbsentRow /\ msgs["SignNonce"] = AbsentRow
      BY <1>1, <2>2, <3>1
    <3>3. QED
      BY <1>3, <1>4, <3>2 DEF Waiting, NonceIsStored, RowFits, Present, Expected, AwaitingResponse
  <2>4. CASE stored["GetPasswordFields"].status # "absent"
    <3>0. NextDraft(c, old, new) = NoMessage
      BY <1>0, <1>4, <2>1, <2>4 DEF PasswordStory, NextDraft, DraftNextMessage, PasswordDraft
    <3>1. msgs = new
      BY <3>0 DEF EnsurePendingMessage
    <3>2. /\ msgs["GetPasswordFields"] \in {AbsentRow, [status |-> "null", expect |-> Stored]}
          /\ msgs["SelectKey"] = AbsentRow /\ msgs["SignNonce"] = AbsentRow
      BY <1>1, <1>2, <2>2, <3>1 DEF RowFits
    <3>3. QED
      BY <1>3, <1>4, <3>2 DEF Waiting, NonceIsStored, RowFits, Present, Expected, AwaitingResponse
  <2>5. QED
    BY <2>3, <2>4
<1>5. CASE ChallengeType[c] # "Password"
  <2>1. SignatureStory(challenge[c], stored)
    BY <1>5 DEF Story
  <2>2. stored["GetPasswordFields"].status = "absent"
    BY <2>1 DEF SignatureStory
  <2>3. CASE stored["SelectKey"].status = "absent"
    <3>1. stored["SignNonce"].status = "absent"
      BY <2>1, <2>3 DEF SignatureStory
    <3>0. NextDraft(c, old, new) = "SelectKey"
      BY <1>0, <1>5, <2>2, <2>3, <3>1 DEF NextDraft, DraftNextMessage, SignatureDraft
    <3>2. msgs = [new EXCEPT !["SelectKey"] = [status |-> "null", expect |-> Stored]]
      BY <1>0, <3>0 DEF EnsurePendingMessage
    <3>3. /\ msgs["SelectKey"] = [status |-> "null", expect |-> Stored]
          /\ msgs["GetPasswordFields"] = AbsentRow /\ msgs["SignNonce"] = AbsentRow
          /\ old["SignNonce"] = AbsentRow
      BY <1>1, <2>2, <3>1, <3>2
    <3>4. QED
      BY <1>3, <1>5, <3>3 DEF Waiting, NonceIsStored, RowFits, Present, Expected,
          AwaitingResponse, Completed
  <2>4. CASE stored["SelectKey"].status = "null"
    <3>1. stored["SignNonce"].status = "absent"
      BY <2>1, <2>4 DEF SignatureStory
    <3>2. msgs = new
      BY <1>0, <2>4 DEF EnsurePendingMessage, NextDraft
    <3>3. /\ msgs["SelectKey"] = [status |-> "null", expect |-> Stored]
          /\ msgs["GetPasswordFields"] = AbsentRow /\ msgs["SignNonce"] = AbsentRow
          /\ old["SignNonce"] = AbsentRow
      BY <1>1, <1>2, <2>2, <2>4, <3>1, <3>2 DEF RowFits
    <3>4. QED
      BY <1>3, <1>5, <3>3 DEF Waiting, NonceIsStored, RowFits, Present, Expected,
          AwaitingResponse, Completed
  <2>5. CASE stored["SelectKey"].status \notin {"absent", "null"}
    <3>1. stored["SelectKey"].status = "Ok" /\ stored["SignNonce"].status \in {"null", "Ok", "Error"}
      BY <2>1, <2>5 DEF SignatureStory
    <3>0. NextDraft(c, old, new) = NoMessage
      BY <1>0, <1>5, <2>2, <3>1 DEF NextDraft, DraftNextMessage, SignatureDraft
    <3>2. msgs = new
      BY <3>0 DEF EnsurePendingMessage
    <3>3. /\ msgs["SignNonce"] = IF stored["SignNonce"].status = "null"
                                 THEN stored["SignNonce"] ELSE AbsentRow
          /\ msgs["SelectKey"] = AbsentRow /\ msgs["GetPasswordFields"] = AbsentRow
      BY <1>1, <2>2, <3>1, <3>2
    <3>4. RowFits("SignNonce", stored["SignNonce"])
      BY <1>2
    <3>5. QED
      BY <1>3, <1>5, <3>1, <3>3, <3>4 DEF Waiting, NonceIsStored, RowFits, Present, Expected,
          AwaitingResponse, Completed
  <2>6. QED
    BY <2>3, <2>4, <2>5
<1>6. QED
  BY <1>4, <1>5

\* After a response was judged the batch holds it, followed by a nonce to sign
\* when the message was SelectKey.
LEMMA JudgedDraft ==
    ASSUME NEW c \in Challenges, NEW drafted \in [MessageNames -> Row], NEW old,
           NEW n \in AwaitingResponse(drafted), NEW status \in {"Ok", "Error"},
           Waiting(c, drafted), \A m \in MessageNames : RowFits(m, drafted[m]),
           NonceIsStored(c, drafted),
           "SelectKey" \in Present(drafted) => "SignNonce" \notin Completed(old),
           NEW x \in Nonces \union {NoAnswer},
           NEW new, new = [drafted EXCEPT ![n].status = status],
           Draws(c, old, new, x),
           NEW msgs, msgs = EnsurePendingMessage(c, old, new, x)
    PROVE  /\ \A m \in MessageNames : RowFits(m, msgs[m])
           /\ NonceIsStored(c, msgs)
           /\ Judged(c, n, msgs)
           /\ msgs[n].status = status
<1> USE DEF MessageNames, Row, AbsentRow
<1>1. n \in MessageNames /\ drafted[n].status = "null"
  BY DEF AwaitingResponse
<1>2. /\ new \in [MessageNames -> Row]
      /\ new[n] = [status |-> status, expect |-> drafted[n].expect]
      /\ \A m \in MessageNames \ {n} : new[m] = drafted[m]
  BY <1>1
<1>3. \A m \in MessageNames \ {n} : drafted[m].status = "absent"
  BY <1>1 DEF Waiting
<1>4. \A m \in MessageNames \ {n} : new[m] = AbsentRow
  BY <1>2, <1>3 DEF RowFits
<1>a. \A m \in MessageNames : m # n => new[m].status = "absent"
  BY <1>4
<1>b. new[n].status = status /\ new[n].expect = drafted[n].expect
  BY <1>2
<1>5. AwaitingResponse(new) = {} /\ Completed(new) = {n}
  BY <1>2, <1>4 DEF AwaitingResponse, Completed
<1>6. RowFits(n, new[n])
  <2>1. RowFits(n, drafted[n])
    BY <1>1
  <2>2. QED
    BY <1>1, <1>2, <2>1 DEF RowFits
<1>7. CASE n = "SelectKey"
  <2>1. ChallengeType[c] # "Password"
    BY <1>1, <1>7 DEF Waiting
  <2>2. "SignNonce" \notin Completed(old)
    BY <1>1, <1>7 DEF Present
  <2>3. NextDraft(c, old, new) = "SignNonce"
    BY <1>5, <1>7, <2>1, <2>2 DEF NextDraft, DraftNextMessage, SignatureDraft
  <2>4. x \in Nonces
    BY <2>3 DEF Draws
  <2>5. msgs = [new EXCEPT !["SignNonce"] = [status |-> "null", expect |-> x]]
    BY <2>3 DEF EnsurePendingMessage, NoMessage
  <2>6. /\ msgs["SignNonce"] = [status |-> "null", expect |-> x]
        /\ msgs["SelectKey"] = new["SelectKey"] /\ msgs["GetPasswordFields"] = AbsentRow
    BY <1>2, <1>4, <1>7, <2>5
  <2>a. /\ msgs["SignNonce"].status = "null"
        /\ msgs["SelectKey"].status = status
        /\ msgs["GetPasswordFields"].status = "absent"
    BY <1>b, <1>7, <2>6
  <2>7. Judged(c, n, msgs) /\ NonceIsStored(c, msgs) /\ msgs[n].status = status
    BY <1>7, <2>a DEF NonceIsStored, Judged, Present
  <2>8. ASSUME NEW m \in MessageNames
        PROVE  RowFits(m, msgs[m])
    <3>1. CASE m = "SignNonce"
      BY <2>4, <2>6, <3>1 DEF RowFits
    <3>2. CASE m = "SelectKey"
      BY <1>6, <1>7, <2>6, <3>2
    <3>3. CASE m = "GetPasswordFields"
      BY <2>6, <3>3 DEF RowFits
    <3>4. QED
      BY <3>1, <3>2, <3>3
  <2>9. QED
    BY <2>7, <2>8
<1>8. CASE n # "SelectKey"
  <2>1. NextDraft(c, old, new) = NoMessage
    <3>1. CASE ChallengeType[c] = "Password"
      <4>1. n = "GetPasswordFields"
        BY <1>1, <3>1 DEF Waiting
      <4>2. QED
        BY <1>5, <3>1, <4>1 DEF NextDraft, DraftNextMessage, PasswordDraft
    <3>2. CASE ChallengeType[c] # "Password"
      <4>1. n = "SignNonce"
        BY <1>1, <1>8, <3>2 DEF Waiting
      <4>2. QED
        BY <1>5, <3>2, <4>1 DEF NextDraft, DraftNextMessage, SignatureDraft
    <3>3. QED
      BY <3>1, <3>2
  <2>2. msgs = new
    BY <2>1 DEF EnsurePendingMessage
  <2>3. NonceIsStored(c, msgs)
    <3>1. SUFFICES ASSUME "SignNonce" \in Present(msgs)
                   PROVE  /\ "SignNonce" \in Present(message[c])
                          /\ message[c]["SignNonce"].expect = msgs["SignNonce"].expect
      BY DEF NonceIsStored
    <3>2. n = "SignNonce"
      BY <1>a, <2>2, <3>1 DEF Present
    <3>3. "SignNonce" \in Present(drafted) /\ "SelectKey" \notin Present(drafted)
      BY <1>1, <1>3, <3>2 DEF Present
    <3>4. msgs["SignNonce"].expect = drafted["SignNonce"].expect
      BY <1>b, <2>2, <3>2
    <3>5. QED
      BY <3>3, <3>4 DEF NonceIsStored
  <2>4. Judged(c, n, msgs) /\ msgs[n].status = status
    BY <1>a, <1>b, <1>8, <2>2 DEF Judged
  <2>5. ASSUME NEW m \in MessageNames
        PROVE  RowFits(m, msgs[m])
    BY <1>4, <1>6, <2>2 DEF RowFits
  <2>6. QED
    BY <2>3, <2>4, <2>5
<1>9. QED
  BY <1>7, <1>8

-----------------------------------------------------------------------------
(***************************************************************************)
(* What an upsert that writes can do to its challenge.                     *)
(***************************************************************************)
\* The first message of a new challenge is inserted.
Opens(c) ==
    /\ challenge[c] = "absent"
    /\ challenge'[c] = "Pending"
    /\ message'[c] = [message[c] EXCEPT ![First(c)] = [status |-> "null", expect |-> Stored]]
    /\ accepted'[c] = accepted[c]

\* The pending message is written once more, as it was.
Keeps(c) ==
    /\ challenge[c] = "Pending"
    /\ UNCHANGED <<challenge[c], message[c], accepted[c]>>

\* The response to n is accepted; after SelectKey a nonce is waiting.
Judges(c, n, status) ==
    /\ challenge[c] = "Pending"
    /\ message[c][n].status = "null"
    /\ n = "SelectKey" => status = "Ok"
    /\ challenge'[c] = IF status = "Error" THEN "Aborted"
                       ELSE IF n = "SelectKey" THEN "Pending" ELSE "Succeeded"
    /\ message'[c][n].status = status
    /\ message'[c][n].expect = message[c][n].expect
    /\ \A m \in MessageNames \ {n} :
            IF n = "SelectKey" /\ m = "SignNonce"
            THEN /\ message[c][m].status = "absent"
                 /\ message'[c][m].status = "null"
                 /\ message'[c][m].expect \in Nonces
            ELSE message'[c][m] = message[c][m]
    /\ accepted'[c] = [accepted[c] EXCEPT ![n] = AtMostTwo(@ + 1)]

Writes(w) ==
    LET c == op[w].ch
    IN
    /\ \A d \in Challenges \ {c} : UNCHANGED <<challenge[d], message[d], accepted[d]>>
    /\ \/ op[w].kind = "new" /\ (Opens(c) \/ Keeps(c))
       \/ /\ op[w].kind = "respond-message"
          /\ op[w].msg \in MessageDefs(c)
          /\ Judges(c, op[w].msg, draft[w][op[w].msg].status)
          /\ draft[w][op[w].msg].status \in {"Ok", "Error"}
          /\ draft[w][op[w].msg].status = "Error" => c \in wronged

\* A write without a response opens the challenge or changes nothing.
LEMMA NewCases ==
    ASSUME TypeOK, NEW w \in Workers, NEW c, c = op[w].ch, c \in Challenges,
           Story(c), DraftOf(w), SnapshotOf(w), pc[w] = "upsert", op[w].kind = "new",
           ShouldWrite(w), ~ UniqueViolation(w), Write(w)
    PROVE  Opens(c) \/ Keeps(c)
<1> DEFINE msgs == draft[w]
           seen == visible[w].messages
<1> USE DEF MessageNames
<1>1. /\ msgs \in [MessageNames -> Row] /\ message \in [Challenges -> [MessageNames -> Row]]
      /\ challenge \in [Challenges -> {"absent", "Pending", "Aborted", "Succeeded"}]
      /\ accepted \in [Challenges -> [MessageNames -> 0 .. 2]]
  BY DEF TypeOK
<1>2. Waiting(c, msgs) /\ NonceIsStored(c, msgs) /\ \A n \in MessageNames : RowFits(n, msgs[n])
  BY DEF DraftOf
<1>3. PICK n \in MessageNames : n \in Present(msgs)
  BY DEF SnapshotOf, ValidInput, Present
<1>4. /\ msgs[n].status = "null"
      /\ \A m \in MessageNames \ {n} : msgs[m].status = "absent"
      /\ n # First(c) => n = "SignNonce" /\ ChallengeType[c] # "Password"
  BY <1>2, <1>3 DEF Waiting, Present, First
<1>5. Present(msgs) = {n} /\ AwaitingResponse(msgs) = {n}
  BY <1>4 DEF Present, AwaitingResponse
<1>6. AuthOutcome(c, msgs) = "Pending"
  BY <1>4, <1>5 DEF AuthOutcome
<1>7. /\ challenge' = [challenge EXCEPT ![c] = "Pending"]
      /\ message' = [message EXCEPT ![c] =
            [m \in MessageNames |-> IF m \in Present(msgs) THEN msgs[m] ELSE message[c][m]]]
      /\ accepted' = accepted
  BY <1>6 DEF Write
<1>8. /\ challenge'[c] = "Pending"
      /\ message'[c] = [m \in MessageNames |-> IF m = n THEN msgs[m] ELSE message[c][m]]
  BY <1>1, <1>5, <1>7
<1>9. CASE n \in seen
  <2>1. message[c][n].status = "null"
    BY <1>5, <1>9 DEF ShouldWrite
  <2>2. challenge[c] = "Pending"
    BY <2>1 DEF Story, PasswordStory, SignatureStory
  <2>3. msgs[n].expect = message[c][n].expect
    <3>1. CASE n = "SignNonce"
      <4>1. "SelectKey" \notin Present(msgs)
        BY <1>5, <3>1
      <4>2. QED
        BY <1>2, <1>3, <3>1, <4>1 DEF NonceIsStored
    <3>2. CASE n # "SignNonce"
      <4>1. RowFits(n, msgs[n]) /\ RowFits(n, message[c][n])
        BY <1>2 DEF Story
      <4>2. QED
        BY <1>4, <2>1, <3>2, <4>1 DEF RowFits
    <3>3. QED
      BY <3>1, <3>2
  <2>4. msgs[n] = message[c][n]
    <3>1. msgs[n] \in Row /\ message[c][n] \in Row
      BY <1>1
    <3>2. QED
      BY <1>4, <2>1, <2>3, <3>1 DEF Row
  <2>5. message'[c] = message[c]
    <3>1. message[c] \in [MessageNames -> Row]
      BY <1>1
    <3>2. QED
      BY <1>8, <2>4, <3>1
  <2>6. QED
    BY <1>7, <1>8, <2>2, <2>5 DEF Keeps
<1>10. CASE n \notin seen
  <2>1. message[c][n].status = "absent"
    BY <1>5, <1>10 DEF UniqueViolation
  <2>2. n = First(c)
    <3>1. CASE n = "SignNonce"
      <4>1. "SignNonce" \in Present(msgs) /\ "SelectKey" \notin Present(msgs)
        BY <1>5, <3>1
      <4>2. QED
        BY <1>10, <3>1, <4>1 DEF SnapshotOf
    <3>2. QED
      BY <1>4, <3>1
  <2>3. challenge[c] = "absent"
    <3>1. CASE ChallengeType[c] = "Password"
      BY <2>1, <2>2, <3>1 DEF First, Story, PasswordStory
    <3>2. CASE ChallengeType[c] # "Password"
      BY <2>1, <2>2, <3>2 DEF First, Story, SignatureStory
    <3>3. QED
      BY <3>1, <3>2
  <2>4. msgs[n] = [status |-> "null", expect |-> Stored]
    <3>1. msgs[n] \in Row /\ RowFits(n, msgs[n]) /\ n # "SignNonce"
      BY <1>1, <1>2, <2>2 DEF First
    <3>2. QED
      BY <1>4, <3>1 DEF Row, RowFits
  <2>5. message'[c] = [message[c] EXCEPT ![n] = [status |-> "null", expect |-> Stored]]
    <3>1. message[c] \in [MessageNames -> Row]
      BY <1>1
    <3>2. QED
      BY <1>8, <2>4, <3>1
  <2>6. QED
    BY <1>7, <1>8, <2>2, <2>3, <2>5 DEF Opens
<1>11. QED
  BY <1>9, <1>10

\* A write with a response completes the message the client answered.
LEMMA ResponseCases ==
    ASSUME TypeOK, NEW w \in Workers, NEW c, c = op[w].ch, c \in Challenges,
           NEW n, n = op[w].msg, Story(c), RequestOf(w), DraftOf(w), SnapshotOf(w),
           pc[w] = "upsert", op[w].kind = "respond-message",
           ShouldWrite(w), ~ UniqueViolation(w), Write(w)
    PROVE  /\ n \in MessageDefs(c)
           /\ Judges(c, n, draft[w][n].status)
<1> DEFINE msgs == draft[w]
           seen == visible[w].messages
<1> USE DEF MessageNames
<1>1. /\ msgs \in [MessageNames -> Row] /\ message \in [Challenges -> [MessageNames -> Row]]
      /\ challenge \in [Challenges -> {"absent", "Pending", "Aborted", "Succeeded"}]
      /\ accepted \in [Challenges -> [MessageNames -> 0 .. 2]]
  BY DEF TypeOK
<1>2. Judged(c, n, msgs) /\ NonceIsStored(c, msgs) /\ \A m \in MessageNames : RowFits(m, msgs[m])
  BY DEF DraftOf
<1>3. n \in MessageDefs(c) /\ n \in MessageNames
  BY DEF RequestOf, Sendable, MessageDefs
<1>4. n = First(c) \/ (n = "SignNonce" /\ ChallengeType[c] # "Password")
  BY <1>3 DEF MessageDefs, First
<1>5. /\ msgs[n].status \in {"Ok", "Error"}
      /\ \A m \in MessageNames \ {n} :
            msgs[m].status = IF n = "SelectKey" /\ m = "SignNonce" THEN "null" ELSE "absent"
  BY <1>2 DEF Judged
<1>6. /\ Present(msgs) = IF n = "SelectKey" THEN {"SelectKey", "SignNonce"} ELSE {n}
      /\ AwaitingResponse(msgs) = IF n = "SelectKey" THEN {"SignNonce"} ELSE {}
  BY <1>3, <1>5 DEF Present, AwaitingResponse
<1>7. n \in seen
  <2>1. visible[w].challenge /\ First(c) \in seen
    BY DEF SnapshotOf
  <2>2. CASE n = "SignNonce"
    BY <1>6, <2>2 DEF SnapshotOf
  <2>3. QED
    BY <1>4, <2>1, <2>2
<1>8. message[c][n].status = "null"
  BY <1>6, <1>7 DEF ShouldWrite
<1>9. challenge[c] = "Pending" /\ (n = "SelectKey" => message[c]["SignNonce"].status = "absent")
  BY <1>3, <1>8 DEF Story, PasswordStory, SignatureStory
<1>10. n = "SelectKey" => msgs[n].status = "Ok"
  <2>1. CASE n = "SelectKey"
    <3>1. n \in NotLast(msgs)
      BY <1>6, <2>1 DEF NotLast, Preceding
    <3>2. QED
      BY <3>1 DEF SnapshotOf, ValidInput
  <2>2. QED
    BY <2>1
<1>11. msgs[n].expect = message[c][n].expect
  <2>1. CASE n = "SignNonce"
    <3>1. "SignNonce" \in Present(msgs) /\ "SelectKey" \notin Present(msgs)
      BY <1>6, <2>1
    <3>2. QED
      BY <1>2, <2>1, <3>1 DEF NonceIsStored
  <2>2. CASE n # "SignNonce"
    <3>1. RowFits(n, msgs[n]) /\ RowFits(n, message[c][n])
      BY <1>2, <1>3 DEF Story
    <3>2. QED
      BY <1>5, <1>8, <2>2, <3>1 DEF RowFits
  <2>3. QED
    BY <2>1, <2>2
<1>12. AuthOutcome(c, msgs) = IF msgs[n].status = "Error" THEN "Aborted"
                              ELSE IF n = "SelectKey" THEN "Pending" ELSE "Succeeded"
  <2>1. CASE msgs[n].status = "Error"
    BY <1>3, <1>6, <2>1 DEF AuthOutcome
  <2>2. CASE msgs[n].status = "Ok"
    <3>1. \A m \in Present(msgs) : msgs[m].status # "Error"
      BY <1>5, <2>2 DEF Present
    <3>2. CASE n = "SelectKey"
      BY <1>6, <2>2, <3>1, <3>2 DEF AuthOutcome
    <3>3. CASE n # "SelectKey"
      <4>1. ExpectedPrevious(msgs) = Preceding(n) \ {n}
        <5>1. Present(msgs) = {n}
          BY <1>6, <3>3
        <5>2. UNION {Preceding(m) : m \in {n}} = Preceding(n)
          OBVIOUS
        <5>3. QED
          BY <5>1, <5>2 DEF ExpectedPrevious
      <4>2. ExpectedPrevious(msgs) \union Present(msgs) = MessageDefs(c)
        BY <1>3, <1>6, <3>3, <4>1 DEF Preceding, MessageDefs
      <4>3. QED
        BY <1>6, <2>2, <3>1, <3>3, <4>2 DEF AuthOutcome
    <3>4. QED
      BY <3>2, <3>3
  <2>3. QED
    BY <1>5, <2>1, <2>2
<1>13. /\ challenge' = [challenge EXCEPT ![c] = AuthOutcome(c, msgs)]
       /\ message' = [message EXCEPT ![c] =
            [m \in MessageNames |-> IF m \in Present(msgs) THEN msgs[m] ELSE message[c][m]]]
       /\ accepted' = [accepted EXCEPT ![c][n] = AtMostTwo(@ + 1)]
  BY DEF Write
<1>14. /\ challenge'[c] = AuthOutcome(c, msgs)
       /\ accepted'[c] = [accepted[c] EXCEPT ![n] = AtMostTwo(@ + 1)]
       /\ \A m \in MessageNames :
            message'[c][m] = IF m \in Present(msgs) THEN msgs[m] ELSE message[c][m]
  BY <1>1, <1>13
<1>15. ASSUME NEW m \in MessageNames \ {n}
       PROVE  IF n = "SelectKey" /\ m = "SignNonce"
              THEN /\ message[c][m].status = "absent"
                   /\ message'[c][m].status = "null"
                   /\ message'[c][m].expect \in Nonces
              ELSE message'[c][m] = message[c][m]
  <2>1. CASE n = "SelectKey" /\ m = "SignNonce"
    <3>1. message'[c][m] = msgs[m] /\ msgs[m].status = "null" /\ RowFits(m, msgs[m])
      BY <1>2, <1>5, <1>6, <1>14, <2>1
    <3>2. QED
      BY <1>9, <2>1, <3>1 DEF RowFits
  <2>2. CASE ~ (n = "SelectKey" /\ m = "SignNonce")
    BY <1>6, <1>14, <2>2
  <2>3. QED
    BY <2>1, <2>2
<1>16. message'[c][n] = msgs[n]
  BY <1>3, <1>6, <1>14
<1>17. QED
  BY <1>3, <1>8, <1>9, <1>10, <1>11, <1>12, <1>14, <1>15, <1>16 DEF Judges

LEMMA WriteCases ==
    ASSUME TypeOK, RowsInv, NEW w \in Workers, pc[w] = "upsert",
           ShouldWrite(w), ~ UniqueViolation(w), Write(w)
    PROVE  Writes(w)
<1> DEFINE c == op[w].ch
           n == op[w].msg
<1>1. c \in Challenges
  BY OperationTypes DEF TypeOK
<1>2. Story(c) /\ RequestOf(w) /\ DraftOf(w) /\ SnapshotOf(w)
  BY <1>1 DEF RowsInv
<1>3. \A d \in Challenges \ {c} : UNCHANGED <<challenge[d], message[d], accepted[d]>>
  BY DEF Write, TypeOK
<1>4. op[w].kind \in {"new", "respond-message"}
  BY <1>2 DEF RequestOf, Kinds
<1>5. CASE op[w].kind = "new"
  <2>1. Opens(c) \/ Keeps(c)
    BY <1>1, <1>2, <1>5, NewCases
  <2>2. QED
    BY <1>3, <1>5, <2>1 DEF Writes
<1>6. CASE op[w].kind = "respond-message"
  <2>1. n \in MessageDefs(c) /\ Judges(c, n, draft[w][n].status)
    BY <1>1, <1>2, <1>6, ResponseCases
  <2>2. /\ draft[w][n].status \in {"Ok", "Error"}
        /\ draft[w][n].status = "Error" => c \in wronged
    BY <1>2, <1>6 DEF DraftOf, Judged
  <2>3. QED
    BY <1>3, <1>6, <2>1, <2>2 DEF Writes
<1>7. QED
  BY <1>4, <1>5, <1>6

-----------------------------------------------------------------------------
(***************************************************************************)
(* The rows of a challenge keep telling a story, and only grow.            *)
(***************************************************************************)
\* Rows are never removed, keep what they expect, and are completed once.
Grows(c) ==
    /\ challenge[c] # "absent" => challenge'[c] # "absent"
    /\ \A n \in Present(message[c]) :
        /\ n \in Present(message'[c])
        /\ message'[c][n].expect = message[c][n].expect
        /\ n \in Completed(message[c]) => message'[c][n] = message[c][n]

AcceptedOnce(c) ==
    \A n \in MessageNames : accepted[c][n] = IF n \in Completed(message[c]) THEN 1 ELSE 0

LEMMA OpensStep ==
    ASSUME TypeOK, NEW c \in Challenges, Story(c), AcceptedOnce(c), Opens(c)
    PROVE  Story(c)' /\ Grows(c) /\ AcceptedOnce(c)'
<1> USE DEF MessageNames
<1>1. message[c] \in [MessageNames -> Row] /\ First(c) \in MessageNames
  BY DEF TypeOK, First
<1>2. \A n \in MessageNames : message[c][n].status = "absent" /\ message[c][n] = AbsentRow
  BY DEF Opens, Story, PasswordStory, SignatureStory, RowFits
<1>3. /\ message'[c][First(c)].status = "null" /\ message'[c][First(c)].expect = Stored
      /\ \A n \in MessageNames \ {First(c)} : message'[c][n] = message[c][n]
  BY <1>1 DEF Opens
<1>4. \A n \in MessageNames \ {First(c)} : message'[c][n].status = "absent"
  BY <1>2, <1>3
<1>5. Story(c)'
  <2>1. ASSUME NEW n \in MessageNames
        PROVE  RowFits(n, message'[c][n])
    <3>1. CASE n = First(c)
      BY <1>3, <3>1 DEF RowFits, First
    <3>2. CASE n # First(c)
      BY <1>2, <1>3, <3>2 DEF RowFits
    <3>3. QED
      BY <3>1, <3>2
  <2>2. challenge'[c] = "Pending"
    BY DEF Opens
  <2>3. CASE ChallengeType[c] = "Password"
    BY <1>3, <1>4, <2>1, <2>2, <2>3 DEF First, Story, PasswordStory
  <2>4. CASE ChallengeType[c] # "Password"
    BY <1>3, <1>4, <2>1, <2>2, <2>4 DEF First, Story, SignatureStory
  <2>5. QED
    BY <2>3, <2>4
<1>6. Grows(c)
  BY <1>2 DEF Opens, Grows, Present
<1>7. AcceptedOnce(c)'
  BY <1>2, <1>3, <1>4 DEF Opens, AcceptedOnce, Completed
<1>8. QED
  BY <1>5, <1>6, <1>7

LEMMA KeepsStep ==
    ASSUME NEW c \in Challenges, Story(c), AcceptedOnce(c),
           UNCHANGED <<challenge[c], message[c], accepted[c]>>
    PROVE  Story(c)' /\ Grows(c) /\ AcceptedOnce(c)'
  BY DEF Story, PasswordStory, SignatureStory, Grows, AcceptedOnce

LEMMA JudgesStep ==
    ASSUME TypeOK, NEW c \in Challenges, Story(c), AcceptedOnce(c),
           NEW n \in MessageDefs(c), NEW status \in {"Ok", "Error"}, Judges(c, n, status)
    PROVE  Story(c)' /\ Grows(c) /\ AcceptedOnce(c)'
<1> USE DEF MessageNames
<1>1. n \in MessageNames /\ message[c][n].status = "null" /\ challenge[c] = "Pending"
  BY DEF MessageDefs, Judges
<1>2. /\ message'[c][n].status = status
      /\ message'[c][n].expect = message[c][n].expect
  BY DEF Judges
<1>3. ASSUME NEW m \in MessageNames \ {n}
      PROVE  IF n = "SelectKey" /\ m = "SignNonce"
             THEN /\ message[c][m].status = "absent"
                  /\ message'[c][m].status = "null"
                  /\ message'[c][m].expect \in Nonces
             ELSE message'[c][m] = message[c][m]
  BY DEF Judges
<1>4. challenge'[c] = IF status = "Error" THEN "Aborted"
                      ELSE IF n = "SelectKey" THEN "Pending" ELSE "Succeeded"
  BY DEF Judges
<1>5. Story(c)'
  <2>1. ASSUME NEW m \in MessageNames
        PROVE  RowFits(m, message'[c][m])
    <3>0. RowFits(m, message[c][m])
      BY DEF Story
    <3>1. CASE m = n
      BY <1>1, <1>2, <3>0, <3>1 DEF RowFits
    <3>2. CASE m # n
      BY <1>3, <3>0, <3>2 DEF RowFits
    <3>3. QED
      BY <3>1, <3>2
  <2>3. CASE ChallengeType[c] = "Password"
    <3>1. n = "GetPasswordFields"
      BY <2>3 DEF MessageDefs
    <3>2. message'[c]["SelectKey"] = message[c]["SelectKey"]
          /\ message'[c]["SignNonce"] = message[c]["SignNonce"]
      BY <1>3, <3>1
    <3>3. PasswordStory(challenge'[c], message'[c])
      BY <1>2, <1>4, <2>3, <3>1, <3>2 DEF Story, PasswordStory
    <3>4. QED
      BY <2>1, <2>3, <3>3 DEF Story
  <2>4. CASE ChallengeType[c] # "Password"
    <3>1. SignatureStory(challenge[c], message[c])
      BY <2>4 DEF Story
    <3>2. message'[c]["GetPasswordFields"] = message[c]["GetPasswordFields"]
      BY <1>3, <2>4 DEF MessageDefs
    <3>3. CASE n = "SelectKey"
      <4>1. message'[c]["SignNonce"].status = "null" /\ status = "Ok"
        BY <1>3, <3>3 DEF Judges
      <4>2. SignatureStory(challenge'[c], message'[c])
        BY <1>2, <1>4, <3>1, <3>2, <3>3, <4>1 DEF SignatureStory
      <4>3. QED
        BY <2>1, <2>4, <4>2 DEF Story
    <3>4. CASE n = "SignNonce"
      <4>1. message'[c]["SelectKey"] = message[c]["SelectKey"]
            /\ message[c]["SelectKey"].status = "Ok"
        BY <1>1, <1>3, <3>1, <3>4 DEF SignatureStory
      <4>2. SignatureStory(challenge'[c], message'[c])
        BY <1>2, <1>4, <3>1, <3>2, <3>4, <4>1 DEF SignatureStory
      <4>3. QED
        BY <2>1, <2>4, <4>2 DEF Story
    <3>5. QED
      BY <2>4, <3>3, <3>4 DEF MessageDefs
  <2>5. QED
    BY <2>3, <2>4
<1>6. Grows(c)
  <2>1. ASSUME NEW m \in Present(message[c])
        PROVE  /\ m \in Present(message'[c])
               /\ message'[c][m].expect = message[c][m].expect
               /\ m \in Completed(message[c]) => message'[c][m] = message[c][m]
    <3>0. m \in MessageNames /\ message[c][m].status # "absent"
      BY DEF Present
    <3>1. CASE m = n
      BY <1>1, <1>2, <3>0, <3>1 DEF Present, Completed
    <3>2. CASE m # n
      <4>1. message'[c][m] = message[c][m]
        BY <1>3, <3>0, <3>2
      <4>2. QED
        BY <3>0, <4>1 DEF Present
    <3>3. QED
      BY <3>1, <3>2
  <2>2. QED
    BY <1>4, <2>1 DEF Grows
<1>7. AcceptedOnce(c)'
  <2>1. accepted[c] \in [MessageNames -> 0 .. 2] /\ accepted[c][n] = 0
    BY <1>1 DEF TypeOK, AcceptedOnce, Completed
  <2>2. accepted'[c] = [accepted[c] EXCEPT ![n] = 1]
    BY <2>1 DEF Judges, AtMostTwo
  <2>3. ASSUME NEW m \in MessageNames
        PROVE  accepted'[c][m] = IF m \in Completed(message'[c]) THEN 1 ELSE 0
    <3>1. CASE m = n
      BY <1>1, <1>2, <2>1, <2>2, <3>1 DEF Completed
    <3>2. CASE m # n
      <4>1. accepted'[c][m] = accepted[c][m]
        BY <2>1, <2>2, <3>2
      <4>2. m \in Completed(message'[c]) <=> m \in Completed(message[c])
        BY <1>3, <3>2 DEF Completed
      <4>3. QED
        BY <4>1, <4>2 DEF AcceptedOnce
    <3>3. QED
      BY <3>1, <3>2
  <2>4. QED
    BY <2>3 DEF AcceptedOnce
<1>8. QED
  BY <1>5, <1>6, <1>7

\* Every challenge keeps its story, whichever challenge the upsert writes.
LEMMA WriteStep ==
    ASSUME TypeOK, RowsInv, NEW w \in Workers, Writes(w)
    PROVE  \A c \in Challenges : Story(c)' /\ Grows(c) /\ AcceptedOnce(c)'
<1>1. ASSUME NEW c \in Challenges
      PROVE  Story(c) /\ AcceptedOnce(c)
  BY DEF RowsInv, ResponseAcceptedOnce, AcceptedOnce
<1>2. ASSUME NEW c \in Challenges
      PROVE  Story(c)' /\ Grows(c) /\ AcceptedOnce(c)'
  <2>1. CASE c # op[w].ch
    <3>1. UNCHANGED <<challenge[c], message[c], accepted[c]>>
      BY <2>1 DEF Writes
    <3>2. QED
      BY <1>1, <3>1, KeepsStep
  <2>2. CASE c = op[w].ch /\ Opens(c)
    BY <1>1, <2>2, OpensStep
  <2>3. CASE c = op[w].ch /\ Keeps(c)
    BY <1>1, <2>3, KeepsStep DEF Keeps
  <2>4. CASE c = op[w].ch /\ ~ Opens(c) /\ ~ Keeps(c)
    <3> DEFINE n == op[w].msg
               status == draft[w][n].status
    <3>1. n \in MessageDefs(c) /\ status \in {"Ok", "Error"} /\ Judges(c, n, status)
      BY <2>4 DEF Writes
    <3> HIDE DEF n, status
    <3>2. QED
      BY <1>1, <3>1, JudgesStep
  <2>5. QED
    BY <2>1, <2>2, <2>3, <2>4
<1>3. QED
  BY <1>2

-----------------------------------------------------------------------------
(***************************************************************************)
(* What the other requests remember stays true of the rows.                *)
(***************************************************************************)
\* Only w's memory changes; what clients saw and did wrong accumulates.
Alone(w) ==
    /\ \A v \in Workers \ {w} :
        UNCHANGED <<pc[v], op[v], final[v], draft[v], visible[v], judged[v]>>
    /\ \A c \in Challenges : shown[c] \subseteq shown'[c]
    /\ wronged \subseteq wronged'

LEMMA GrowsInPlace ==
    ASSUME UNCHANGED <<challenge, message>>
    PROVE  \A c \in Challenges : Grows(c)
  BY DEF Grows

LEMMA OthersKept ==
    ASSUME TypeOK, RowsInv, NEW w \in Workers, Alone(w),
           \A c \in Challenges : Grows(c), NEW v \in Workers, v # w
    PROVE  RequestOf(v)' /\ DraftOf(v)' /\ SnapshotOf(v)'
<1> DEFINE c == op[v].ch
<1>1. c \in Challenges /\ op[v] \in Operation
  BY OperationTypes DEF TypeOK
<1>2. UNCHANGED <<pc[v], op[v], final[v], draft[v], visible[v], judged[v]>>
  BY DEF Alone
<1>3. RequestOf(v) /\ DraftOf(v) /\ SnapshotOf(v)
  BY DEF RowsInv
<1>4. Grows(c) /\ shown[c] \subseteq shown'[c] /\ wronged \subseteq wronged'
  BY <1>1 DEF Alone
<1>5. RequestOf(v)'
  <2>1. Sendable(op[v])'
    BY <1>2, <1>3, <1>4 DEF RequestOf, Sendable
  <2>2. QED
    BY <1>2, <1>3, <1>4, <2>1 DEF RequestOf, Grows
<1>6. NonceIsStored(c, draft[v]) => NonceIsStored(c, draft[v])'
  <2>1. SUFFICES ASSUME NonceIsStored(c, draft[v]), "SignNonce" \in Present(draft[v]),
                        "SelectKey" \notin Present(draft[v])
                 PROVE  /\ "SignNonce" \in Present(message'[c])
                        /\ message'[c]["SignNonce"].expect = draft[v]["SignNonce"].expect
    BY <1>2 DEF NonceIsStored
  <2>2. "SignNonce" \in Present(message[c])
        /\ message[c]["SignNonce"].expect = draft[v]["SignNonce"].expect
    BY <2>1 DEF NonceIsStored
  <2>3. QED
    BY <1>4, <2>2 DEF Grows
<1>7. DraftOf(v)'
  <2>1. CASE pc[v] \in {"respond", "save", "upsert"}
    <3>1. NonceIsStored(c, draft[v])'
      BY <1>3, <1>6, <2>1 DEF DraftOf
    <3>2. QED
      BY <1>2, <1>3, <1>4, <2>1, <3>1 DEF DraftOf
  <2>2. CASE pc[v] \notin {"respond", "save", "upsert"}
    BY <1>2, <2>2 DEF DraftOf
  <2>3. QED
    BY <2>1, <2>2
<1>8. SnapshotOf(v)'
  <2>1. CASE pc[v] = "upsert"
    <3>1. visible[v].messages \subseteq Present(message'[c])
      BY <1>3, <1>4, <2>1 DEF SnapshotOf, Grows
    <3>2. visible[v].challenge => challenge'[c] # "absent"
      BY <1>3, <1>4, <2>1 DEF SnapshotOf, Grows
    <3>3. QED
      BY <1>2, <1>3, <2>1, <3>1, <3>2 DEF SnapshotOf
  <2>2. CASE pc[v] # "upsert"
    BY <1>2, <2>2 DEF SnapshotOf
  <2>3. QED
    BY <2>1, <2>2
<1>9. QED
  BY <1>5, <1>7, <1>8

\* A worker whose request ended remembers nothing.
LEMMA Forgotten ==
    ASSUME TypeOK, NEW w \in Workers, Forget(w)
    PROVE  RequestOf(w)' /\ DraftOf(w)' /\ SnapshotOf(w)'
<1>1. pc'[w] = "idle" /\ op'[w] = Finish /\ judged'[w] = NoMessage
  BY DEF Forget, TypeOK
<1>2. Sendable(Finish)'
  BY NoncesAssumption DEF Sendable, Finish, Stored, NoAnswer
<1>3. Finish.kind = "finish" /\ Finish.answer # Wrong
  BY DEF Finish, Wrong, NoAnswer
<1>4. QED
  BY <1>1, <1>2, <1>3 DEF RequestOf, Kinds, DraftOf, SnapshotOf

\* The part of a step that leaves the rows alone.
LEMMA QuietStep ==
    ASSUME TypeOK, RowsInv, NEW w \in Workers, Alone(w),
           UNCHANGED <<challenge, message, accepted>>, ClientsAreJudged',
           RequestOf(w)', DraftOf(w)', SnapshotOf(w)'
    PROVE  RowsInv'
<1>1. \A c \in Challenges : Story(c)'
  BY DEF RowsInv, Story, PasswordStory, SignatureStory
<1>2. ResponseAcceptedOnce'
  BY DEF RowsInv, ResponseAcceptedOnce
<1>3. \A v \in Workers : RequestOf(v)' /\ DraftOf(v)' /\ SnapshotOf(v)'
  BY GrowsInPlace, OthersKept
<1>4. QED
  BY <1>1, <1>2, <1>3 DEF RowsInv

\* The history the clients are judged by does not change in most steps.
LEMMA SameHistory ==
    ASSUME RowsInv, UNCHANGED <<challenge, message, shown, refuted>>, wronged \subseteq wronged'
    PROVE  ClientsAreJudged'
  BY DEF RowsInv, ClientsAreJudged, HonestNeverAborted, ShownNonceIsStored, WrongLastAnswerCounts

\* A request may fail unless it holds the wrong response to a last message
\* that is still waiting.
LEMMA FailStep ==
    ASSUME TypeOK, RowsInv, NEW w \in Workers, Fail(w),
           judged[w] \in {"GetPasswordFields", "SignNonce"} =>
                judged[w] \in Completed(message[op[w].ch])
    PROVE  RowsInv'
<1>1. /\ Forget(w)
      /\ refuted' = IF judged[w] = NoMessage THEN refuted
                    ELSE refuted \union {<<op[w].ch, judged[w]>>}
      /\ UNCHANGED <<session, challenge, message, shown, wronged, accepted, logins>>
  BY DEF Fail, Answer, db
<1>2. Alone(w)
  BY <1>1 DEF Alone, Forget, TypeOK
<1>3. ClientsAreJudged'
  <2>1. WrongLastAnswerCounts'
    BY <1>1 DEF RowsInv, ClientsAreJudged, WrongLastAnswerCounts
  <2>2. QED
    BY <1>1, <2>1 DEF RowsInv, ClientsAreJudged, HonestNeverAborted, ShownNonceIsStored
<1>4. QED
  BY <1>1, <1>2, <1>3, Forgotten, QuietStep

\* Before its response was judged a request may always fail.
LEMMA EarlyFailStep ==
    ASSUME TypeOK, RowsInv, NEW w \in Workers, Fail(w), pc[w] \notin {"save", "upsert"}
    PROVE  RowsInv'
<1>1. judged[w] = NoMessage
  BY DEF RowsInv, RequestOf
<1>2. QED
  BY <1>1, FailStep DEF NoMessage

\* A judged last message is the whole batch.
LEMMA LastBatch ==
    ASSUME TypeOK, NEW w \in Workers, RequestOf(w), DraftOf(w),
           judged[w] \in {"GetPasswordFields", "SignNonce"}
    PROVE  /\ pc[w] \in {"save", "upsert"}
           /\ op[w].kind = "respond-message" /\ judged[w] = op[w].msg
           /\ judged[w] \in MessageDefs(op[w].ch)
           /\ Present(draft[w]) = {judged[w]}
           /\ ValidInput(draft[w])
<1>1. /\ judged[w] # NoMessage /\ pc[w] \in {"save", "upsert"}
      /\ op[w].kind = "respond-message" /\ judged[w] = op[w].msg
  BY DEF RequestOf, NoMessage
<1>2. Judged(op[w].ch, judged[w], draft[w])
  BY <1>1 DEF DraftOf
<1>3. Present(draft[w]) = {judged[w]}
  BY <1>2 DEF Judged, Present, MessageNames
<1>4. NotLast(draft[w]) = {}
  BY <1>3 DEF NotLast, Preceding
<1>5. judged[w] \in MessageDefs(op[w].ch)
  BY <1>1 DEF RequestOf, Sendable
<1>6. QED
  BY <1>1, <1>3, <1>4, <1>5 DEF ValidInput

\* An upsert that is refused finds the last message it would complete
\* completed by another request.
LEMMA RefusedUpsert ==
    ASSUME TypeOK, RowsInv, SessionNeedsChallenges, NEW w \in Workers, pc[w] = "upsert",
           ~ (ShouldWrite(w) /\ ~ UniqueViolation(w)),
           judged[w] \in {"GetPasswordFields", "SignNonce"}
    PROVE  judged[w] \in Completed(message[op[w].ch])
<1> DEFINE c == op[w].ch
           n == judged[w]
           msgs == draft[w]
           seen == visible[w].messages
<1> USE DEF MessageNames
<1>1. c \in Challenges
  BY OperationTypes DEF TypeOK
<1>2. Story(c) /\ RequestOf(w) /\ DraftOf(w) /\ SnapshotOf(w)
  BY <1>1 DEF RowsInv
<1>3. /\ op[w].kind = "respond-message" /\ n \in MessageDefs(c)
      /\ Present(msgs) = {n}
  BY <1>2, LastBatch
<1>4. visible[w].challenge /\ First(c) \in seen /\ seen \subseteq Present(message[c])
  BY <1>2, <1>3 DEF SnapshotOf
<1>5. n \in seen /\ Preceding(n) \subseteq seen
  <2>1. CASE n = "SignNonce"
    BY <1>2, <1>3, <2>1 DEF SnapshotOf, Preceding
  <2>2. CASE n # "SignNonce"
    BY <1>3, <1>4, <2>2 DEF First, MessageDefs, Preceding
  <2>3. QED
    BY <2>1, <2>2
<1>6. SUFFICES ASSUME message[c][n].status = "null"
               PROVE  FALSE
  <2>1. message[c][n].status # "absent" /\ message[c][n] \in Row
    BY <1>1, <1>4, <1>5 DEF Present, TypeOK
  <2>2. QED
    BY <2>1 DEF Completed, Row
<1>7. /\ challenge[c] = "Pending"
      /\ \A m \in MessageNames \ {n} :
            message[c][m].status = IF m \in Preceding(n) THEN "Ok" ELSE "absent"
  <2>1. CASE ChallengeType[c] = "Password"
    BY <1>2, <1>3, <1>6, <2>1 DEF Story, PasswordStory, MessageDefs, Preceding
  <2>2. CASE ChallengeType[c] # "Password"
    BY <1>2, <1>3, <1>6, <2>2 DEF Story, SignatureStory, MessageDefs, Preceding
  <2>3. QED
    BY <2>1, <2>2
<1>8. session = "Pending"
  BY <1>1, <1>7 DEF SessionNeedsChallenges, TypeOK
<1>9. \A m \in seen : m = n \/ message[c][m].status = "Ok"
  BY <1>4, <1>7 DEF Present
<1>10. ExpectedPrevious(msgs) = Preceding(n)
  <2>1. UNION {Preceding(m) : m \in {n}} = Preceding(n)
    OBVIOUS
  <2>2. n \notin Preceding(n)
    BY DEF Preceding
  <2>3. QED
    BY <1>3, <2>1, <2>2 DEF ExpectedPrevious
<1>11. {m \in seen : message[c][m].status = "Ok"} = Preceding(n)
  <2>1. \A m \in Preceding(n) : m \in MessageNames \ {n}
    BY DEF Preceding
  <2>2. seen \subseteq MessageNames
    BY <1>4 DEF Present
  <2>3. QED
    BY <1>5, <1>6, <1>7, <2>1, <2>2
<1>12. ShouldWrite(w)
  BY <1>3, <1>6, <1>7, <1>8, <1>9, <1>10, <1>11 DEF ShouldWrite
<1>13. ~ UniqueViolation(w)
  BY <1>3, <1>4, <1>5 DEF UniqueViolation
<1>14. QED
  BY <1>12, <1>13

-----------------------------------------------------------------------------
(***************************************************************************)
(* Every step of a request keeps RowsInv.                                  *)
(***************************************************************************)
\* A request that ends without a judged response.
LEMMA EndStep ==
    ASSUME TypeOK, RowsInv, NEW w \in Workers, Forget(w),
           UNCHANGED <<challenge, message, wronged, accepted>>,
           \A c \in Challenges : shown[c] \subseteq shown'[c], ClientsAreJudged'
    PROVE  RowsInv'
<1>1. Alone(w)
  BY DEF Alone, Forget, TypeOK
<1>2. QED
  BY <1>1, Forgotten, QuietStep

\* A statement that only reads, before the handler is set up.
LEMMA ReadStep ==
    ASSUME TypeOK, RowsInv, NEW w \in Workers,
           NEW s \in Steps \ {"respond", "save", "upsert"}, Goto(w, s),
           pc[w] \notin {"respond", "save", "upsert"},
           UNCHANGED <<challenge, message, op, final, draft, visible, judged, history>>,
           op[w].kind \in Kinds(s),
           /\ op[w].kind = "respond-message"
           /\ s \notin {"validate_session", "validate_challenge"}
           => challenge[op[w].ch] # "absent"
    PROVE  RowsInv'
<1>1. /\ pc'[w] = s
      /\ \A v \in Workers \ {w} : pc'[v] = pc[v]
      /\ UNCHANGED <<shown, wronged, refuted, accepted, logins>>
  BY DEF Goto, TypeOK, history
<1>2. Alone(w)
  BY <1>1 DEF Alone
<1>3. RequestOf(w)
  BY DEF RowsInv
<1>4. RequestOf(w)'
  <2>1. Sendable(op[w])'
    BY <1>1, <1>3 DEF RequestOf, Sendable
  <2>2. judged[w] = NoMessage
    BY <1>3 DEF RequestOf
  <2>3. QED
    BY <1>1, <1>3, <2>1, <2>2 DEF RequestOf
<1>5. DraftOf(w)' /\ SnapshotOf(w)'
  BY <1>1 DEF DraftOf, SnapshotOf
<1>6. QED
  BY <1>1, <1>2, <1>4, <1>5, SameHistory, QuietStep

LEMMA ReceiveStep ==
    ASSUME TypeOK, RowsInv, NEW w \in Workers, Receive(w)
    PROVE  RowsInv'
<1>1. PICK o \in Operation :
          /\ Sendable(o)
          /\ op' = [op EXCEPT ![w] = o]
          /\ Goto(w, IF o.kind = "finish" THEN "finish_session" ELSE "validate_session")
          /\ wronged' = IF o.answer = Wrong THEN wronged \union {o.ch} ELSE wronged
  BY DEF Receive
<1>2. /\ pc[w] = "idle"
      /\ UNCHANGED <<challenge, message, final, draft, visible, judged, shown, refuted, accepted>>
  BY DEF Receive, db
<1>3. Alone(w) /\ op'[w] = o
      /\ pc'[w] = IF o.kind = "finish" THEN "finish_session" ELSE "validate_session"
  BY <1>1, <1>2 DEF Alone, TypeOK, Goto
<1>4. judged[w] = NoMessage
  BY <1>2 DEF RowsInv, RequestOf
<1>5. o.kind \in {"finish", "new", "pending-message", "respond-message"}
  BY DEF Operation, Finish
<1>6. RequestOf(w)'
  <2>1. Sendable(o)'
    BY <1>1, <1>2 DEF Sendable
  <2>2. op'[w].kind \in Kinds(pc'[w])
    BY <1>3, <1>5 DEF Kinds
  <2>3. QED
    BY <1>1, <1>2, <1>3, <1>4, <2>1, <2>2 DEF RequestOf
<1>7. DraftOf(w)' /\ SnapshotOf(w)'
  BY <1>3 DEF DraftOf, SnapshotOf
<1>8. ClientsAreJudged'
  BY <1>1, <1>2, SameHistory
<1>9. QED
  BY <1>2, <1>3, <1>6, <1>7, <1>8, QuietStep

\* The steps that validate the state and read the session and the challenge.
LEMMA ValidateStep ==
    ASSUME TypeOK, RowsInv, NEW w \in Workers,
           \/ ValidatePendingSessionState(w) \/ ValidateNewChallengeState(w)
           \/ ValidatePendingChallengeState(w) \/ SetupSession(w) \/ SetupChallenge(w)
    PROVE  RowsInv'
<1> DEFINE kind == op[w].kind
<1>1. RequestOf(w)
  BY DEF RowsInv
<1>2. pc[w] \in {"validate_session", "validate_new", "validate_challenge",
                 "setup_session", "setup_challenge"}
  BY DEF ValidatePendingSessionState, ValidateNewChallengeState,
         ValidatePendingChallengeState, SetupSession, SetupChallenge
<1>3. CASE Fail(w)
  BY <1>2, <1>3, EarlyFailStep
<1>4. CASE ~ Fail(w)
  <2>1. UNCHANGED <<challenge, message, op, final, draft, visible, judged, history>>
    BY <1>4 DEF ValidatePendingSessionState, ValidateNewChallengeState,
         ValidatePendingChallengeState, SetupSession, SetupChallenge, db, memory
  <2>2. CASE ValidatePendingSessionState(w)
    <3> DEFINE s == CASE kind = "new" -> "validate_new"
                      [] kind = "respond-message" -> "validate_challenge"
                      [] OTHER -> "setup_session"
    <3>1. Goto(w, s)
      BY <1>4, <2>2 DEF ValidatePendingSessionState
    <3>2. kind \in {"new", "pending-message", "respond-message"}
      BY <1>1, <2>2 DEF ValidatePendingSessionState, RequestOf, Kinds
    <3>3. /\ s \in Steps \ {"respond", "save", "upsert"} /\ kind \in Kinds(s)
          /\ kind = "respond-message" => s = "validate_challenge"
      BY <3>2 DEF Steps, Kinds
    <3> HIDE DEF s
    <3>4. QED
      BY <1>2, <2>1, <3>1, <3>3, ReadStep
  <2>3. CASE ValidateNewChallengeState(w)
    <3>1. Goto(w, "setup_session") /\ kind = "new"
      BY <1>1, <1>4, <2>3 DEF ValidateNewChallengeState, RequestOf, Kinds
    <3>2. "setup_session" \in Steps \ {"respond", "save", "upsert"} /\ kind \in Kinds("setup_session")
      BY <3>1 DEF Steps, Kinds
    <3>3. QED
      BY <1>2, <2>1, <3>1, <3>2, ReadStep
  <2>4. CASE ValidatePendingChallengeState(w)
    <3>1. /\ Goto(w, "setup_session") /\ kind = "respond-message"
          /\ challenge[op[w].ch] # "absent"
      BY <1>1, <1>4, <2>4 DEF ValidatePendingChallengeState, RequestOf, Kinds
    <3>2. "setup_session" \in Steps \ {"respond", "save", "upsert"} /\ kind \in Kinds("setup_session")
      BY <3>1 DEF Steps, Kinds
    <3>3. QED
      BY <1>2, <2>1, <3>1, <3>2, ReadStep
  <2>5. CASE SetupSession(w) \/ SetupChallenge(w)
    <3>1. PICK s \in {"setup_challenge", "setup_messages"} : Goto(w, s)
      BY <1>4, <2>5 DEF SetupSession, SetupChallenge
    <3>2. pc[w] \in {"setup_session", "setup_challenge"}
      BY <2>5 DEF SetupSession, SetupChallenge
    <3>3. /\ s \in Steps \ {"respond", "save", "upsert"} /\ kind \in Kinds(s)
          /\ kind = "respond-message" => challenge[op[w].ch] # "absent"
      BY <1>1, <3>2 DEF Steps, Kinds, RequestOf
    <3>4. QED
      BY <1>2, <2>1, <3>1, <3>3, ReadStep
  <2>6. QED
    BY <2>2, <2>3, <2>4, <2>5
<1>5. QED
  BY <1>3, <1>4

LEMMA SetupStep ==
    ASSUME TypeOK, RowsInv, NEW w \in Workers, SetupMessages(w)
    PROVE  RowsInv'
<1> DEFINE c == op[w].ch
           old == ExistingFinalMessages(message[c])
           new == ProspectiveMessages(message[c])
<1>1. /\ pc[w] = "setup_messages"
      /\ UNCHANGED <<session, challenge, message, wronged, accepted, logins>>
  BY DEF SetupMessages, db
<1>2. PICK x \in Nonces \union {NoAnswer} :
          /\ Draws(c, old, new, x)
          /\ \/ /\ op[w].kind # "pending-message"
                /\ final' = [final EXCEPT ![w] = old]
                /\ draft' = [draft EXCEPT ![w] = EnsurePendingMessage(c, old, new, x)]
                /\ Goto(w, IF op[w].kind = "new" THEN "save" ELSE "respond")
                /\ UNCHANGED <<op, visible, todo, judged, shown, refuted>>
             \/ /\ op[w].kind = "pending-message"
                /\ shown' = [shown EXCEPT ![c] = @ \union
                      (Expected(EnsurePendingMessage(c, old, new, x)) \cap Nonces)]
                /\ Answer(w)
  BY DEF SetupMessages
<1>r. PICK msgs : msgs = EnsurePendingMessage(c, old, new, x)
  OBVIOUS
<1>3. /\ c \in Challenges /\ Story(c) /\ RequestOf(w)
      /\ message[c] \in [MessageNames -> Row]
  BY OperationTypes DEF RowsInv, TypeOK
<1>4. /\ \A n \in MessageNames : RowFits(n, msgs[n])
      /\ NonceIsStored(c, msgs)
      /\ Waiting(c, msgs)
      /\ "SelectKey" \in Present(msgs) => "SignNonce" \notin Completed(old)
      /\ \A y \in Expected(msgs) \cap Nonces : message[c]["SignNonce"].expect = y
  <2>1. Draws(c, old, new, x)
    BY <1>2
  <2> HIDE DEF old, new
  <2>2. QED
    BY <1>3, <1>r, <2>1, SetupDraft DEF old, new
<1> HIDE DEF old, new
<1>5. judged[w] = NoMessage /\ op[w].kind \in {"new", "pending-message", "respond-message"}
  BY <1>1, <1>3 DEF RequestOf, Kinds
<1>6. CASE /\ op[w].kind # "pending-message"
           /\ final' = [final EXCEPT ![w] = old]
           /\ draft' = [draft EXCEPT ![w] = msgs]
           /\ Goto(w, IF op[w].kind = "new" THEN "save" ELSE "respond")
           /\ UNCHANGED <<op, visible, todo, judged, shown, refuted>>
  <2>1. /\ final'[w] = old /\ draft'[w] = msgs
        /\ pc'[w] = IF op[w].kind = "new" THEN "save" ELSE "respond"
        /\ Alone(w)
    BY <1>1, <1>6 DEF Goto, TypeOK, Alone
  <2>2. RequestOf(w)'
    <3>1. Sendable(op[w])'
      BY <1>3, <1>6 DEF RequestOf, Sendable
    <3>2. op[w].kind \in Kinds(pc'[w])
      BY <1>5, <1>6, <2>1 DEF Kinds
    <3>3. QED
      BY <1>1, <1>3, <1>5, <1>6, <2>1, <3>1, <3>2 DEF RequestOf
  <2>3. DraftOf(w)'
    <3>1. NonceIsStored(c, msgs)'
      BY <1>1, <1>4, <1>6 DEF NonceIsStored
    <3>2. op'[w].kind = "respond-message" => pc'[w] = "respond"
      BY <1>6, <2>1
    <3>3. op'[w].ch = c
      BY <1>6
    <3>4. QED
      BY <1>4, <2>1, <3>1, <3>2, <3>3 DEF DraftOf
  <2>4. SnapshotOf(w)'
    BY <2>1 DEF SnapshotOf
  <2>5. ClientsAreJudged'
    BY <1>1, <1>6, SameHistory
  <2>6. QED
    BY <1>1, <2>1, <2>2, <2>3, <2>4, <2>5, QuietStep
<1>7. CASE /\ op[w].kind = "pending-message"
           /\ shown' = [shown EXCEPT ![c] = @ \union (Expected(msgs) \cap Nonces)]
           /\ Answer(w)
  <2>1. Forget(w) /\ refuted' = refuted
    BY <1>5, <1>7 DEF Answer
  <2>2. \A d \in Challenges : shown[d] \subseteq shown'[d]
    BY <1>7 DEF TypeOK
  <2>3. ShownNonceIsStored'
    <3>1. ASSUME NEW d \in Challenges, NEW y \in shown'[d]
          PROVE  message[d]["SignNonce"].expect = y
      BY <1>4, <1>7, <3>1 DEF RowsInv, ClientsAreJudged, ShownNonceIsStored, TypeOK
    <3>2. QED
      BY <1>1, <3>1 DEF ShownNonceIsStored
  <2>4. ClientsAreJudged'
    BY <1>1, <2>1, <2>3 DEF RowsInv, ClientsAreJudged, HonestNeverAborted, WrongLastAnswerCounts
  <2>5. QED
    BY <1>1, <2>1, <2>2, <2>4, EndStep
<1>8. QED
  BY <1>2, <1>r, <1>6, <1>7

LEMMA ProcessStep ==
    ASSUME TypeOK, RowsInv, NEW w \in Workers, ProcessPendingMessageResponse(w)
    PROVE  RowsInv'
<1>1. pc[w] = "respond"
  BY DEF ProcessPendingMessageResponse
<1>2. CASE Fail(w)
  BY <1>1, <1>2, EarlyFailStep
<1>3. CASE ~ Fail(w)
  <2>1. PICK c, n, status :
            /\ c = op[w].ch /\ n = op[w].msg
            /\ status = Judge(draft[w][n], op[w].answer)
    OBVIOUS
  <2>2. PICK new : new = [draft[w] EXCEPT ![n].status = status]
    OBVIOUS
  <2>3. PICK x \in Nonces \union {NoAnswer} :
            /\ Draws(c, final[w], new, x)
            /\ draft' = [draft EXCEPT ![w] = EnsurePendingMessage(c, final[w], new, x)]
    BY <1>3, <2>1, <2>2 DEF ProcessPendingMessageResponse, DraftAfter
  <2>4. PICK msgs : msgs = EnsurePendingMessage(c, final[w], new, x)
    OBVIOUS
  <2>5. /\ n \in AwaitingResponse(draft[w])
        /\ judged' = [judged EXCEPT ![w] = IF status = "Error" THEN n ELSE NoMessage]
        /\ Goto(w, "save")
        /\ UNCHANGED <<session, challenge, message, op, final, visible, todo,
                       shown, wronged, refuted, accepted, logins>>
    BY <1>3, <2>1 DEF ProcessPendingMessageResponse, db
  <2>6. c \in Challenges /\ RequestOf(w) /\ DraftOf(w) /\ draft[w] \in [MessageNames -> Row]
    BY <2>1, OperationTypes DEF RowsInv, TypeOK
  <2>7. /\ op[w].kind = "respond-message" /\ n \in MessageDefs(c) /\ n \in MessageNames
        /\ challenge[c] # "absent"
    BY <1>1, <2>1, <2>6 DEF RequestOf, Kinds, Sendable, MessageDefs, MessageNames
  <2>8. /\ Waiting(c, draft[w]) /\ NonceIsStored(c, draft[w])
        /\ \A m \in MessageNames : RowFits(m, draft[w][m])
        /\ "SelectKey" \in Present(draft[w]) => "SignNonce" \notin Completed(final[w])
    BY <1>1, <2>1, <2>6 DEF DraftOf
  <2>9. status \in {"Ok", "Error"}
    BY <2>1 DEF Judge
  <2>10. /\ \A m \in MessageNames : RowFits(m, msgs[m])
         /\ NonceIsStored(c, msgs)
         /\ Judged(c, n, msgs)
         /\ msgs[n].status = status
    BY <2>2, <2>3, <2>4, <2>5, <2>6, <2>8, <2>9, JudgedDraft
  <2>11. status = "Error" => c \in wronged
    <3>1. SUFFICES ASSUME op[w].answer # Wrong
                   PROVE  status = "Ok"
      BY <2>1, <2>6 DEF RequestOf
    <3>2. /\ op[w].answer \in Nonces => n = "SignNonce" /\ op[w].answer \in shown[c]
          /\ op[w].answer = Stored => n # "SignNonce"
      BY <2>1, <2>6 DEF RequestOf, Sendable
    <3>3. op[w].answer \in Nonces \union {Stored}
      <4>1. op[w] \in Operation
        BY DEF TypeOK
      <4>2. Finish.kind # "respond-message"
        BY DEF Finish
      <4>3. op[w] \in [kind : {"respond-message"}, ch : Challenges,
                       msg : MessageNames, answer : Nonces \union {Stored, Wrong}]
        BY <2>7, <4>1, <4>2 DEF Operation
      <4>4. QED
        BY <3>1, <4>3
    <3>4. draft[w][n].status = "null" /\ RowFits(n, draft[w][n])
      BY <2>5, <2>8 DEF AwaitingResponse
    <3>5. CASE op[w].answer = Stored
      BY <2>1, <3>2, <3>4, <3>5 DEF RowFits, Judge
    <3>6. CASE op[w].answer \in Nonces
      <4>1. n = "SignNonce" /\ op[w].answer \in shown[c]
        BY <3>2, <3>6
      <4>2. message[c]["SignNonce"].expect = op[w].answer
        BY <2>6, <4>1 DEF RowsInv, ClientsAreJudged, ShownNonceIsStored
      <4>3. "SignNonce" \in Present(draft[w]) /\ "SelectKey" \notin Present(draft[w])
        BY <2>8, <3>4, <4>1 DEF Waiting, Present, MessageNames
      <4>4. draft[w][n].expect = op[w].answer
        BY <2>8, <4>1, <4>2, <4>3 DEF NonceIsStored
      <4>5. QED
        BY <2>1, <4>4 DEF Judge
    <3>7. QED
      BY <3>3, <3>5, <3>6
  <2>12. /\ pc'[w] = "save" /\ draft'[w] = msgs
         /\ judged'[w] = IF status = "Error" THEN n ELSE NoMessage
         /\ op'[w] = op[w] /\ Alone(w)
    BY <2>3, <2>4, <2>5 DEF Goto, TypeOK, Alone
  <2>13. RequestOf(w)'
    <3>1. Sendable(op[w])'
      BY <2>5, <2>6 DEF RequestOf, Sendable
    <3>2. op'[w].kind \in Kinds(pc'[w])
      BY <2>7, <2>12 DEF Kinds
    <3>3. op[w].answer = Wrong => op[w].ch \in wronged
      BY <2>6 DEF RequestOf
    <3>4. /\ op'[w].ch = c /\ op'[w].msg = n /\ op'[w].kind = "respond-message"
          /\ op'[w].answer = op[w].answer
          /\ challenge' = challenge /\ wronged' = wronged
      BY <2>1, <2>5, <2>7, <2>12
    <3>5. challenge'[op'[w].ch] # "absent" /\ (op'[w].answer = Wrong => op'[w].ch \in wronged')
      BY <2>1, <2>7, <3>3, <3>4
    <3>6. judged'[w] # NoMessage => draft'[w][judged'[w]].status = "Error" /\ judged'[w] = op'[w].msg
      BY <2>10, <2>12, <3>4
    <3>7. QED
      BY <2>12, <3>1, <3>2, <3>4, <3>5, <3>6 DEF RequestOf
  <2>14. DraftOf(w)'
    <3>1. NonceIsStored(c, msgs)'
      BY <2>5, <2>10 DEF NonceIsStored
    <3>2. /\ op'[w].ch = c /\ op'[w].msg = n /\ op'[w].kind = "respond-message"
          /\ wronged' = wronged
      BY <2>1, <2>5, <2>7, <2>12
    <3>3. QED
      BY <2>10, <2>11, <2>12, <3>1, <3>2 DEF DraftOf
  <2>15. SnapshotOf(w)'
    BY <2>12 DEF SnapshotOf
  <2>16. ClientsAreJudged'
    BY <2>5, SameHistory
  <2>17. QED
    BY <2>5, <2>12, <2>13, <2>14, <2>15, <2>16, QuietStep
<1>4. QED
  BY <1>2, <1>3

\* The snapshot sees the rows that the handler read before.
LEMMA SnapshotStep ==
    ASSUME TypeOK, RowsInv, NEW w \in Workers, TakeSnapshot(w)
    PROVE  RowsInv'
<1>0. PICK c : c = op[w].ch
  OBVIOUS
<1>1. c \in Challenges /\ RequestOf(w) /\ DraftOf(w) /\ Story(c)
  BY <1>0, OperationTypes DEF RowsInv, TypeOK
<1>2. pc[w] = "save"
  BY DEF TakeSnapshot
<1>3. CASE ~ ValidInput(draft[w])
  <2>1. Fail(w)
    BY <1>3 DEF TakeSnapshot
  <2>2. judged[w] \notin {"GetPasswordFields", "SignNonce"}
    BY <1>1, <1>3, LastBatch
  <2>3. QED
    BY <2>1, <2>2, FailStep
<1>4. CASE ValidInput(draft[w])
  <2>1. /\ visible' = [visible EXCEPT ![w] =
              [challenge |-> challenge[c] # "absent", messages |-> Present(message[c])]]
        /\ Goto(w, "upsert")
        /\ UNCHANGED <<session, challenge, message, op, final, draft, todo, judged,
                       shown, wronged, refuted, accepted, logins>>
    BY <1>0, <1>4 DEF TakeSnapshot, db, history
  <2>2. /\ pc'[w] = "upsert" /\ Alone(w)
        /\ visible'[w].challenge = (challenge[c] # "absent")
        /\ visible'[w].messages = Present(message[c])
    BY <2>1 DEF Goto, TypeOK, Alone
  <2>3. RequestOf(w)'
    <3>1. Sendable(op[w])'
      BY <1>1, <2>1 DEF RequestOf, Sendable
    <3>2. op[w].kind \in {"new", "respond-message"}
      BY <1>1, <1>2 DEF RequestOf, Kinds
    <3>3. op'[w].kind \in Kinds(pc'[w])
      BY <2>1, <2>2, <3>2 DEF Kinds
    <3>4. QED
      BY <1>1, <1>2, <2>1, <2>2, <3>1, <3>3 DEF RequestOf
  <2>4. DraftOf(w)'
    <3>1. op'[w] = op[w] /\ draft'[w] = draft[w] /\ final'[w] = final[w] /\ wronged' = wronged
      BY <2>1
    <3>2. NonceIsStored(c, draft[w])'
      BY <1>0, <1>1, <1>2, <2>1 DEF DraftOf, NonceIsStored
    <3>3. QED
      BY <1>0, <1>1, <1>2, <2>1, <2>2, <3>1, <3>2 DEF DraftOf
  <2>5. SnapshotOf(w)'
    <3>1. challenge[c] # "absent" => First(c) \in Present(message[c])
      BY <1>1 DEF Story, PasswordStory, SignatureStory, First, Present, MessageNames
    <3>2. challenge[c] = "absent" => Present(message[c]) = {}
      BY <1>1 DEF Story, PasswordStory, SignatureStory, Present, MessageNames
    <3>3. "SignNonce" \in Present(message[c]) => "SelectKey" \in Present(message[c])
      BY <1>1 DEF Story, PasswordStory, SignatureStory, Present, MessageNames
    <3>4. "SignNonce" \in Present(draft[w]) /\ "SelectKey" \notin Present(draft[w]) =>
                {"SelectKey", "SignNonce"} \subseteq Present(message[c])
      BY <1>0, <1>1, <1>2, <3>3 DEF DraftOf, NonceIsStored
    <3>5. op[w].kind = "respond-message" => challenge[c] # "absent"
      BY <1>0, <1>1, <1>2 DEF RequestOf
    <3>6. /\ op'[w].ch = c /\ op'[w].kind = op[w].kind /\ draft'[w] = draft[w]
          /\ message' = message /\ challenge' = challenge
      BY <1>0, <2>1
    <3>7. QED
      BY <1>4, <2>2, <3>1, <3>2, <3>4, <3>5, <3>6 DEF SnapshotOf
  <2>6. ClientsAreJudged'
    BY <2>1, SameHistory
  <2>7. QED
    BY <2>1, <2>2, <2>3, <2>4, <2>5, <2>6, QuietStep
<1>5. QED
  BY <1>3, <1>4

\* A write judges a client by what it was shown.
LEMMA WriteJudges ==
    ASSUME TypeOK, RowsInv, NEW w \in Workers, Writes(w),
           \A c \in Challenges : Grows(c),
           UNCHANGED <<shown, wronged>>,
           refuted' = IF judged[w] = NoMessage THEN refuted
                      ELSE refuted \union {<<op[w].ch, judged[w]>>}
    PROVE  ClientsAreJudged'
<1>0. op[w].ch \in Challenges /\ RequestOf(w)
  BY OperationTypes DEF TypeOK, RowsInv
<1>1. HonestNeverAborted'
  <2>1. ASSUME NEW c \in Challenges, challenge'[c] = "Aborted"
        PROVE  c \in wronged
    <3>1. CASE challenge'[c] = challenge[c]
      BY <2>1, <3>1 DEF RowsInv, ClientsAreJudged, HonestNeverAborted
    <3>2. CASE challenge'[c] # challenge[c]
      <4>1. c = op[w].ch
        BY <3>2 DEF Writes
      <4>2. ~ Opens(c) /\ ~ Keeps(c)
        BY <2>1, <3>2 DEF Opens, Keeps
      <4>3. Judges(c, op[w].msg, draft[w][op[w].msg].status)
            /\ (draft[w][op[w].msg].status = "Error" => c \in wronged)
        BY <4>1, <4>2 DEF Writes
      <4>4. QED
        BY <2>1, <4>3 DEF Judges
    <3>3. QED
      BY <3>1, <3>2
  <2>2. QED
    BY <2>1 DEF HonestNeverAborted
<1>2. ShownNonceIsStored'
  <2>1. ASSUME NEW c \in Challenges, NEW x \in shown[c]
        PROVE  message'[c]["SignNonce"].expect = x
    <3>1. message[c]["SignNonce"].expect = x /\ x \in Nonces
      BY DEF RowsInv, ClientsAreJudged, ShownNonceIsStored, TypeOK
    <3>2. RowFits("SignNonce", message[c]["SignNonce"])
      BY DEF RowsInv, Story, MessageNames
    <3>3. "SignNonce" \in Present(message[c])
      BY <3>1, <3>2, NoncesAssumption DEF RowFits, AbsentRow, Present, MessageNames
    <3>4. QED
      BY <3>1, <3>3 DEF Grows
  <2>2. QED
    BY <2>1 DEF ShownNonceIsStored
<1>3. WrongLastAnswerCounts'
  <2>1. ASSUME NEW c \in Challenges, NEW n \in {"GetPasswordFields", "SignNonce"},
               <<c, n>> \in refuted'
        PROVE  n \in Completed(message'[c])
    <3>1. CASE <<c, n>> \in refuted
      <4>1. n \in Completed(message[c])
        BY <3>1 DEF RowsInv, ClientsAreJudged, WrongLastAnswerCounts
      <4>2. n \in Present(message[c])
        BY <4>1 DEF Completed, Present
      <4>3. message'[c][n] = message[c][n]
        BY <4>1, <4>2 DEF Grows
      <4>4. QED
        BY <4>1, <4>3 DEF Completed
    <3>2. CASE <<c, n>> \notin refuted
      <4>1. judged[w] # NoMessage /\ c = op[w].ch /\ n = judged[w]
        BY <2>1, <3>2
      <4>2. op[w].kind = "respond-message" /\ n = op[w].msg
        BY <1>0, <4>1 DEF RequestOf
      <4>3. Judges(c, n, draft[w][n].status) /\ draft[w][n].status \in {"Ok", "Error"}
        BY <4>1, <4>2 DEF Writes
      <4>4. QED
        BY <4>3 DEF Judges, Completed, MessageNames
    <3>3. QED
      BY <3>1, <3>2
  <2>2. QED
    BY <2>1 DEF WrongLastAnswerCounts
<1>4. QED
  BY <1>1, <1>2, <1>3 DEF ClientsAreJudged

LEMMA UpsertStep ==
    ASSUME TypeOK, RowsInv, SessionNeedsChallenges, NEW w \in Workers, Upsert(w)
    PROVE  RowsInv'
<1>1. pc[w] = "upsert"
  BY DEF Upsert
<1>2. CASE ~ (ShouldWrite(w) /\ ~ UniqueViolation(w))
  <2>1. Fail(w)
    BY <1>2 DEF Upsert
  <2>2. judged[w] \in {"GetPasswordFields", "SignNonce"} =>
            judged[w] \in Completed(message[op[w].ch])
    BY <1>1, <1>2, RefusedUpsert
  <2>3. QED
    BY <2>1, <2>2, FailStep
<1>3. CASE ShouldWrite(w) /\ ~ UniqueViolation(w)
  <2>1. Write(w)
    BY <1>3 DEF Upsert
  <2>2. Writes(w)
    BY <1>1, <1>3, <2>1, WriteCases
  <2>3. \A c \in Challenges : Story(c)' /\ Grows(c) /\ AcceptedOnce(c)'
    BY <2>2, WriteStep
  <2>4. /\ Forget(w) /\ UNCHANGED <<session, shown, wronged, logins>>
        /\ refuted' = IF judged[w] = NoMessage THEN refuted
                      ELSE refuted \union {<<op[w].ch, judged[w]>>}
    BY <2>1 DEF Write, Answer
  <2>5. Alone(w)
    BY <2>4 DEF Alone, Forget, TypeOK
  <2>6. ClientsAreJudged'
    BY <2>2, <2>3, <2>4, WriteJudges
  <2>7. \A v \in Workers : RequestOf(v)' /\ DraftOf(v)' /\ SnapshotOf(v)'
    BY <2>3, <2>4, <2>5, Forgotten, OthersKept
  <2>8. ResponseAcceptedOnce'
    BY <2>3 DEF ResponseAcceptedOnce, AcceptedOnce
  <2>9. QED
    BY <2>3, <2>6, <2>7, <2>8 DEF RowsInv
<1>4. QED
  BY <1>2, <1>3

LEMMA FinishSteps ==
    ASSUME TypeOK, RowsInv, NEW w \in Workers,
           FinishSession(w) \/ FinishCheck(w) \/ FinishUpdate(w)
    PROVE  RowsInv'
<1>1. pc[w] \in {"finish_session", "finish_checks", "finish_update"} /\ RequestOf(w)
  BY DEF FinishSession, FinishCheck, FinishUpdate, RowsInv
<1>2. op[w].kind = "finish" /\ judged[w] = NoMessage
  BY <1>1 DEF RequestOf, Kinds
<1>3. CASE Fail(w)
  BY <1>1, <1>3, EarlyFailStep
<1>4. CASE ~ Fail(w) /\ ~ FinishUpdate(w)
  <2>1. PICK s \in {"finish_checks", "finish_update"} : Goto(w, s)
    BY <1>4 DEF FinishSession, FinishCheck
  <2>2. UNCHANGED <<challenge, message, op, final, draft, visible, judged, history>>
    BY <1>4 DEF FinishSession, FinishCheck, db
  <2>3. s \in Steps \ {"respond", "save", "upsert"} /\ op[w].kind \in Kinds(s)
    BY <1>2 DEF Steps, Kinds
  <2>4. QED
    BY <1>1, <1>2, <2>1, <2>2, <2>3, ReadStep
<1>5. CASE ~ Fail(w) /\ FinishUpdate(w)
  <2>1. /\ Forget(w) /\ refuted' = refuted
        /\ UNCHANGED <<challenge, message, shown, wronged, accepted>>
    BY <1>2, <1>5 DEF FinishUpdate, Answer
  <2>2. ClientsAreJudged'
    BY <2>1, SameHistory
  <2>3. QED
    BY <2>1, <2>2, EndStep
<1>6. QED
  BY <1>3, <1>4, <1>5

LEMMA RowsStep ==
    ASSUME TypeOK, RowsInv, SessionNeedsChallenges, [Next]_vars
    PROVE  RowsInv'
<1>1. CASE UNCHANGED vars
  <2>1. UNCHANGED <<challenge, message, accepted, shown, wronged, refuted,
                    pc, op, final, draft, visible, judged>>
    BY <1>1 DEF vars, db, memory, history
  <2>2. \A c \in Challenges : Story(c)'
    BY <2>1 DEF RowsInv, Story, PasswordStory, SignatureStory
  <2>3. ResponseAcceptedOnce' /\ ClientsAreJudged'
    BY <2>1, SameHistory DEF RowsInv, ResponseAcceptedOnce
  <2>4. \A w \in Workers : RequestOf(w)' /\ DraftOf(w)' /\ SnapshotOf(w)'
    BY <2>1 DEF RowsInv, RequestOf, Sendable, DraftOf, NonceIsStored, SnapshotOf
  <2>5. QED
    BY <2>2, <2>3, <2>4 DEF RowsInv
<1>2. ASSUME NEW w \in Workers, Crash(w)
      PROVE  RowsInv'
  <2>1. Forget(w) /\ UNCHANGED <<challenge, message, shown, wronged, refuted, accepted>>
    BY <1>2 DEF Crash, db, history
  <2>2. ClientsAreJudged'
    BY <2>1, SameHistory
  <2>3. QED
    BY <2>1, <2>2, EndStep
<1>3. ASSUME NEW w \in Workers, Serve(w)
      PROVE  RowsInv'
  BY <1>3, ValidateStep, SetupStep, ProcessStep, SnapshotStep, UpsertStep, FinishSteps
     DEF Serve
<1>4. QED
  BY <1>1, <1>2, <1>3, ReceiveStep DEF Next

LEMMA RowsInit == Init => RowsInv
<1> SUFFICES ASSUME Init PROVE RowsInv
  OBVIOUS
<1> USE DEF Init, NoRows, AbsentRow
<1>1. ASSUME NEW c \in Challenges
      PROVE  Story(c)
  BY DEF Story, RowFits, PasswordStory, SignatureStory, MessageNames
<1>2. ResponseAcceptedOnce
  BY DEF ResponseAcceptedOnce, Completed
<1>3. ClientsAreJudged
  BY DEF ClientsAreJudged, HonestNeverAborted, ShownNonceIsStored, WrongLastAnswerCounts
<1>4. ASSUME NEW w \in Workers
      PROVE  RequestOf(w) /\ DraftOf(w) /\ SnapshotOf(w)
  <2>1. Sendable(Finish) /\ Finish.kind = "finish" /\ Finish.answer # Wrong
    BY NoncesAssumption DEF Sendable, Finish, Stored, Wrong, NoAnswer
  <2>2. QED
    BY <2>1 DEF RequestOf, Kinds, DraftOf, SnapshotOf
<1>5. QED
  BY <1>1, <1>2, <1>3, <1>4 DEF RowsInv

LEMMA RowsInvariant == Spec => []RowsInv
<1>1. TypeOK /\ RowsInv /\ SessionNeedsChallenges /\ [Next]_vars => RowsInv'
  BY RowsStep
<1>2. QED
  BY RowsInit, <1>1, TypeCorrect, SessionSound, PTL DEF Spec

-----------------------------------------------------------------------------
(***************************************************************************)
(* What follows from RowsInv                                               *)
(***************************************************************************)
LEMMA StoryTells ==
    ASSUME NEW c \in Challenges, Story(c), message[c] \in [MessageNames -> Row]
    PROVE  ChallengeTells(c)
<1> DEFINE msgs == message[c]
           okBefore(n) == \A m \in Preceding(n) : msgs[m].status = "Ok"
           noneAfter(n) == \A m \in Present(msgs) : n \notin Preceding(m)
           last(n, status) == msgs[n].status = status /\ okBefore(n) /\ noneAfter(n)
<1> USE DEF MessageNames
<1>1. CASE ChallengeType[c] = "Password"
  <2>1. PasswordStory(challenge[c], msgs) /\ MessageDefs(c) = {"GetPasswordFields"}
    BY <1>1 DEF Story, MessageDefs
  <2>2. Present(msgs) \subseteq MessageDefs(c)
    BY <2>1 DEF PasswordStory, Present
  <2>3. okBefore("GetPasswordFields") /\ noneAfter("GetPasswordFields")
    BY DEF Preceding
  <2>4. challenge[c] = "absent" => Present(msgs) = {}
    BY <2>1 DEF PasswordStory, Present
  <2>5. challenge[c] = "Pending" => last("GetPasswordFields", "null")
    BY <2>1, <2>3 DEF PasswordStory
  <2>6. challenge[c] = "Aborted" => last("GetPasswordFields", "Error")
    BY <2>1, <2>3 DEF PasswordStory
  <2>7. challenge[c] \notin {"absent", "Pending", "Aborted"} =>
            msgs["GetPasswordFields"].status = "Ok"
    BY <2>1 DEF PasswordStory
  <2>8. QED
    BY <2>1, <2>2, <2>4, <2>5, <2>6, <2>7 DEF ChallengeTells
<1>2. CASE ChallengeType[c] # "Password"
  <2>1. SignatureStory(challenge[c], msgs) /\ MessageDefs(c) = {"SelectKey", "SignNonce"}
    BY <1>2 DEF Story, MessageDefs
  <2>2. Present(msgs) \subseteq MessageDefs(c)
    BY <2>1 DEF SignatureStory, Present
  <2>3. /\ okBefore("SelectKey")
        /\ msgs["SelectKey"].status = "Ok" => okBefore("SignNonce")
        /\ msgs["SignNonce"].status = "absent" => noneAfter("SelectKey")
        /\ noneAfter("SignNonce")
    BY DEF Preceding, Present
  <2>4. challenge[c] = "absent" => Present(msgs) = {}
    BY <2>1 DEF SignatureStory, Present
  <2>5. challenge[c] = "Pending" => last("SelectKey", "null") \/ last("SignNonce", "null")
    BY <2>1, <2>3 DEF SignatureStory
  <2>6. challenge[c] = "Aborted" => last("SignNonce", "Error")
    BY <2>1, <2>3 DEF SignatureStory
  <2>7. challenge[c] \notin {"absent", "Pending", "Aborted"} =>
            msgs["SelectKey"].status = "Ok" /\ msgs["SignNonce"].status = "Ok"
    BY <2>1 DEF SignatureStory
  <2>8. QED
    BY <2>1, <2>2, <2>4, <2>5, <2>6, <2>7 DEF ChallengeTells
<1>3. QED
  BY <1>1, <1>2

\* The challenge row and the message rows of every challenge tell the same
\* story, and every completed message was accepted from exactly one request,
\* however many requests read and write them concurrently.
THEOREM RowsStayConsistent == Spec => []RowsAreConsistent
<1>1. TypeOK /\ RowsInv => RowsAreConsistent
  <2> SUFFICES ASSUME TypeOK, RowsInv PROVE RowsAreConsistent
    OBVIOUS
  <2>1. ASSUME NEW c \in Challenges
        PROVE  ChallengeTells(c)
    BY StoryTells DEF TypeOK, RowsInv
  <2>2. QED
    BY <2>1 DEF RowsInv, RowsAreConsistent, ChallengeMatchesMessages
<1>2. QED
  BY <1>1, RowsInvariant, TypeCorrect, PTL

\* A client with the right answers is never refused, a shown nonce is the one
\* the signature is verified against, and a wrong last answer always counts.
THEOREM ClientsJudgedFairly == Spec => []ClientsAreJudged
<1>1. RowsInv => ClientsAreJudged
  BY DEF RowsInv
<1>2. QED
  BY <1>1, RowsInvariant, PTL

\* The debug assertions about the row an upsert returns hold, whatever other
\* requests wrote between its snapshot and its locks.
THEOREM UpsertAssertionsHold == Spec => []AssertionsHold
<1>1. TypeOK => AssertionsHold
  <2> SUFFICES ASSUME TypeOK, NEW w \in Workers, ~ (ShouldWrite(w) /\ UniqueViolation(w))
               PROVE  DebugAssert(w)
    BY DEF AssertionsHold
  <2> DEFINE row == Result(w)
             msgs == Present(draft[w])
             seen == visible[w].messages
             outcome == AuthOutcome(op[w].ch, draft[w])
  <2>1. outcome \in {"Aborted", "Succeeded", "Pending"}
    BY DEF AuthOutcome
  <2> HIDE DEF outcome
  <2>2. CASE ~ ShouldWrite(w)
    <3>1. /\ row.written = FALSE /\ row.insertedChallenge = "absent"
          /\ row.updatedOutcome = "absent" /\ row.inserted = {} /\ row.updated = {}
      BY <2>2 DEF Result
    <3>2. QED
      BY <3>1 DEF DebugAssert, AssertWritten, AssertInsertedChallenge, AssertUpdatedOutcome,
          AssertExistingChallenge, AssertMessages
  <2>3. CASE ShouldWrite(w)
    <3>1. /\ row.written = TRUE
          /\ row.inserted = msgs \ seen
          /\ row.updated = {n \in msgs \cap seen : message[op[w].ch][n].status = "null"}
          /\ row.previousNonOk = {n \in seen : message[op[w].ch][n].status = "Error"}
          /\ row.insertedChallenge = IF row.existingChallenge = "absent" THEN outcome ELSE "absent"
          /\ row.updatedOutcome \in {"absent", outcome}
          /\ row.updatedOutcome # "absent" => outcome # "Pending"
          /\ row.existingChallenge # "absent" => visible[w].challenge
      BY <2>3 DEF Result, outcome
    <3>2. row.updated = msgs \cap seen /\ row.previousNonOk = {}
      BY <2>3, <3>1 DEF ShouldWrite
    <3>3. Cardinality(row.inserted) + Cardinality(row.updated) = Cardinality(msgs)
      <4>1. IsFiniteSet(msgs)
        <5>1. IsFiniteSet(MessageNames)
          <6>1. IsFiniteSet({"GetPasswordFields"})
            BY FS_Singleton
          <6>2. IsFiniteSet({"GetPasswordFields"} \union {"SelectKey"})
            BY <6>1, FS_AddElement
          <6>3. IsFiniteSet(({"GetPasswordFields"} \union {"SelectKey"}) \union {"SignNonce"})
            BY <6>2, FS_AddElement
          <6>4. MessageNames = ({"GetPasswordFields"} \union {"SelectKey"}) \union {"SignNonce"}
            BY DEF MessageNames
          <6>5. QED
            BY <6>3, <6>4
        <5>2. msgs \subseteq MessageNames
          BY DEF Present
        <5>3. QED
          BY <5>1, <5>2, FS_Subset
      <4>2. Cardinality(msgs \ seen) = Cardinality(msgs) - Cardinality(msgs \cap seen)
        BY <4>1, FS_Difference
      <4>3. IsFiniteSet(msgs \cap seen)
        BY <4>1, FS_Intersection
      <4>4. Cardinality(msgs) \in Nat /\ Cardinality(msgs \cap seen) \in Nat
        BY <4>1, <4>3, FS_CardinalityType
      <4>5. QED
        BY <3>1, <3>2, <4>2, <4>4
    <3> HIDE DEF row, msgs, seen
    <3>4. AssertWritten(w, row)
      BY <3>1, <3>2, <3>3 DEF AssertWritten, msgs
    <3>5. AssertInsertedChallenge(w, row) /\ AssertUpdatedOutcome(w, row)
          /\ AssertExistingChallenge(row)
      BY <2>1, <3>1 DEF AssertInsertedChallenge, AssertUpdatedOutcome,
          AssertExistingChallenge, outcome
    <3>6. AssertMessages(w, row)
      BY <3>1, <3>2 DEF AssertMessages, msgs
    <3>7. QED
      BY <3>4, <3>5, <3>6 DEF DebugAssert, row
  <2>4. QED
    BY <2>2, <2>3
<1>2. QED
  BY <1>1, TypeCorrect, PTL

-----------------------------------------------------------------------------
(***************************************************************************)
(* Action properties: rows are final, and the protocol is implemented.     *)
(***************************************************************************)
\* Only an upsert that writes touches the rows.
LEMMA RowsUnlessWrite ==
    ASSUME [Next]_vars,
           \A w \in Workers : ~ (Upsert(w) /\ ShouldWrite(w) /\ ~ UniqueViolation(w) /\ Write(w))
    PROVE  UNCHANGED <<challenge, message>>
<1>1. CASE UNCHANGED vars
  BY <1>1 DEF vars, db
<1>2. ASSUME NEW w \in Workers, Receive(w) \/ Crash(w) \/ Serve(w)
      PROVE  UNCHANGED <<challenge, message>>
  BY <1>2 DEF Receive, Crash, Serve, Fail, db, ValidatePendingSessionState,
      ValidateNewChallengeState, ValidatePendingChallengeState, SetupSession,
      SetupChallenge, SetupMessages, ProcessPendingMessageResponse, TakeSnapshot,
      Upsert, FinishSession, FinishCheck, FinishUpdate
<1>3. QED
  BY <1>1, <1>2 DEF Next

LEMMA RowsGrow ==
    ASSUME TypeOK, RowsInv, [Next]_vars
    PROVE  \A c \in Challenges : Grows(c)
<1>1. CASE UNCHANGED <<challenge, message>>
  BY <1>1, GrowsInPlace
<1>2. CASE ~ UNCHANGED <<challenge, message>>
  <2>1. PICK w \in Workers : /\ Upsert(w) /\ ShouldWrite(w)
                             /\ ~ UniqueViolation(w) /\ Write(w)
    BY <1>2, RowsUnlessWrite
  <2>2. Writes(w)
    BY <2>1, WriteCases DEF Upsert
  <2>3. QED
    BY <2>2, WriteStep
<1>3. QED
  BY <1>1, <1>2

\* A completed row never changes, nor does what a stored row expects.
THEOREM RowsStayFinal == Spec => RowsAreFinal
<1> DEFINE Final == \A c \in Challenges : \A n \in Present(message[c]) :
        /\ message'[c][n].expect = message[c][n].expect
        /\ n \in Completed(message[c]) => message'[c][n] = message[c][n]
<1>1. TypeOK /\ RowsInv /\ [Next]_vars => [Final]_vars
  <2>1. SUFFICES ASSUME TypeOK, RowsInv, [Next]_vars PROVE Final
    OBVIOUS
  <2>2. QED
    BY <2>1, RowsGrow DEF Grows
<1>2. QED
  BY <1>1, TypeCorrect, RowsInvariant, PTL DEF Spec, RowsAreFinal

-----------------------------------------------------------------------------
(***************************************************************************)
(* The refinement: which step of the protocol each step of the backend is. *)
(***************************************************************************)
\* The messages of c answered correctly, as the protocol sees them.
Passed(c) == {n \in MessageNames : message[c][n].status = "Ok"}

LEMMA OpensRefines ==
    ASSUME TypeOK, NEW c \in Challenges, Opens(c), Story(c)
    PROVE  Passed(c)' = Passed(c)
<1> USE DEF MessageNames
<1>1. message[c] \in [MessageNames -> Row] /\ First(c) \in MessageNames
  BY DEF TypeOK, First
<1>2. message[c][First(c)].status = "absent"
  BY DEF Opens, Story, PasswordStory, SignatureStory, First
<1>3. /\ message'[c][First(c)].status = "null"
      /\ \A n \in MessageNames \ {First(c)} : message'[c][n] = message[c][n]
  BY <1>1 DEF Opens
<1>4. ASSUME NEW n \in MessageNames
      PROVE  message'[c][n].status = "Ok" <=> message[c][n].status = "Ok"
  BY <1>2, <1>3
<1>5. QED
  BY <1>4 DEF Passed

LEMMA JudgesRefines ==
    ASSUME TypeOK, NEW c \in Challenges, Story(c),
           NEW n \in MessageDefs(c), NEW status \in {"Ok", "Error"}, Judges(c, n, status)
    PROVE  IF status = "Error"
           THEN challenge'[c] = "Aborted" /\ Passed(c)' = Passed(c)
           ELSE /\ n \notin Passed(c) /\ Preceding(n) = Passed(c)
                /\ Passed(c)' = Passed(c) \union {n}
                /\ challenge'[c] = IF Passed(c) \union {n} = MessageDefs(c)
                                   THEN "Succeeded" ELSE challenge[c]
<1> USE DEF MessageNames
<1>1. n \in MessageNames /\ message[c][n].status = "null" /\ challenge[c] = "Pending"
  BY DEF MessageDefs, Judges
<1>2. ASSUME NEW m \in MessageNames, m # n
      PROVE  message'[c][m].status = "Ok" <=> message[c][m].status = "Ok"
  BY <1>2 DEF Judges
<1>3. message'[c][n].status = status
  BY DEF Judges
<1>4. Passed(c) = Preceding(n)
  <2>1. CASE ChallengeType[c] = "Password"
    BY <1>1, <2>1 DEF Story, PasswordStory, MessageDefs, Preceding, Passed
  <2>2. CASE ChallengeType[c] # "Password"
    BY <1>1, <2>2 DEF Story, SignatureStory, MessageDefs, Preceding, Passed
  <2>3. QED
    BY <2>1, <2>2
<1>5. CASE status = "Error"
  <2>1. Passed(c)' = Passed(c)
    BY <1>1, <1>2, <1>3, <1>5 DEF Passed
  <2>2. QED
    BY <1>5, <2>1 DEF Judges
<1>6. CASE status = "Ok"
  <2>1. Passed(c)' = Passed(c) \union {n}
    BY <1>1, <1>2, <1>3, <1>6 DEF Passed
  <2>2. n \notin Passed(c)
    BY <1>1 DEF Passed
  <2>3. (Passed(c) \union {n} = MessageDefs(c)) <=> n # "SelectKey"
    BY <1>4 DEF Preceding, MessageDefs
  <2>4. QED
    BY <1>1, <1>4, <1>6, <2>1, <2>2, <2>3 DEF Judges
<1>7. QED
  BY <1>5, <1>6

LEMMA InitRefines == Init => Protocol!Init
  BY DEF Init, Protocol!Init, NoRows, AbsentRow

\* A write is a step of the protocol, or none.
LEMMA WriteRefines ==
    ASSUME TypeOK, TypeOK', RowsInv, NEW w \in Workers, Upsert(w),
           ShouldWrite(w), ~ UniqueViolation(w), Write(w)
    PROVE  [Protocol!Next]_Protocol!vars
<1> DEFINE passed == [d \in Challenges |-> Passed(d)]
<1>0. PICK c : c = op[w].ch
  OBVIOUS
<1>1. Writes(w) /\ c \in Challenges /\ Story(c)
  BY <1>0, WriteCases, OperationTypes DEF Upsert, TypeOK, RowsInv
<1>2. session = "Pending" /\ session' = session
  BY DEF ShouldWrite, Write
<1>3. challenge' = [challenge EXCEPT ![c] = challenge'[c]]
  <2>1. \A d \in Challenges \ {c} : challenge'[d] = challenge[d]
    BY <1>0, <1>1 DEF Writes
  <2>2. challenge \in [Challenges -> {"absent", "Pending", "Aborted", "Succeeded"}]
        /\ challenge' \in [Challenges -> {"absent", "Pending", "Aborted", "Succeeded"}]
    BY DEF TypeOK
  <2>3. QED
    BY <1>1, <2>1, <2>2
<1>4. passed' = [passed EXCEPT ![c] = Passed(c)']
  <2>1. \A d \in Challenges \ {c} : Passed(d)' = Passed(d)
    BY <1>0, <1>1 DEF Writes, Passed
  <2>2. QED
    BY <1>1, <2>1
<1>5. passed = [d \in Challenges |-> {n \in MessageNames : message[d][n].status = "Ok"}]
  BY DEF Passed
<1>6. passed' = [d \in Challenges |-> {n \in MessageNames : message'[d][n].status = "Ok"}]
  BY DEF Passed
<1>7. passed[c] = Passed(c)
  BY <1>1
<1> HIDE DEF passed
<1>8. CASE Opens(c)
  <2>1. Passed(c)' = passed[c]
    BY <1>1, <1>7, <1>8, OpensRefines
  <2>2. passed' = passed
    BY <1>4, <2>1, <1>5
  <2>3. Protocol!Start(c)
    BY <1>2, <1>3, <1>5, <1>6, <1>8, <2>2 DEF Protocol!Start, Opens
  <2>4. QED
    BY <1>1, <2>3 DEF Protocol!Next
<1>9. CASE Keeps(c)
  <2>1. Passed(c)' = passed[c]
    BY <1>7, <1>9 DEF Keeps, Passed
  <2>2. passed' = passed
    BY <1>4, <2>1, <1>5
  <2>3. challenge' = challenge
    BY <1>3, <1>9 DEF Keeps, TypeOK
  <2>4. QED
    BY <1>2, <1>5, <1>6, <2>2, <2>3 DEF Protocol!vars
<1>10. CASE ~ Opens(c) /\ ~ Keeps(c)
  <2>1. PICK n, status : n = op[w].msg /\ status = draft[w][n].status
    OBVIOUS
  <2>2. n \in MessageDefs(c) /\ status \in {"Ok", "Error"} /\ Judges(c, n, status)
    BY <1>0, <1>1, <1>10, <2>1 DEF Writes
  <2>3. challenge[c] = "Pending"
    BY <2>2 DEF Judges
  <2>4. IF status = "Error"
        THEN challenge'[c] = "Aborted" /\ Passed(c)' = Passed(c)
        ELSE /\ n \notin Passed(c) /\ Preceding(n) = Passed(c)
             /\ Passed(c)' = Passed(c) \union {n}
             /\ challenge'[c] = IF Passed(c) \union {n} = MessageDefs(c)
                                THEN "Succeeded" ELSE challenge[c]
    BY <1>1, <2>2, JudgesRefines
  <2>5. CASE status = "Error"
    <3>1. passed' = passed
      BY <1>4, <1>5, <1>7, <2>4, <2>5
    <3>2. challenge' = [challenge EXCEPT ![c] = "Aborted"]
      BY <1>3, <2>4, <2>5
    <3>3. Protocol!Refuse(c)
      BY <1>2, <1>5, <1>6, <2>3, <3>1, <3>2 DEF Protocol!Refuse
    <3>4. QED
      BY <1>1, <3>3 DEF Protocol!Next
  <2>6. CASE status # "Error"
    <3>1. /\ n \in MessageDefs(c) \ passed[c] /\ Preceding(n) = passed[c]
          /\ passed' = [passed EXCEPT ![c] = passed[c] \union {n}]
      BY <1>4, <1>7, <2>2, <2>4, <2>6
    <3>2. challenge' = [challenge EXCEPT ![c] =
                IF passed[c] \union {n} = MessageDefs(c) THEN "Succeeded" ELSE challenge[c]]
      BY <1>3, <1>7, <2>4, <2>6
    <3>3. Protocol!Pass(c, n)
      BY <1>2, <1>5, <1>6, <2>3, <3>1, <3>2 DEF Protocol!Pass
    <3>4. QED
      BY <1>1, <2>2, <3>3 DEF Protocol!Next
  <2>7. QED
    BY <2>5, <2>6
<1>11. QED
  BY <1>8, <1>9, <1>10

LEMMA StepRefines ==
    ASSUME TypeOK, TypeOK', RowsInv, FinishInv, [Next]_vars
    PROVE  [Protocol!Next]_Protocol!vars
<1>1. CASE \E w \in Workers : Upsert(w) /\ ShouldWrite(w) /\ ~ UniqueViolation(w) /\ Write(w)
  BY <1>1, WriteRefines
<1>2. CASE ~ \E w \in Workers : Upsert(w) /\ ShouldWrite(w) /\ ~ UniqueViolation(w) /\ Write(w)
  <2>1. UNCHANGED <<challenge, message>>
    BY <1>2, RowsUnlessWrite
  <2>2. CASE session' = session
    BY <2>1, <2>2 DEF Protocol!vars
  <2>3. CASE session' # session
    <3>1. PICK w \in Workers : FinishUpdate(w)
      BY <2>3 DEF vars, db, Next, Receive, Crash, Serve, Fail, ValidatePendingSessionState,
          ValidateNewChallengeState, ValidatePendingChallengeState, SetupSession,
          SetupChallenge, SetupMessages, ProcessPendingMessageResponse, TakeSnapshot,
          Upsert, Write, FinishSession, FinishCheck
    <3>2. /\ session = "Pending" /\ session' = "Succeeded"
          /\ \A c \in Challenges : challenge[c] = "Succeeded"
      BY <2>3, <3>1 DEF FinishUpdate, Fail, db, FinishInv
    <3>3. Protocol!Succeed
      BY <2>1, <3>2 DEF Protocol!Succeed
    <3>4. QED
      BY <3>3 DEF Protocol!Next
  <2>4. QED
    BY <2>2, <2>3
<1>3. QED
  BY <1>1, <1>2

\* Seen through its outcomes and its Ok messages, the backend runs the
\* challenge protocol: its statements are steps of the protocol or nothing.
THEOREM BackendImplementsProtocol == Spec => ImplementsProtocol
<1>1. TypeOK /\ TypeOK' /\ RowsInv /\ FinishInv /\ [Next]_vars => [Protocol!Next]_Protocol!vars
  BY StepRefines
<1>2. QED
  BY InitRefines, <1>1, TypeCorrect, RowsInvariant, FinishInvariant, PTL
     DEF Spec, ImplementsProtocol, Protocol!Spec
=============================================================================
