---------------------------- MODULE ManagerProofs ----------------------------
(***************************************************************************)
(* What holds of secret managers: of the prompt in which the user chooses  *)
(* one, for any number of managers and pages, and of a session of Secret*, *)
(* for any fields and challenges, any number of requests and however often *)
(* the user closes the popup.                                              *)
(***************************************************************************)
EXTENDS Selection, SecretStar, SequenceTheorems, FiniteSetTheorems, WellFoundedInduction, TLAPS

-----------------------------------------------------------------------------
(***************************************************************************)
(* Kept returns a sequence of just the elements that are asked for.  Its   *)
(* function is a CHOOSE: that there is one to choose, and that it has the  *)
(* property at every argument, are two arguments by least counterexample.  *)
(***************************************************************************)
LEMMA LeastOf ==
  ASSUME NEW B, B \subseteq Nat, B # {}
  PROVE  \E n \in B : \A k \in B : ~ (k < n)
<1>1. IsWellFoundedOn(OpToRel(<, Nat), Nat)
  BY NatLessThanWellFounded
<1>2. PICK n \in B : \A k \in B : ~ (<<k, n>> \in OpToRel(<, Nat))
  BY <1>1, WFMin
<1>3. \A k \in B : ~ (k < n)
  BY <1>2 DEF OpToRel
<1> QED  BY <1>3

\* The prefixes of s, filtered.
Grows(g, s, K, n) ==
  /\ g[0] = <<>>
  /\ \A k \in 1 .. n : g[k] = IF s[k] \in K THEN Append(g[k - 1], s[k]) ELSE g[k - 1]

LEMMA GrowsToAny ==
  ASSUME NEW S, NEW s \in Seq(S), NEW K, NEW m \in 0 .. Len(s)
  PROVE  \E g \in [0 .. m -> Seq(S)] : Grows(g, s, K, m)
<1> DEFINE Has(n) == \E g \in [0 .. n -> Seq(S)] : Grows(g, s, K, n)
           B == {n \in 0 .. Len(s) : ~ Has(n)}
<1>1. Len(s) \in Nat /\ DOMAIN s = 1 .. Len(s) /\ \A i \in 1 .. Len(s) : s[i] \in S
  BY LenProperties, ElementOfSeq
<1>2. SUFFICES ASSUME B # {} PROVE FALSE
  OBVIOUS
<1>3. B \subseteq Nat
  BY <1>1
<1>4. PICK n \in B : \A k \in B : ~ (k < n)
  BY <1>2, <1>3, LeastOf
<1>5. n # 0
  <2> DEFINE g0 == [k \in 0 .. 0 |-> <<>>]
  <2>1. g0 \in [0 .. 0 -> Seq(S)] /\ Grows(g0, s, K, 0)
    BY DEF Grows
  <2> QED  BY <2>1
<1>6. n - 1 \in 0 .. Len(s) /\ n \in 1 .. Len(s)
  BY <1>1, <1>5
<1>7. PICK g \in [0 .. n - 1 -> Seq(S)] : Grows(g, s, K, n - 1)
  <2>1. n - 1 < n
    BY <1>1, <1>6
  <2>2. Has(n - 1)
    BY <1>4, <1>6, <2>1
  <2> QED  BY <2>2
<1> DEFINE h == [k \in 0 .. n |->
                   IF k < n THEN g[k]
                   ELSE IF s[n] \in K THEN Append(g[n - 1], s[n]) ELSE g[n - 1]]
<1>8. g[n - 1] \in Seq(S) /\ s[n] \in S /\ Append(g[n - 1], s[n]) \in Seq(S)
  BY <1>1, <1>6, <1>7, AppendProperties
<1>9. h \in [0 .. n -> Seq(S)]
  BY <1>6, <1>7, <1>8
<1>10. \A k \in 0 .. n - 1 : h[k] = g[k]
  BY <1>6
<1>11. h[n] = IF s[n] \in K THEN Append(g[n - 1], s[n]) ELSE g[n - 1]
  BY <1>6
<1> HIDE DEF h
<1>12. Grows(h, s, K, n)
  <2>1. h[0] = <<>>
    BY <1>1, <1>6, <1>7, <1>10 DEF Grows
  <2>2. ASSUME NEW k \in 1 .. n
        PROVE  h[k] = IF s[k] \in K THEN Append(h[k - 1], s[k]) ELSE h[k - 1]
    <3>1. k - 1 \in 0 .. n - 1 /\ h[k - 1] = g[k - 1]
      BY <1>1, <1>6, <1>10
    <3>2. CASE k = n
      BY <1>11, <3>1, <3>2
    <3>3. CASE k # n
      <4>1. k \in 0 .. n - 1 /\ k \in 1 .. n - 1
        BY <1>1, <1>6, <3>3
      <4> QED  BY <1>7, <1>10, <3>1, <4>1 DEF Grows
    <3> QED  BY <3>2, <3>3
  <2> QED  BY <2>1, <2>2 DEF Grows
<1> QED  BY <1>4, <1>9, <1>12

LEMMA KeptByGrowing ==
  ASSUME NEW S, NEW s \in Seq(S), NEW K
  PROVE  \E g : Grows(g, s, K, Len(s)) /\ Kept(s, K) = g[Len(s)]
<1> DEFINE F(g) == [n \in 0 .. Len(s) |->
             IF n = 0 THEN <<>>
             ELSE IF s[n] \in K THEN Append(g[n - 1], s[n]) ELSE g[n - 1]]
           kept == CHOOSE g : g = F(g)
<1>1. Len(s) \in Nat
  BY LenProperties
<1>2. PICK g \in [0 .. Len(s) -> Seq(S)] : Grows(g, s, K, Len(s))
  <2>1. Len(s) \in 0 .. Len(s)
    BY <1>1
  <2> QED  BY <2>1, GrowsToAny
<1>3. g = F(g)
  <2>1. ASSUME NEW n \in 0 .. Len(s) PROVE g[n] = F(g)[n]
    <3>1. CASE n = 0
      BY <1>2, <3>1 DEF Grows
    <3>2. CASE n # 0
      <4>1. n \in 1 .. Len(s)
        BY <1>1, <3>2
      <4> QED  BY <1>2, <3>2, <4>1 DEF Grows
    <3> QED  BY <3>1, <3>2
  <2> QED  BY <1>2, <2>1
<1>4. kept = F(kept)
  <2> HIDE DEF F
  <2> QED  BY <1>3
<1>5. Kept(s, K) = kept[Len(s)]
  BY DEF Kept
<1> HIDE DEF kept
<1>6. Grows(kept, s, K, Len(s))
  <2>1. kept[0] = <<>>
    <3>1. kept[0] = F(kept)[0]
      BY <1>4
    <3> QED  BY <1>1, <3>1
  <2>2. ASSUME NEW k \in 1 .. Len(s)
        PROVE  kept[k] = IF s[k] \in K THEN Append(kept[k - 1], s[k]) ELSE kept[k - 1]
    <3>1. kept[k] = F(kept)[k]
      BY <1>4
    <3>2. k \in 0 .. Len(s) /\ k # 0
      BY <1>1
    <3> QED  BY <3>1, <3>2
  <2> QED  BY <2>1, <2>2 DEF Grows
<1> QED  BY <1>5, <1>6

\* A filtered list has the elements that were asked for, and no other.
LEMMA KeptIsFiltered ==
  ASSUME NEW S, NEW s \in Seq(S), NEW K
  PROVE  /\ Kept(s, K) \in Seq(S)
         /\ \A e : Contains(Kept(s, K), e) <=> Contains(s, e) /\ e \in K
<1>1. PICK g : Grows(g, s, K, Len(s)) /\ Kept(s, K) = g[Len(s)]
  BY KeptByGrowing
<1>2. Len(s) \in Nat /\ \A i \in 1 .. Len(s) : s[i] \in S
  BY LenProperties, ElementOfSeq
<1> DEFINE Right(n) == /\ g[n] \in Seq(S)
                       /\ \A e : Contains(g[n], e) <=> e \in K /\ \E i \in 1 .. n : s[i] = e
           B == {n \in 0 .. Len(s) : ~ Right(n)}
<1>3. ASSUME B # {} PROVE FALSE
  <2>0. B \subseteq Nat
    BY <1>2
  <2>1. PICK n \in B : \A k \in B : ~ (k < n)
    BY <1>3, <2>0, LeastOf
  <2>2. n # 0
    <3>1. g[0] = <<>>
      BY <1>1 DEF Grows
    <3>2. Right(0)
      BY <3>1 DEF Contains
    <3> QED  BY <2>1, <3>2
  <2>3. n - 1 \in 0 .. Len(s) /\ n \in 1 .. Len(s) /\ s[n] \in S
    BY <1>2, <2>2
  <2>4. Right(n - 1)
    <3>1. n - 1 < n
      BY <1>2, <2>3
    <3> QED  BY <2>1, <2>3, <3>1
  <2> DEFINE t == g[n - 1]
  <2>5. t \in Seq(S) /\ \A e : Contains(t, e) <=> e \in K /\ \E i \in 1 .. n - 1 : s[i] = e
    BY <2>4
  <2>6. g[n] = IF s[n] \in K THEN Append(t, s[n]) ELSE t
    BY <1>1, <2>3 DEF Grows
  <2>7. \A e : (\E i \in 1 .. n : s[i] = e) <=> (\E i \in 1 .. n - 1 : s[i] = e) \/ s[n] = e
    BY <2>3
  <2> HIDE DEF t
  <2>8. \A e : Contains(Append(t, s[n]), e) <=> Contains(t, e) \/ s[n] = e
    <3>1. /\ Len(t) \in Nat /\ Len(Append(t, s[n])) = Len(t) + 1
          /\ Append(t, s[n])[Len(t) + 1] = s[n]
          /\ \A i \in 1 .. Len(t) : Append(t, s[n])[i] = t[i]
      BY <2>3, <2>5, AppendProperties, LenProperties
    <3> QED  BY <3>1 DEF Contains
  <2>9. Append(t, s[n]) \in Seq(S)
    BY <2>3, <2>5, AppendProperties
  <2>10. CASE s[n] \in K
    <3>1. g[n] = Append(t, s[n])
      BY <2>6, <2>10
    <3>2. Right(n)
      BY <2>5, <2>7, <2>8, <2>9, <2>10, <3>1
    <3> QED  BY <2>1, <3>2
  <2>11. CASE s[n] \notin K
    <3>1. g[n] = t
      BY <2>6, <2>11
    <3>2. Right(n)
      BY <2>5, <2>7, <2>11, <3>1
    <3> QED  BY <2>1, <3>2
  <2> QED  BY <2>10, <2>11
<1>4. Right(Len(s))
  <2>1. Len(s) \in 0 .. Len(s)
    BY <1>2
  <2> HIDE DEF Right
  <2> QED  BY <1>3, <2>1
<1> QED  BY <1>1, <1>2, <1>4 DEF Contains

-----------------------------------------------------------------------------
(***************************************************************************)
(* The invariant                                                           *)
(***************************************************************************)
\* A manager that was asked for metadata and has not answered is waited for,
\* by a prompt that has been made.
AnswersAreAwaited ==
  \A r \in inFlight : r.method = "getCredentialsMetadata" =>
    /\ metadata[r.page][r.manager] = "pending"
    /\ phase[r.page] \notin {"idle", "asking"}

\* What a collection found out about keys is true, and what it did not find
\* out about a wanted one was refused.
KeysAreTrue == \A p \in Pages, m \in Managers : key[p][m] = "ok" => IsWanted(p, m)

RefusedForAReason ==
  \A p \in Pages, m \in Managers :
    phase[p] = "asking" /\ Contains(polled[p], m) /\ IsWanted(p, m) =>
      key[p][m] \in {"pending", "ok"} \/ <<p, m>> \in refusals

EntriesAreWanted ==
  \A p \in Pages, m \in Managers :
    Wanted[p] # <<>> /\ Contains(entries[p], m) => IsWanted(p, m)

\* A manager m that the prompt of p may resolve with.
Selectable(p, m) ==
  /\ Contains(entries[p], m)
  /\ m = Head(entries[p]) \/ metadata[p][m] = "ok"

\* The list box is of the prompt that filled it last, and what is checked in
\* it may be selected.
BoxIsOwned ==
  \A p \in Pages : IsOpen(p) /\ p \notin refilled => owner = p /\ Selectable(p, checked)

ChosenWasSelectable ==
  \A p \in Pages : phase[p] = "chosen" /\ p \notin refilled => Selectable(p, chosen[p])

Inv ==
  /\ SelectionTypeOK /\ AnswersAreAwaited /\ KeysAreTrue /\ RefusedForAReason /\ EntriesAreWanted
  /\ BoxIsOwned /\ ChosenWasSelectable /\ LeftOutForAReason

LEMMA OutcomesAreEnough ==
  /\ "none" \in Outcome /\ "pending" \in Outcome /\ "ok" \in Outcome
  /\ "no" \in Outcome /\ "error" \in Outcome
  BY DEF Outcome

LEMMA ManagersInOrder == SetToSeq(Managers) \in Seq(Managers)
<1> DEFINE n == Cardinality(Managers)
<1>1. n \in Nat /\ ExistsBijection(1 .. n, Managers)
  BY SelectionAssumption, FS_CardinalityType
<1>2. PICK f : f \in Bijection(1 .. n, Managers)
  BY <1>1 DEF ExistsBijection
<1>3. f \in [1 .. n -> Managers] /\ IsInjective(f)
  BY <1>2 DEF Bijection, Injection, IsInjective
<1>4. SetToSeq(Managers) \in [1 .. n -> Managers]
  BY <1>3 DEF SetToSeq
<1> QED  BY <1>1, <1>4

LEMMA InitInv == SelectionInit => Inv
<1> SUFFICES ASSUME SelectionInit PROVE Inv
  OBVIOUS
<1>1. managers \in Seq(Managers)
  BY ManagersInOrder DEF SelectionInit
<1>2. \A p \in Pages, m \in Managers : ~ Contains(entries[p], m)
  BY DEF SelectionInit, Contains
<1>3. SelectionTypeOK
  <2>1. <<>> \in Seq(Managers)
    OBVIOUS
  <2>2. key \in [Pages -> [Managers -> Outcome]] /\ metadata \in [Pages -> [Managers -> Outcome]]
    BY OutcomesAreEnough DEF SelectionInit
  <2>3. /\ polled \in [Pages -> Seq(Managers)] /\ entries \in [Pages -> Seq(Managers)]
        /\ erasures \in 0 .. MaxErasures
    BY <2>1, SelectionAssumption DEF SelectionInit
  <2> QED  BY <1>1, <2>2, <2>3 DEF SelectionInit, SelectionTypeOK
<1>4. AnswersAreAwaited /\ KeysAreTrue /\ RefusedForAReason
  BY DEF SelectionInit, AnswersAreAwaited, KeysAreTrue, RefusedForAReason
<1>5. EntriesAreWanted
  BY <1>2 DEF EntriesAreWanted
<1>6. BoxIsOwned /\ ChosenWasSelectable /\ LeftOutForAReason
  BY DEF SelectionInit, BoxIsOwned, ChosenWasSelectable, LeftOutForAReason, IsOpen
<1> QED  BY <1>3, <1>4, <1>5, <1>6 DEF Inv

-----------------------------------------------------------------------------
(***************************************************************************)
(* Asking managers                                                         *)
(***************************************************************************)
LEMMA DispatchReaches ==
  ASSUME SelectionTypeOK, NEW p \in Pages, NEW ms \in SUBSET Managers, NEW gone \in SUBSET Managers,
         NEW method \in {"getSigningKey", "getCredentialsMetadata"},
         Dispatch(p, method, ms, gone)
  PROVE  /\ serving' \in [Managers -> ManagerRequest \union {Nobody}]
         /\ inFlight' \subseteq ManagerRequest
         /\ \A m \in Managers : serving'[m] # Nobody => serving'[m] \in inFlight' /\ serving'[m].manager = m
         /\ refusals' \subseteq Pages \X Managers
         /\ refusals \subseteq refusals'
         /\ \A m \in gone : <<p, m>> \in refusals'
         /\ \A m \in ms : Takes(m) \/ <<p, m>> \in refusals'
         /\ \A r \in inFlight' : \/ r \in inFlight
                                 \/ /\ r.page = p /\ r.method = method
                                    /\ r.manager \in ms /\ Takes(r.manager)
<1> DEFINE taken == {m \in ms : Takes(m)}
           ask(m) == [manager |-> m, page |-> p, method |-> method]
<1>1. /\ inFlight' = inFlight \union Requests(p, method, taken)
      /\ serving' = [m \in Managers |-> IF m \in taken THEN ask(m) ELSE serving[m]]
      /\ refusals' = refusals \union {<<p, m>> : m \in gone \union (ms \ taken)}
  BY DEF Dispatch
<1>2. \A m \in taken : ask(m) \in ManagerRequest /\ ask(m).manager = m
  BY DEF ManagerRequest
<1>3. \A r : r \in Requests(p, method, taken) <=> \E m \in taken : r = ask(m)
  BY DEF Requests
<1>4. /\ serving \in [Managers -> ManagerRequest \union {Nobody}] /\ inFlight \subseteq ManagerRequest
      /\ \A m \in Managers : serving[m] # Nobody => serving[m] \in inFlight /\ serving[m].manager = m
      /\ refusals \subseteq Pages \X Managers
  BY DEF SelectionTypeOK
<1>5. \A m \in Managers : IF m \in taken THEN serving'[m] = ask(m) ELSE serving'[m] = serving[m]
  BY <1>1
<1>6. \A m \in ms : m \in taken \/ m \in ms \ taken
  OBVIOUS
<1>7. \A r \in Requests(p, method, taken) :
        r.page = p /\ r.method = method /\ r.manager \in ms /\ Takes(r.manager)
  BY <1>3
<1>8. serving' \in [Managers -> ManagerRequest \union {Nobody}]
  <2> HIDE DEF taken, ask
  <2> QED  BY <1>1, <1>2, <1>4
<1>9. \A m \in Managers : serving'[m] # Nobody => serving'[m] \in inFlight' /\ serving'[m].manager = m
  <2> HIDE DEF taken, ask
  <2> QED  BY <1>1, <1>2, <1>3, <1>4, <1>5
<1>10. inFlight' \subseteq ManagerRequest
  <2> HIDE DEF taken, ask
  <2> QED  BY <1>1, <1>2, <1>3, <1>4
<1>11. refusals' \subseteq Pages \X Managers /\ refusals \subseteq refusals'
  BY <1>1, <1>4
<1>12. (\A m \in gone : <<p, m>> \in refusals') /\ (\A m \in ms : Takes(m) \/ <<p, m>> \in refusals')
  BY <1>1
<1> QED  BY <1>1, <1>7, <1>8, <1>9, <1>10, <1>11, <1>12

LEMMA Elements ==
  ASSUME NEW S, NEW s \in Seq(S)
  PROVE  /\ DOMAIN s = 1 .. Len(s) /\ Len(s) \in Nat
         /\ \A i \in DOMAIN s : s[i] \in S
         /\ \A e : Contains(s, e) => e \in S
         /\ \A e : Contains(s, e) <=> e \in ToSet(s)
         /\ s # <<>> => Head(s) \in S /\ Contains(s, Head(s))
<1>1. DOMAIN s = 1 .. Len(s) /\ Len(s) \in Nat /\ \A i \in DOMAIN s : s[i] \in S
  BY LenProperties, ElementOfSeq
<1>2. \A e : Contains(s, e) <=> e \in ToSet(s)
  BY <1>1 DEF Contains, ToSet
<1>3. s # <<>> => Len(s) # 0 /\ Head(s) = s[1]
  BY HeadTailProperties, EmptySeq
<1> QED  BY <1>1, <1>2, <1>3 DEF Contains

\* What a prompt of p for ms makes of the state.
Shown(p, ms) ==
  /\ phase' = [phase EXCEPT ![p] = "open"]
  /\ entries' = [entries EXCEPT ![p] = ms]
  /\ ms # <<>> /\ owner' = p /\ checked' = Head(ms)
  /\ refilled' = refilled \union {q \in Pages \ {p} : IsOpen(q)}
  /\ button' \in BOOLEAN
  /\ UNCHANGED <<front, chosen>>

NotShown(p, ms) ==
  /\ phase' = [phase EXCEPT ![p] = "failed"]
  /\ ms = <<>> \/ \E m \in Managers : <<p, m>> \in refusals'
  /\ UNCHANGED <<entries, window, chosen>>

LEMMA AskingForMetadata ==
  ASSUME SelectionTypeOK, NEW p \in Pages, NEW ms \in Seq(Managers), AskForMetadata(p, ms)
  PROVE  /\ serving' \in [Managers -> ManagerRequest \union {Nobody}]
         /\ inFlight' \subseteq ManagerRequest
         /\ \A m \in Managers : serving'[m] # Nobody => serving'[m] \in inFlight' /\ serving'[m].manager = m
         /\ refusals' \subseteq Pages \X Managers
         /\ refusals \subseteq refusals'
         /\ metadata' \in [Pages -> [Managers -> Outcome]]
         /\ \A q \in Pages \ {p} : metadata'[q] = metadata[q]
         /\ \A r \in inFlight' :
              \/ r \in inFlight
              \/ r.page = p /\ r.manager \in Managers /\ metadata'[p][r.manager] = "pending"
         /\ Shown(p, ms) \/ NotShown(p, ms)
<1> DEFINE absent == {i \in DOMAIN ms : ~Registered(ms[i])}
           reached == {ms[i] : i \in {j \in DOMAIN ms : \A a \in absent : j < a}}
           gone == {ms[a] : a \in absent}
           knows == [m \in Managers |-> IF m \notin reached THEN "none"
                                       ELSE IF Takes(m) THEN "pending" ELSE "error"]
<1>1. /\ Dispatch(p, "getCredentialsMetadata", reached, gone)
      /\ metadata' = [metadata EXCEPT ![p] = knows]
      /\ IF absent = {} THEN Show(p, ms)
         ELSE /\ phase' = [phase EXCEPT ![p] = "failed"]
              /\ UNCHANGED <<entries, window, chosen>>
  BY DEF AskForMetadata
<1>2. \A i \in DOMAIN ms : ms[i] \in Managers
  BY Elements
<1>3. reached \in SUBSET Managers /\ gone \in SUBSET Managers
  BY <1>2
<1>4. absent # {} => \E m \in Managers : m \in gone
  BY <1>2
<1>5. metadata \in [Pages -> [Managers -> Outcome]]
  BY DEF SelectionTypeOK
<1>6. knows \in [Managers -> Outcome]
  BY OutcomesAreEnough
<1>7. \A m \in reached : Takes(m) => m \in Managers /\ knows[m] = "pending"
  BY <1>3
<1> HIDE DEF absent, reached, gone, knows
<1>8. /\ metadata' \in [Pages -> [Managers -> Outcome]]
      /\ metadata'[p] = knows /\ \A q \in Pages \ {p} : metadata'[q] = metadata[q]
  BY <1>1, <1>5, <1>6
<1>9. /\ serving' \in [Managers -> ManagerRequest \union {Nobody}]
      /\ inFlight' \subseteq ManagerRequest
      /\ \A m \in Managers : serving'[m] # Nobody => serving'[m] \in inFlight' /\ serving'[m].manager = m
      /\ refusals' \subseteq Pages \X Managers
      /\ refusals \subseteq refusals'
      /\ \A m \in gone : <<p, m>> \in refusals'
      /\ \A r \in inFlight' : \/ r \in inFlight
                              \/ r.page = p /\ r.manager \in reached /\ Takes(r.manager)
  BY <1>1, <1>3, DispatchReaches
<1>10. \A r \in inFlight' :
         \/ r \in inFlight
         \/ r.page = p /\ r.manager \in Managers /\ metadata'[p][r.manager] = "pending"
  BY <1>7, <1>8, <1>9
<1>11. Shown(p, ms) \/ NotShown(p, ms)
  <2>1. CASE absent # {}
    BY <1>1, <1>4, <1>9, <2>1 DEF NotShown
  <2>2. CASE absent = {} /\ ms = <<>>
    BY <1>1, <2>2 DEF Show, NotShown
  <2>3. CASE absent = {} /\ ms # <<>>
    <3>1. button \in BOOLEAN
      BY DEF SelectionTypeOK
    <3> QED  BY <1>1, <2>3, <3>1 DEF Show, Shown
  <2> QED  BY <2>1, <2>2, <2>3
<1> QED  BY <1>8, <1>9, <1>10, <1>11

\* The prompt of p, made from a collection: what holds of prompts goes on to hold.
LEMMA PromptKeeps ==
  ASSUME Inv, NEW p \in Pages, phase[p] \in {"idle", "asking"},
         NEW ms \in Seq(Managers), AskForMetadata(p, ms),
         Wanted[p] # <<>> => \A m \in Managers : Contains(ms, m) => IsWanted(p, m)
  PROVE  /\ AnswersAreAwaited' /\ EntriesAreWanted' /\ BoxIsOwned' /\ ChosenWasSelectable'
         /\ phase' \in [Pages -> {"idle", "asking", "open", "chosen", "aborted", "failed"}]
         /\ entries' \in [Pages -> Seq(Managers)]
         /\ front' \in Pages /\ owner' \in Pages \union {Nobody}
         /\ checked' \in Managers \union {Nobody} /\ button' \in BOOLEAN
         /\ chosen' \in [Pages -> Managers \union {Nobody}]
         /\ refilled' \subseteq Pages
<1>1. SelectionTypeOK
  BY DEF Inv
<1>2. /\ metadata' \in [Pages -> [Managers -> Outcome]]
      /\ \A q \in Pages \ {p} : metadata'[q] = metadata[q]
      /\ \A r \in inFlight' :
           \/ r \in inFlight
           \/ r.page = p /\ r.manager \in Managers /\ metadata'[p][r.manager] = "pending"
      /\ inFlight' \subseteq ManagerRequest
      /\ Shown(p, ms) \/ NotShown(p, ms)
  BY <1>1, AskingForMetadata
<1>3. /\ phase \in [Pages -> {"idle", "asking", "open", "chosen", "aborted", "failed"}]
      /\ entries \in [Pages -> Seq(Managers)] /\ chosen \in [Pages -> Managers \union {Nobody}]
      /\ front \in Pages /\ owner \in Pages \union {Nobody}
      /\ checked \in Managers \union {Nobody} /\ button \in BOOLEAN
      /\ refilled \subseteq Pages
  BY <1>1 DEF SelectionTypeOK
<1>4. /\ \A q \in Pages \ {p} : phase'[q] = phase[q] /\ entries'[q] = entries[q]
      /\ phase'[p] \in {"open", "failed"}
      /\ phase'[p] = "open" => entries'[p] = ms
      /\ phase'[p] = "failed" => entries'[p] = entries[p]
      /\ chosen' = chosen
  BY <1>2, <1>3 DEF Shown, NotShown
<1>5. AnswersAreAwaited'
  <2> SUFFICES ASSUME NEW r \in inFlight', r.method = "getCredentialsMetadata"
               PROVE  metadata'[r.page][r.manager] = "pending" /\ phase'[r.page] \notin {"idle", "asking"}
    BY DEF AnswersAreAwaited
  <2>1. r.page \in Pages
    BY <1>2 DEF ManagerRequest
  <2>2. CASE r \in inFlight
    <3>1. metadata[r.page][r.manager] = "pending" /\ phase[r.page] \notin {"idle", "asking"}
      BY <2>2 DEF Inv, AnswersAreAwaited
    <3> QED  BY <1>2, <1>4, <2>1, <3>1
  <2>3. CASE r \notin inFlight
    BY <1>2, <1>4, <2>3
  <2> QED  BY <2>2, <2>3
<1>6. EntriesAreWanted'
  <2>1. EntriesAreWanted
    BY DEF Inv
  <2> SUFFICES ASSUME NEW q \in Pages, NEW m \in Managers, Wanted[q] # <<>>, Contains(entries'[q], m)
               PROVE  IsWanted(q, m)
    BY DEF EntriesAreWanted
  <2> QED  BY <1>4, <2>1 DEF EntriesAreWanted
<1>7. ASSUME NEW q \in Pages \ {p}, NEW m, Selectable(q, m)
      PROVE  Selectable(q, m)'
  BY <1>2, <1>4, <1>7 DEF Selectable
<1>8. BoxIsOwned'
  <2> SUFFICES ASSUME NEW q \in Pages, phase'[q] = "open", q \notin refilled'
               PROVE  owner' = q /\ Selectable(q, checked)'
    BY DEF BoxIsOwned, IsOpen
  <2>1. CASE q = p
    <3>1. Shown(p, ms)
      BY <1>2, <1>3, <2>1 DEF NotShown
    <3>2. ms # <<>> /\ checked' = Head(ms) /\ owner' = p /\ entries'[p] = ms
      BY <1>3, <3>1 DEF Shown
    <3>3. Contains(ms, Head(ms))
      BY <3>2, Elements
    <3> QED  BY <2>1, <3>2, <3>3 DEF Selectable
  <2>2. CASE q # p
    <3>1. phase[q] = "open"
      BY <1>4, <2>2
    <3>2. NotShown(p, ms)
      BY <1>2, <2>2, <3>1 DEF Shown, IsOpen
    <3>3. owner' = owner /\ checked' = checked /\ refilled' = refilled
      BY <3>2 DEF NotShown, window
    <3>4. owner = q /\ Selectable(q, checked)
      BY <3>1, <3>3 DEF Inv, BoxIsOwned, IsOpen
    <3>5. Selectable(q, checked)'
      BY <1>2, <1>4, <2>2, <3>3, <3>4 DEF Selectable
    <3> QED  BY <3>3, <3>4, <3>5
  <2> QED  BY <2>1, <2>2
<1>9. ChosenWasSelectable'
  <2> SUFFICES ASSUME NEW q \in Pages, phase'[q] = "chosen", q \notin refilled'
               PROVE  Selectable(q, chosen[q])'
    BY DEF ChosenWasSelectable
  <2>1. q # p /\ phase[q] = "chosen" /\ q \notin refilled
    BY <1>2, <1>4 DEF Shown, NotShown, window
  <2>2. Selectable(q, chosen[q])
    BY <2>1 DEF Inv, ChosenWasSelectable
  <2> QED  BY <1>2, <1>4, <2>1, <2>2 DEF Selectable
<1>10. ms # <<>> => Head(ms) \in Managers
  BY Elements
<1>11. CASE Shown(p, ms)
  <2>1. owner' \in Pages \union {Nobody} /\ checked' \in Managers \union {Nobody}
    BY <1>10, <1>11 DEF Shown
  <2>2. refilled' \subseteq Pages
    BY <1>3, <1>11 DEF Shown
  <2> QED  BY <1>3, <1>5, <1>6, <1>8, <1>9, <1>11, <2>1, <2>2 DEF Shown
<1>12. CASE NotShown(p, ms)
  BY <1>3, <1>5, <1>6, <1>8, <1>9, <1>12 DEF NotShown, window
<1> QED  BY <1>2, <1>11, <1>12

-----------------------------------------------------------------------------
(***************************************************************************)
(* The steps of the page                                                   *)
(***************************************************************************)
LEMMA CollectInv ==
  ASSUME Inv, NEW p \in Pages, Collect(p)
  PROVE  Inv'
<1>1. SelectionTypeOK
  BY DEF Inv
<1>2. /\ phase[p] = "idle" /\ polled' = [polled EXCEPT ![p] = managers]
      /\ UNCHANGED <<managers, erasures>>
  BY DEF Collect
<1>3. /\ managers \in Seq(Managers) /\ polled \in [Pages -> Seq(Managers)]
      /\ key \in [Pages -> [Managers -> Outcome]] /\ erasures \in 0 .. MaxErasures
      /\ phase \in [Pages -> {"idle", "asking", "open", "chosen", "aborted", "failed"}]
  BY <1>1 DEF SelectionTypeOK
<1>4. /\ polled' \in [Pages -> Seq(Managers)] /\ polled'[p] = managers
      /\ \A q \in Pages \ {p} : polled'[q] = polled[q]
  BY <1>2, <1>3
<1>5. CASE Wanted[p] = <<>>
  <2>1. AskForMetadata(p, managers) /\ key' = key
    BY <1>5 DEF Collect
  <2>2. /\ AnswersAreAwaited' /\ EntriesAreWanted' /\ BoxIsOwned' /\ ChosenWasSelectable'
        /\ phase' \in [Pages -> {"idle", "asking", "open", "chosen", "aborted", "failed"}]
        /\ entries' \in [Pages -> Seq(Managers)]
        /\ front' \in Pages /\ owner' \in Pages \union {Nobody}
        /\ checked' \in Managers \union {Nobody} /\ button' \in BOOLEAN
        /\ chosen' \in [Pages -> Managers \union {Nobody}]
        /\ refilled' \subseteq Pages
    BY <1>2, <1>3, <1>5, <2>1, PromptKeeps
  <2>3. /\ serving' \in [Managers -> ManagerRequest \union {Nobody}]
        /\ inFlight' \subseteq ManagerRequest
        /\ \A m \in Managers : serving'[m] # Nobody => serving'[m] \in inFlight' /\ serving'[m].manager = m
        /\ refusals' \subseteq Pages \X Managers
        /\ refusals \subseteq refusals'
        /\ metadata' \in [Pages -> [Managers -> Outcome]]
        /\ Shown(p, managers) \/ NotShown(p, managers)
    BY <1>1, <1>3, <2>1, AskingForMetadata
  <2>4. SelectionTypeOK'
    BY <1>2, <1>3, <1>4, <2>1, <2>2, <2>3 DEF SelectionTypeOK
  <2>5. /\ \A q \in Pages \ {p} : phase'[q] = phase[q] /\ entries'[q] = entries[q]
        /\ phase'[p] \in {"open", "failed"}
    BY <1>1, <1>3, <2>3 DEF Shown, NotShown, SelectionTypeOK
  <2>6. KeysAreTrue'
    BY <2>1 DEF Inv, KeysAreTrue, IsWanted
  <2>7. RefusedForAReason'
    BY <1>4, <2>1, <2>3, <2>5 DEF Inv, RefusedForAReason, IsWanted
  <2>8. LeftOutForAReason'
    <3> SUFFICES ASSUME NEW q \in Pages, NEW m \in Managers,
                        phase'[q] \in {"open", "chosen", "aborted", "failed"},
                        Contains(polled'[q], m), SigningKey[m] \in ToSet(Wanted[q])
                 PROVE  \/ Contains(entries'[q], m) \/ <<q, m>> \in refusals'
                        \/ phase'[q] = "failed" /\ \E n \in Managers : <<q, n>> \in refusals'
      BY DEF LeftOutForAReason
    <3>1. q # p
      BY <1>5 DEF ToSet
    <3> QED  BY <1>4, <2>3, <2>5, <3>1 DEF Inv, LeftOutForAReason
  <2> QED  BY <2>2, <2>4, <2>6, <2>7, <2>8 DEF Inv
<1>6. CASE Wanted[p] # <<>>
  <2> DEFINE knows == [m \in Managers |->
                   IF ~Registered(m) THEN "none" ELSE IF Takes(m) THEN "pending" ELSE "error"]
  <2>1. /\ Dispatch(p, "getSigningKey", ToSet(managers), {})
        /\ key' = [key EXCEPT ![p] = knows]
        /\ phase' = [phase EXCEPT ![p] = "asking"]
        /\ UNCHANGED <<metadata, entries, window, chosen>>
    BY <1>6 DEF Collect
  <2>2. ToSet(managers) \in SUBSET Managers /\ \A m : Registered(m) <=> m \in ToSet(managers)
    BY <1>3, Elements DEF Registered
  <2>3. /\ serving' \in [Managers -> ManagerRequest \union {Nobody}]
        /\ inFlight' \subseteq ManagerRequest
        /\ \A m \in Managers : serving'[m] # Nobody => serving'[m] \in inFlight' /\ serving'[m].manager = m
        /\ refusals' \subseteq Pages \X Managers
        /\ refusals \subseteq refusals'
        /\ \A m \in ToSet(managers) : Takes(m) \/ <<p, m>> \in refusals'
        /\ \A r \in inFlight' : r \in inFlight \/ r.method = "getSigningKey"
    BY <1>1, <2>1, <2>2, DispatchReaches
  <2>4. /\ knows \in [Managers -> Outcome]
        /\ \A m \in Managers : knows[m] # "ok"
        /\ \A m \in Managers : Registered(m) => knows[m] = "pending" \/ ~ Takes(m)
    BY OutcomesAreEnough
  <2> HIDE DEF knows
  <2>5. /\ key' \in [Pages -> [Managers -> Outcome]] /\ key'[p] = knows
        /\ \A q \in Pages \ {p} : key'[q] = key[q]
    BY <1>3, <2>1, <2>4
  <2>6. /\ phase' \in [Pages -> {"idle", "asking", "open", "chosen", "aborted", "failed"}]
        /\ phase'[p] = "asking" /\ \A q \in Pages \ {p} : phase'[q] = phase[q]
    BY <1>3, <2>1
  <2>7. SelectionTypeOK'
    BY <1>1, <1>2, <1>3, <1>4, <2>1, <2>3, <2>5, <2>6 DEF SelectionTypeOK, window
  <2>8. AnswersAreAwaited'
    <3> SUFFICES ASSUME NEW r \in inFlight', r.method = "getCredentialsMetadata"
                 PROVE  metadata'[r.page][r.manager] = "pending" /\ phase'[r.page] \notin {"idle", "asking"}
      BY DEF AnswersAreAwaited
    <3>1. r \in inFlight
      BY <2>3
    <3>2. metadata[r.page][r.manager] = "pending" /\ phase[r.page] \notin {"idle", "asking"}
      BY <3>1 DEF Inv, AnswersAreAwaited
    <3>3. r.page \in Pages
      BY <2>3 DEF ManagerRequest
    <3> QED  BY <1>2, <2>1, <2>6, <3>2, <3>3
  <2>9. KeysAreTrue'
    BY <2>4, <2>5 DEF Inv, KeysAreTrue, IsWanted
  <2>10. RefusedForAReason'
    <3> SUFFICES ASSUME NEW q \in Pages, NEW m \in Managers,
                        phase'[q] = "asking", Contains(polled'[q], m), IsWanted(q, m)
                 PROVE  key'[q][m] \in {"pending", "ok"} \/ <<q, m>> \in refusals'
      BY DEF RefusedForAReason, IsWanted
    <3>1. CASE q = p
      BY <1>4, <2>2, <2>3, <2>4, <2>5, <3>1 DEF Registered
    <3>2. CASE q # p
      BY <1>4, <2>3, <2>5, <2>6, <3>2 DEF Inv, RefusedForAReason
    <3> QED  BY <3>1, <3>2
  <2>11. EntriesAreWanted'
    BY <2>1 DEF Inv, EntriesAreWanted, IsWanted
  <2>12. BoxIsOwned' /\ ChosenWasSelectable'
    <3>1. \A q \in Pages : phase'[q] \in {"open", "chosen"} => phase'[q] = phase[q]
      BY <2>6
    <3>2. UNCHANGED <<metadata, entries, owner, checked, refilled, chosen>>
      BY <2>1 DEF window
    <3> QED  BY <3>1, <3>2 DEF Inv, BoxIsOwned, ChosenWasSelectable, Selectable, IsOpen
  <2>13. LeftOutForAReason'
    <3> SUFFICES ASSUME NEW q \in Pages, NEW m \in Managers,
                        phase'[q] \in {"open", "chosen", "aborted", "failed"},
                        Contains(polled'[q], m), SigningKey[m] \in ToSet(Wanted[q])
                 PROVE  \/ Contains(entries'[q], m) \/ <<q, m>> \in refusals'
                        \/ phase'[q] = "failed" /\ \E n \in Managers : <<q, n>> \in refusals'
      BY DEF LeftOutForAReason
    <3>1. q # p
      BY <2>6
    <3> QED  BY <1>4, <2>1, <2>3, <2>6, <3>1 DEF Inv, LeftOutForAReason
  <2> QED  BY <2>7, <2>8, <2>9, <2>10, <2>11, <2>12, <2>13 DEF Inv
<1> QED  BY <1>5, <1>6

LEMMA FilterInv ==
  ASSUME Inv, NEW p \in Pages, Filter(p)
  PROVE  Inv'
<1> DEFINE ms == Kept(polled[p], {m \in Managers : key[p][m] = "ok"})
<1>1. SelectionTypeOK
  BY DEF Inv
<1>2. /\ phase[p] = "asking" /\ KeysSettled(p) /\ AskForMetadata(p, ms)
      /\ UNCHANGED <<managers, polled, key, erasures>>
  BY DEF Filter
<1>3. /\ polled \in [Pages -> Seq(Managers)]
      /\ phase \in [Pages -> {"idle", "asking", "open", "chosen", "aborted", "failed"}]
      /\ entries \in [Pages -> Seq(Managers)]
  BY <1>1 DEF SelectionTypeOK
<1>4. polled[p] \in Seq(Managers)
  BY <1>3
<1>5. /\ ms \in Seq(Managers)
      /\ \A m : Contains(ms, m) <=> Contains(polled[p], m) /\ m \in {n \in Managers : key[p][n] = "ok"}
  BY <1>4, KeptIsFiltered
<1> HIDE DEF ms
<1>6. \A m \in Managers : Contains(ms, m) => IsWanted(p, m)
  BY <1>5 DEF Inv, KeysAreTrue
<1>7. /\ AnswersAreAwaited' /\ EntriesAreWanted' /\ BoxIsOwned' /\ ChosenWasSelectable'
      /\ phase' \in [Pages -> {"idle", "asking", "open", "chosen", "aborted", "failed"}]
      /\ entries' \in [Pages -> Seq(Managers)]
      /\ front' \in Pages /\ owner' \in Pages \union {Nobody}
      /\ checked' \in Managers \union {Nobody} /\ button' \in BOOLEAN
      /\ chosen' \in [Pages -> Managers \union {Nobody}]
      /\ refilled' \subseteq Pages
  BY <1>2, <1>5, <1>6, PromptKeeps
<1>8. /\ serving' \in [Managers -> ManagerRequest \union {Nobody}]
      /\ inFlight' \subseteq ManagerRequest
      /\ \A m \in Managers : serving'[m] # Nobody => serving'[m] \in inFlight' /\ serving'[m].manager = m
      /\ refusals' \subseteq Pages \X Managers
      /\ refusals \subseteq refusals'
      /\ metadata' \in [Pages -> [Managers -> Outcome]]
      /\ Shown(p, ms) \/ NotShown(p, ms)
  BY <1>1, <1>2, <1>5, AskingForMetadata
<1>9. SelectionTypeOK'
  BY <1>1, <1>2, <1>7, <1>8 DEF SelectionTypeOK
<1>10. /\ \A q \in Pages \ {p} : phase'[q] = phase[q] /\ entries'[q] = entries[q]
       /\ phase'[p] \in {"open", "failed"}
       /\ phase'[p] = "open" => entries'[p] = ms
       /\ phase'[p] = "failed" => ms = <<>> \/ \E n \in Managers : <<p, n>> \in refusals'
  BY <1>3, <1>8 DEF Shown, NotShown
<1>11. KeysAreTrue'
  BY <1>2 DEF Inv, KeysAreTrue, IsWanted
<1>12. RefusedForAReason'
  BY <1>2, <1>8, <1>10 DEF Inv, RefusedForAReason, IsWanted
<1>13. LeftOutForAReason'
  <2> SUFFICES ASSUME NEW q \in Pages, NEW m \in Managers,
                      phase'[q] \in {"open", "chosen", "aborted", "failed"},
                      Contains(polled'[q], m), SigningKey[m] \in ToSet(Wanted[q])
               PROVE  \/ Contains(entries'[q], m) \/ <<q, m>> \in refusals'
                      \/ phase'[q] = "failed" /\ \E n \in Managers : <<q, n>> \in refusals'
    BY DEF LeftOutForAReason
  <2>1. CASE q # p
    BY <1>2, <1>8, <1>10, <2>1 DEF Inv, LeftOutForAReason
  <2>2. CASE q = p
    <3>1. IsWanted(p, m)
      BY <2>2, SelectionAssumption, Elements DEF IsWanted
    <3>2. key[p][m] = "ok" \/ <<p, m>> \in refusals
      BY <1>2, <2>2, <3>1 DEF Inv, RefusedForAReason, KeysSettled
    <3>3. CASE key[p][m] = "ok"
      <4>1. Contains(ms, m)
        BY <1>2, <1>5, <2>2, <3>3
      <4>2. ms # <<>>
        BY <4>1 DEF Contains
      <4> QED  BY <1>10, <2>2, <4>1, <4>2
    <3> QED  BY <1>8, <2>2, <3>2, <3>3
  <2> QED  BY <2>1, <2>2
<1> QED  BY <1>7, <1>9, <1>11, <1>12, <1>13 DEF Inv

-----------------------------------------------------------------------------
(***************************************************************************)
(* The steps of the managers                                               *)
(***************************************************************************)
\* The request r is over.
LEMMA EndedKeeps ==
  ASSUME SelectionTypeOK, NEW r \in inFlight, Ended(r)
  PROVE  /\ serving' \in [Managers -> ManagerRequest \union {Nobody}]
         /\ inFlight' = inFlight \ {r} /\ inFlight' \subseteq ManagerRequest
         /\ \A m \in Managers : serving'[m] # Nobody => serving'[m] \in inFlight' /\ serving'[m].manager = m
         /\ r.manager \in Managers /\ r.page \in Pages
<1>1. /\ serving \in [Managers -> ManagerRequest \union {Nobody}] /\ inFlight \subseteq ManagerRequest
      /\ \A m \in Managers : serving[m] # Nobody => serving[m] \in inFlight /\ serving[m].manager = m
  BY DEF SelectionTypeOK
<1>2. r.manager \in Managers /\ r.page \in Pages
  BY <1>1 DEF ManagerRequest
<1>3. /\ inFlight' = inFlight \ {r}
      /\ serving' = [serving EXCEPT ![r.manager] = IF serving[r.manager] = r THEN Nobody ELSE serving[r.manager]]
  BY DEF Ended
<1>4. /\ \A m \in Managers \ {r.manager} : serving'[m] = serving[m]
      /\ serving'[r.manager] = IF serving[r.manager] = r THEN Nobody ELSE serving[r.manager]
  BY <1>1, <1>2, <1>3
<1>5. serving' \in [Managers -> ManagerRequest \union {Nobody}]
  BY <1>1, <1>2, <1>3
<1>6. ASSUME NEW m \in Managers, serving'[m] # Nobody
      PROVE  serving'[m] \in inFlight' /\ serving'[m].manager = m
  <2>1. serving'[m] = serving[m] /\ serving[m] # r
    BY <1>1, <1>4, <1>6
  <2> QED  BY <1>1, <1>3, <1>6, <2>1
<1> QED  BY <1>1, <1>2, <1>3, <1>5, <1>6

LEMMA AnswerSigningKeyInv ==
  ASSUME Inv, NEW r \in ManagerRequest, AnswerSigningKey(r)
  PROVE  Inv'
<1>1. SelectionTypeOK
  BY DEF Inv
<1>2. PICK failing \in BOOLEAN :
        /\ key' = [key EXCEPT ![r.page][r.manager] =
               IF failing THEN "error" ELSE IF IsWanted(r.page, r.manager) THEN "ok" ELSE "no"]
        /\ refusals' = IF failing THEN refusals \union {<<r.page, r.manager>>} ELSE refusals
  BY DEF AnswerSigningKey
<1>3. /\ r \in inFlight /\ Ended(r)
      /\ UNCHANGED <<managers, polled, metadata, erasures, window, prompts>>
  BY DEF AnswerSigningKey
<1>4. /\ serving' \in [Managers -> ManagerRequest \union {Nobody}]
      /\ inFlight' = inFlight \ {r} /\ inFlight' \subseteq ManagerRequest
      /\ \A m \in Managers : serving'[m] # Nobody => serving'[m] \in inFlight' /\ serving'[m].manager = m
      /\ r.manager \in Managers /\ r.page \in Pages
  BY <1>1, <1>3, EndedKeeps
<1> DEFINE answer == IF failing THEN "error"
                     ELSE IF IsWanted(r.page, r.manager) THEN "ok" ELSE "no"
<1>5. key \in [Pages -> [Managers -> Outcome]] /\ refusals \subseteq Pages \X Managers
  BY <1>1 DEF SelectionTypeOK
<1>6. key' = [key EXCEPT ![r.page] = [key[r.page] EXCEPT ![r.manager] = answer]]
  BY <1>2
<1>7. /\ answer \in Outcome
      /\ answer = "ok" => IsWanted(r.page, r.manager)
      /\ answer # "error" /\ IsWanted(r.page, r.manager) => answer = "ok"
      /\ answer = "error" => <<r.page, r.manager>> \in refusals'
      /\ refusals \subseteq refusals' /\ refusals' \subseteq Pages \X Managers
  BY <1>2, <1>4, <1>5, OutcomesAreEnough
<1> HIDE DEF answer
<1>8. /\ key' \in [Pages -> [Managers -> Outcome]]
      /\ \A p \in Pages, m \in Managers :
           key'[p][m] = IF p = r.page /\ m = r.manager THEN answer ELSE key[p][m]
  BY <1>4, <1>5, <1>6, <1>7
<1>9. SelectionTypeOK'
  BY <1>1, <1>3, <1>4, <1>7, <1>8 DEF SelectionTypeOK, window, prompts
<1>10. AnswersAreAwaited'
  BY <1>3, <1>4 DEF Inv, AnswersAreAwaited, prompts
<1>11. KeysAreTrue'
  BY <1>7, <1>8 DEF Inv, KeysAreTrue, IsWanted
<1>12. RefusedForAReason'
  BY <1>3, <1>7, <1>8 DEF Inv, RefusedForAReason, IsWanted, prompts
<1>13. EntriesAreWanted'
  BY <1>3 DEF Inv, EntriesAreWanted, IsWanted, prompts
<1>14. BoxIsOwned' /\ ChosenWasSelectable'
  BY <1>3 DEF Inv, BoxIsOwned, ChosenWasSelectable, Selectable, IsOpen, prompts, window
<1>15. LeftOutForAReason'
  BY <1>3, <1>7 DEF Inv, LeftOutForAReason, prompts
<1> QED  BY <1>9, <1>10, <1>11, <1>12, <1>13, <1>14, <1>15 DEF Inv

LEMMA AnswerCredentialsMetadataInv ==
  ASSUME Inv, NEW r \in ManagerRequest, AnswerCredentialsMetadata(r)
  PROVE  Inv'
<1>1. SelectionTypeOK
  BY DEF Inv
<1>2. PICK outcome \in {"ok", "error"} :
        metadata' = [metadata EXCEPT ![r.page][r.manager] = outcome]
  BY DEF AnswerCredentialsMetadata
<1>3. /\ r \in inFlight /\ r.method = "getCredentialsMetadata" /\ Ended(r)
      /\ IF entries[r.page] = <<>> THEN UNCHANGED button ELSE UpdateSelectButton(r.page)
      /\ UNCHANGED <<managers, polled, key, refusals, erasures>>
      /\ UNCHANGED <<front, owner, checked, refilled, prompts>>
  BY DEF AnswerCredentialsMetadata
<1>4. /\ serving' \in [Managers -> ManagerRequest \union {Nobody}]
      /\ inFlight' = inFlight \ {r} /\ inFlight' \subseteq ManagerRequest
      /\ \A m \in Managers : serving'[m] # Nobody => serving'[m] \in inFlight' /\ serving'[m].manager = m
      /\ r.manager \in Managers /\ r.page \in Pages
  BY <1>1, <1>3, EndedKeeps
<1>5. metadata \in [Pages -> [Managers -> Outcome]] /\ outcome \in Outcome
  BY <1>1, OutcomesAreEnough DEF SelectionTypeOK
<1>6. metadata' = [metadata EXCEPT ![r.page] = [metadata[r.page] EXCEPT ![r.manager] = outcome]]
  BY <1>2
<1>7. /\ metadata' \in [Pages -> [Managers -> Outcome]]
      /\ \A p \in Pages, m \in Managers :
           metadata'[p][m] = IF p = r.page /\ m = r.manager THEN outcome ELSE metadata[p][m]
  BY <1>4, <1>5, <1>6
<1>8. button' \in BOOLEAN
  BY <1>1, <1>3 DEF UpdateSelectButton, AtLeastOneManagerCanBeSelected, SelectionTypeOK
<1>9. SelectionTypeOK'
  BY <1>1, <1>3, <1>4, <1>7, <1>8 DEF SelectionTypeOK, prompts
\* What has answered is not asked a second time, so that no answer is lost.
<1>10. \A p \in Pages, m \in Managers : metadata[p][m] = "ok" => metadata'[p][m] = "ok"
  <2>1. metadata[r.page][r.manager] = "pending"
    BY <1>3 DEF Inv, AnswersAreAwaited
  <2> QED  BY <1>7, <2>1
<1>11. AnswersAreAwaited'
  <2> SUFFICES ASSUME NEW a \in inFlight', a.method = "getCredentialsMetadata"
               PROVE  metadata'[a.page][a.manager] = "pending" /\ phase'[a.page] \notin {"idle", "asking"}
    BY DEF AnswersAreAwaited
  <2>1. a \in inFlight /\ a # r /\ a \in ManagerRequest /\ r \in ManagerRequest
    BY <1>4
  <2>2. a.page # r.page \/ a.manager # r.manager
    BY <1>3, <2>1 DEF ManagerRequest
  <2>3. metadata[a.page][a.manager] = "pending" /\ phase[a.page] \notin {"idle", "asking"}
    BY <2>1 DEF Inv, AnswersAreAwaited
  <2>4. a.page \in Pages /\ a.manager \in Managers
    BY <2>1 DEF ManagerRequest
  <2> QED  BY <1>3, <1>7, <2>2, <2>3, <2>4 DEF prompts
<1>12. KeysAreTrue' /\ RefusedForAReason' /\ EntriesAreWanted'
  BY <1>3 DEF Inv, KeysAreTrue, RefusedForAReason, EntriesAreWanted, IsWanted, prompts
<1>13. ASSUME NEW p \in Pages, NEW m \in Managers, Selectable(p, m)
       PROVE  Contains(entries'[p], m) /\ (m = Head(entries'[p]) \/ metadata'[p][m] = "ok")
  BY <1>3, <1>10, <1>13 DEF Selectable, prompts
<1>14. BoxIsOwned' /\ ChosenWasSelectable'
  <2>1. \A p \in Pages : \A m : Contains(entries[p], m) => m \in Managers
    BY <1>1, Elements DEF SelectionTypeOK
  <2>2. /\ UNCHANGED <<phase, chosen, owner, checked, refilled>>
        /\ BoxIsOwned /\ ChosenWasSelectable
    BY <1>3 DEF prompts, Inv
  <2>3. \A p \in Pages : \A m : Selectable(p, m) =>
          Contains(entries'[p], m) /\ (m = Head(entries'[p]) \/ metadata'[p][m] = "ok")
    BY <1>13, <2>1 DEF Selectable
  <2> QED  BY <2>2, <2>3 DEF BoxIsOwned, ChosenWasSelectable, Selectable, IsOpen
<1>15. LeftOutForAReason'
  BY <1>3 DEF Inv, LeftOutForAReason, prompts
<1> QED  BY <1>9, <1>11, <1>12, <1>14, <1>15 DEF Inv

LEMMA EreaseManagerInv ==
  ASSUME Inv, NEW m \in Managers, EreaseManager(m)
  PROVE  Inv'
<1>1. SelectionTypeOK
  BY DEF Inv
<1>2. /\ managers' = Kept(managers, Managers \ {m}) /\ serving' = [serving EXCEPT ![m] = Nobody]
      /\ erasures' = erasures + 1 /\ erasures < MaxErasures
      /\ UNCHANGED <<inFlight, polled, key, metadata, refusals, window, prompts>>
  BY DEF EreaseManager
<1>3. managers' \in Seq(Managers)
  BY <1>1, <1>2, KeptIsFiltered DEF SelectionTypeOK
<1>4. /\ serving' \in [Managers -> ManagerRequest \union {Nobody}]
      /\ \A n \in Managers : serving'[n] # Nobody => serving'[n] \in inFlight' /\ serving'[n].manager = n
  BY <1>1, <1>2 DEF SelectionTypeOK
<1>5. erasures' \in 0 .. MaxErasures
  BY <1>1, <1>2, SelectionAssumption DEF SelectionTypeOK
<1>6. SelectionTypeOK'
  BY <1>1, <1>2, <1>3, <1>4, <1>5 DEF SelectionTypeOK, window, prompts
<1>7. AnswersAreAwaited' /\ KeysAreTrue' /\ RefusedForAReason' /\ EntriesAreWanted'
  BY <1>2 DEF Inv, AnswersAreAwaited, KeysAreTrue, RefusedForAReason, EntriesAreWanted, IsWanted, prompts
<1>8. BoxIsOwned' /\ ChosenWasSelectable' /\ LeftOutForAReason'
  BY <1>2 DEF Inv, BoxIsOwned, ChosenWasSelectable, LeftOutForAReason, Selectable, IsOpen, window, prompts
<1> QED  BY <1>6, <1>7, <1>8 DEF Inv

LEMMA RegisterManagerInv ==
  ASSUME Inv, NEW m \in Managers, RegisterManager(m)
  PROVE  Inv'
<1>1. /\ managers' = Append(managers, m)
      /\ UNCHANGED <<serving, inFlight, polled, key, metadata, refusals, erasures, window, prompts>>
  BY DEF RegisterManager
<1>2. managers' \in Seq(Managers)
  BY <1>1, AppendProperties DEF Inv, SelectionTypeOK
<1>3. SelectionTypeOK'
  BY <1>1, <1>2 DEF Inv, SelectionTypeOK, window, prompts
<1>4. AnswersAreAwaited' /\ KeysAreTrue' /\ RefusedForAReason' /\ EntriesAreWanted'
  BY <1>1 DEF Inv, AnswersAreAwaited, KeysAreTrue, RefusedForAReason, EntriesAreWanted, IsWanted, prompts
<1>5. BoxIsOwned' /\ ChosenWasSelectable' /\ LeftOutForAReason'
  BY <1>1 DEF Inv, BoxIsOwned, ChosenWasSelectable, LeftOutForAReason, Selectable, IsOpen, window, prompts
<1> QED  BY <1>3, <1>4, <1>5 DEF Inv

-----------------------------------------------------------------------------
(***************************************************************************)
(* The steps of the user                                                   *)
(***************************************************************************)
LEMMA SwitchTabInv ==
  ASSUME Inv, NEW p \in Pages, SwitchTab(p)
  PROVE  Inv'
<1>1. /\ front' = p /\ button' \in BOOLEAN
      /\ UNCHANGED <<agent, owner, checked, refilled, prompts>>
  BY DEF SwitchTab, IsOpen, AtLeastOneManagerCanBeSelected
<1>2. SelectionTypeOK'
  BY <1>1 DEF Inv, SelectionTypeOK, agent, prompts
<1>3. AnswersAreAwaited' /\ KeysAreTrue' /\ RefusedForAReason' /\ EntriesAreWanted'
  BY <1>1 DEF Inv, AnswersAreAwaited, KeysAreTrue, RefusedForAReason, EntriesAreWanted, IsWanted,
              agent, prompts
<1>4. BoxIsOwned' /\ ChosenWasSelectable' /\ LeftOutForAReason'
  BY <1>1 DEF Inv, BoxIsOwned, ChosenWasSelectable, LeftOutForAReason, Selectable, IsOpen, agent, prompts
<1> QED  BY <1>2, <1>3, <1>4 DEF Inv

LEMMA CheckInv ==
  ASSUME Inv, NEW m \in Managers, Check(m)
  PROVE  Inv'
<1>1. /\ owner # Nobody /\ Contains(entries[owner], m) /\ metadata[owner][m] = "ok"
      /\ checked' = m /\ UNCHANGED <<agent, front, owner, button, refilled, prompts>>
  BY DEF Check, IsEnabled
<1>2. SelectionTypeOK'
  BY <1>1 DEF Inv, SelectionTypeOK, agent, prompts
<1>3. AnswersAreAwaited' /\ KeysAreTrue' /\ RefusedForAReason' /\ EntriesAreWanted'
  BY <1>1 DEF Inv, AnswersAreAwaited, KeysAreTrue, RefusedForAReason, EntriesAreWanted, IsWanted,
              agent, prompts
<1>4. BoxIsOwned'
  BY <1>1 DEF Inv, BoxIsOwned, Selectable, IsOpen, agent, prompts
<1>5. ChosenWasSelectable' /\ LeftOutForAReason'
  BY <1>1 DEF Inv, ChosenWasSelectable, LeftOutForAReason, Selectable, agent, prompts
<1> QED  BY <1>2, <1>3, <1>4, <1>5 DEF Inv

LEMMA ClosesInv ==
  ASSUME Inv, NEW p \in Pages, NEW how \in {"chosen", "aborted"}, Closes(p, how),
         chosen' \in [Pages -> Managers \union {Nobody}],
         \A q \in Pages \ {p} : chosen'[q] = chosen[q],
         how = "chosen" => chosen'[p] = checked
  PROVE  Inv'
<1>1. /\ phase[p] = "open" /\ phase' = [phase EXCEPT ![p] = how] /\ button' = FALSE
      /\ UNCHANGED <<agent, front, owner, checked, refilled, entries>>
  BY DEF Closes, IsOpen
<1>2. phase \in [Pages -> {"idle", "asking", "open", "chosen", "aborted", "failed"}]
  BY DEF Inv, SelectionTypeOK
<1>3. /\ phase' \in [Pages -> {"idle", "asking", "open", "chosen", "aborted", "failed"}]
      /\ phase'[p] = how /\ \A q \in Pages \ {p} : phase'[q] = phase[q]
  BY <1>1, <1>2
<1>4. SelectionTypeOK'
  BY <1>1, <1>3 DEF Inv, SelectionTypeOK, agent
<1>5. AnswersAreAwaited'
  <2>1. \A r \in inFlight : r.page \in Pages
    BY DEF Inv, SelectionTypeOK, ManagerRequest
  <2>2. \A q \in Pages : phase'[q] \in {"idle", "asking"} => phase[q] = phase'[q]
    BY <1>3
  <2> QED  BY <1>1, <2>1, <2>2 DEF Inv, AnswersAreAwaited, agent
<1>6. KeysAreTrue' /\ RefusedForAReason' /\ EntriesAreWanted'
  BY <1>1, <1>3 DEF Inv, KeysAreTrue, RefusedForAReason, EntriesAreWanted, IsWanted, agent
<1>7. BoxIsOwned'
  BY <1>1, <1>3 DEF Inv, BoxIsOwned, Selectable, IsOpen, agent
<1>8. ChosenWasSelectable'
  <2> SUFFICES ASSUME NEW q \in Pages, phase'[q] = "chosen", q \notin refilled'
               PROVE  Selectable(q, chosen[q])'
    BY DEF ChosenWasSelectable
  <2>1. UNCHANGED <<entries, metadata, refilled>>
    BY <1>1 DEF agent
  <2>2. CASE q = p
    <3>1. Selectable(p, checked) /\ chosen'[p] = checked
      BY <1>1, <1>3, <2>2 DEF Inv, BoxIsOwned, IsOpen
    <3> QED  BY <2>1, <2>2, <3>1 DEF Selectable
  <2>3. CASE q # p
    <3>1. Selectable(q, chosen[q]) /\ chosen'[q] = chosen[q]
      BY <1>3, <2>1, <2>3 DEF Inv, ChosenWasSelectable
    <3> QED  BY <2>1, <3>1 DEF Selectable
  <2> QED  BY <2>2, <2>3
<1>9. LeftOutForAReason'
  <2> SUFFICES ASSUME NEW q \in Pages, NEW m \in Managers,
                      phase'[q] \in {"open", "chosen", "aborted", "failed"},
                      Contains(polled'[q], m), SigningKey[m] \in ToSet(Wanted[q])
               PROVE  \/ Contains(entries'[q], m) \/ <<q, m>> \in refusals'
                      \/ phase'[q] = "failed" /\ \E n \in Managers : <<q, n>> \in refusals'
    BY DEF LeftOutForAReason
  <2>1. phase[q] \in {"open", "chosen", "aborted", "failed"} /\ (phase[q] = "failed" => phase'[q] = "failed")
    BY <1>1, <1>3
  <2> QED  BY <1>1, <2>1 DEF Inv, LeftOutForAReason, agent
<1> QED  BY <1>4, <1>5, <1>6, <1>7, <1>8, <1>9 DEF Inv

LEMMA SelectInv ==
  ASSUME Inv, NEW p \in Pages, Select(p)
  PROVE  Inv'
<1>1. Closes(p, "chosen") /\ chosen' = [chosen EXCEPT ![p] = checked]
  BY DEF Select
<1>2. /\ chosen' \in [Pages -> Managers \union {Nobody}]
      /\ chosen'[p] = checked /\ \A q \in Pages \ {p} : chosen'[q] = chosen[q]
  BY <1>1 DEF Inv, SelectionTypeOK
<1> QED  BY <1>1, <1>2, ClosesInv

LEMMA CancelInv ==
  ASSUME Inv, NEW p \in Pages, Cancel(p)
  PROVE  Inv'
<1>1. Closes(p, "aborted") /\ chosen' = chosen
  BY DEF Cancel
<1>2. chosen' \in [Pages -> Managers \union {Nobody}]
  BY <1>1 DEF Inv, SelectionTypeOK
<1> QED  BY <1>1, <1>2, ClosesInv

LEMMA NextInv == Inv /\ [SelectionNext]_selectionVars => Inv'
<1> SUFFICES ASSUME Inv, [SelectionNext]_selectionVars PROVE Inv'
  OBVIOUS
<1>1. ASSUME NEW p \in Pages, Collect(p) \/ Filter(p) \/ SwitchTab(p) \/ Select(p) \/ Cancel(p)
      PROVE  Inv'
  BY <1>1, CollectInv, FilterInv, SwitchTabInv, SelectInv, CancelInv
<1>2. ASSUME NEW r \in ManagerRequest, AnswerSigningKey(r) \/ AnswerCredentialsMetadata(r)
      PROVE  Inv'
  BY <1>2, AnswerSigningKeyInv, AnswerCredentialsMetadataInv
<1>3. ASSUME NEW m \in Managers, EreaseManager(m) \/ RegisterManager(m) \/ Check(m)
      PROVE  Inv'
  BY <1>3, EreaseManagerInv, RegisterManagerInv, CheckInv
<1>4. CASE UNCHANGED selectionVars
  <2>1. SelectionTypeOK'
    BY <1>4 DEF Inv, SelectionTypeOK, selectionVars, agent, window, prompts
  <2>2. AnswersAreAwaited' /\ KeysAreTrue' /\ RefusedForAReason' /\ EntriesAreWanted'
    BY <1>4 DEF Inv, AnswersAreAwaited, KeysAreTrue, RefusedForAReason, EntriesAreWanted, IsWanted,
                selectionVars, agent, prompts
  <2>3. BoxIsOwned' /\ ChosenWasSelectable' /\ LeftOutForAReason'
    BY <1>4 DEF Inv, BoxIsOwned, ChosenWasSelectable, LeftOutForAReason, Selectable, IsOpen,
                selectionVars, agent, window, prompts
  <2> QED  BY <2>1, <2>2, <2>3 DEF Inv
<1> QED  BY <1>1, <1>2, <1>3, <1>4 DEF SelectionNext

LEMMA AlwaysInv == SelectionSpec => []Inv
  BY InitInv, NextInv, PTL DEF SelectionSpec

\* A page that did not share its list gets a manager with a key it accepts,
\* and one that has answered or was the first in its list
\* (PromptService.sys.mts:115-132, Agent.sys.mts:31-56).
THEOREM ChoicesAreSound == SelectionSpec => []ChoiceInv
<1>1. Inv => ChoiceInv
  <2> SUFFICES ASSUME Inv PROVE ChoiceInv
    OBVIOUS
  <2>1. ASSUME NEW p \in Pages, phase[p] = "chosen", p \notin refilled
        PROVE  Selectable(p, chosen[p]) /\ chosen[p] \in Managers
    <3>1. Selectable(p, chosen[p])
      BY <2>1 DEF Inv, ChosenWasSelectable
    <3>2. entries[p] \in Seq(Managers)
      BY DEF Inv, SelectionTypeOK
    <3> QED  BY <3>1, <3>2, Elements DEF Selectable
  <2>2. ChosenHasAKey
    <3> SUFFICES ASSUME NEW p \in Pages, phase[p] = "chosen", Wanted[p] # <<>>, p \notin refilled
                 PROVE  SigningKey[chosen[p]] \in ToSet(Wanted[p])
      BY DEF ChosenHasAKey
    <3>1. IsWanted(p, chosen[p])
      BY <2>1 DEF Inv, EntriesAreWanted, Selectable
    <3> QED  BY <3>1, SelectionAssumption, Elements DEF IsWanted
  <2>3. ChosenAnsweredOrFirst
    BY <2>1 DEF ChosenAnsweredOrFirst, Selectable
  <2> QED  BY <2>2, <2>3 DEF ChoiceInv, Inv
<1> QED  BY <1>1, AlwaysInv, PTL

\* A manager that has a wanted key is listed, or was refused or failed when it
\* was asked: nothing else makes one disappear (Agent.sys.mts:38-55).
THEOREM NobodyIsLeftOut == SelectionSpec => []LeftOutForAReason
<1>1. Inv => LeftOutForAReason
  BY DEF Inv
<1> QED  BY <1>1, AlwaysInv, PTL

-----------------------------------------------------------------------------
(***************************************************************************)
(* A session of Secret*.  Fit is inductive: it says what stands behind     *)
(* every record, page and message.  Orderly is inductive together with it, *)
(* and says more of a session in which no request is answered twice.       *)
(***************************************************************************)

Lists(s, r) == \E i \in DOMAIN s.requests : s.requests[i] = r
Marks(s) == s.options \union s.puts
IsPending(r) == handlers[r] # NoHandler

\* What the browser lets through.
AskFits(r) ==
  LET a == asked[r] IN
    /\ a.kind = "approveOperation" <=> r = 1
    /\ a.kind = "getUserAttributes" => r = 2
    /\ IF IsField(a) THEN a.item \in Fields /\ a.slot = 1 ELSE a.item \notin Fields
    /\ a.kind \in Authentication => a.item \in Challenges
    /\ a.kind \notin Authentication /\ ~ IsField(a) => a.item = NoItem
    /\ a.kind = "updateMetadata" => a.slot = 1 /\ r > 2
    /\ a.slot = 2 => HasGot("approveTransitionToAuthOp")
    /\ a.kind \in Authentication \ {"approveChallengeRequest"} =>
          \E q \in 1 .. r - 1 : asked[q].kind = "approveChallengeRequest" /\ asked[q].item = a.item

\* An answer is counted, and only a request whose handler is through has one.
CountsFit(r) ==
  /\ reply[r] = "none" <=> answers[r] = 0
  /\ r > Len(asked) \/ answers[r] > 0 => ~ IsPending(r)
  /\ r > Len(asked) => reply[r] = "none" /\ r \notin assoc

RequestsFit == (\A r \in DOMAIN asked : AskFits(r)) /\ (\A r \in Ids : CountsFit(r))

OperationFits ==
  /\ op # "none" => asked # <<>> /\ ~ IsPending(1) /\ reply[1] = "resolve"
  /\ Len(asked) > 1 => op # "none"
  /\ op # "Authentication" => ~ HasGot("approveTransitionToAuthOp")
  /\ asked # <<>> /\ ~ IsPending(1) => sessions[1].requests # <<>>
  /\ Len(asked) > 1 /\ asked[2].kind = "getUserAttributes" /\ (Len(asked) > 2 \/ op = "Authentication")
        => reply[2] = "resolve"

\* A record, as it is or as it was read, lists requests whose handlers are through;
\* and nothing waits for one that lists none.
Through(r) ==
  /\ r \in DOMAIN asked /\ ~ IsPending(r) /\ asked[r].kind # "updateMetadata"
  /\ r \in assoc => reply[r] = "none"

IsBlank(s) ==
  /\ s.version = 0 /\ Marks(s) = {} /\ ~ s.closed /\ s.messages = {}
  /\ \A c \in Challenges : s.challenges[c] = "none"

RecordFits(s) ==
  /\ \A r \in Ids : Lists(s, r) => Through(r)
  /\ s.requests = <<>> => IsBlank(s)

RecordsFit ==
  /\ \A k \in Slots : RecordFits(sessions[k])
  /\ \A r \in Ids : IsPending(r) => RecordFits(handlers[r])
  /\ page # NoPage => RecordFits(page.seen)

\* The popup is that of the last request that has one.
UrlFits ==
  url # NoUrl =>
    /\ url \in assoc /\ url \in DOMAIN asked /\ asked[url].kind # "updateMetadata"
    /\ \A q \in DOMAIN asked : q > url => asked[q].kind = "updateMetadata"

\* A page answers for a request whose handler is through, its own only once;
\* and the record has the fields the page has seen or what it wrote.
PageFits ==
  page # NoPage =>
    /\ url # NoUrl /\ page.req = url
    /\ page.stage = "written" => ~ page.processed /\ page.answer # 0
    /\ page.stage # "waiting" => page.seen.requests # <<>>
    /\ page.answer # 0 => page.answer \in DOMAIN asked /\ ~ IsPending(page.answer)
    /\ page.answer = page.req => reply[page.req] = "none"
    /\ page.stage # "waiting" /\ IsField(asked[page.req]) =>
          /\ sessions[1].fields \in {page.seen.fields, Entered(asked[page.req])}
          /\ asked[page.req].item \in Marks(sessions[1]) \union torn

\* A request that is shown has its tab until its first answer.
TabsFit ==
  \A r \in assoc : /\ asked[r].kind # "updateMetadata" /\ reply[r] # "resolve"
                   /\ IsPending(r) => reply[r] = "none"

LettersFit ==
  /\ \A m \in mail : m.req \in DOMAIN asked /\ ~ IsPending(m.req)
  /\ \A m \in hidden : m.req \notin assoc
  /\ \A m \in mail : m.how = "resolve" /\ asked[m.req].item \in Fields \ torn => m.value = m.req

\* The web app was told the value of the last request that was granted.
About(r, f) == r \in DOMAIN asked /\ asked[r].item = f
ToldFits(f) ==
  IF told[f] = 0 THEN \A r \in Ids : About(r, f) => reply[r] # "resolve"
  ELSE /\ About(told[f], f) /\ reply[told[f]] = "resolve"
       /\ \A r \in Ids : About(r, f) /\ reply[r] = "resolve" => r <= told[f]

\* What has become of the request whose value heads an entry.
Standing(h) ==
  \/ reply[h] = "resolve"
  \/ reply[h] = "none" /\ ~ IsPending(h) /\ \E m \in mail : m.req = h
  \/ page # NoPage /\ page.req = h /\ page.stage = "written"

\* Nothing that is granted, or may be, is later than the entry's head.
Resolves(r) == reply[r] = "resolve" \/ \E m \in mail : m.req = r /\ m.how = "resolve"

\* A second addition will be refused, and its page does not take it for its own.
IsSpurious(r, f) ==
  /\ \A k \in Slots : ~ Lists(sessions[k], r)
  /\ \A q \in Ids : IsPending(q) => ~ Lists(handlers[q], r)
  /\ page # NoPage => ~ Lists(page.seen, r) /\ page.answer # r
  /\ IsPending(r) => f \in Marks(handlers[r])

EntryFits(f) ==
  LET entry == sessions[1].fields[f]
      h == Head(entry)
  IN
    /\ \A r \in Ids : About(r, f) /\ Resolves(r) => entry # <<>> /\ r <= h
    /\ entry # <<>> =>
         /\ h \in Ids /\ About(h, f) /\ Standing(h) /\ f \in Marks(sessions[1])
         /\ url # NoUrl => h <= url
         /\ url # NoUrl /\ asked[url].kind = "addField" /\ asked[url].item = f /\ h # url
               => IsSpurious(url, f)
    /\ page # NoPage /\ page.stage = "written" /\ page.answer = page.req /\ About(page.req, f)
         => entry # <<>> /\ h = page.req

FieldsFit == \A f \in Fields \ torn : ToldFits(f) /\ EntryFits(f)

Fit == /\ TypeOK /\ RequestsFit /\ OperationFits /\ RecordsFit
       /\ UrlFits /\ PageFits /\ TabsFit /\ LettersFit /\ FieldsFit

\* While no request is answered twice, the web app asks one thing at a time: a
\* handler finds the record as it read it but for the fields, which the pages
\* write, and what pages wait for is there because a request asked for it.
SameButFields(s, t) ==
  /\ s.version = t.version /\ s.requests = t.requests /\ s.options = t.options
  /\ s.puts = t.puts /\ s.rejected = t.rejected /\ s.closed = t.closed
  /\ s.challenges = t.challenges /\ s.messages = t.messages

Increasing(s) == \A i, j \in DOMAIN s.requests : i < j => s.requests[i] < s.requests[j]

Cause(s, kinds, i) == \E r \in Ids : Lists(s, r) /\ asked[r].kind \in kinds /\ asked[r].item = i

Caused(s) ==
  /\ \A f \in Marks(s) : Cause(s, {"addField"}, f)
  /\ \A f \in s.rejected : Cause(s, {"rejectFieldValue"}, f)
  /\ s.closed => Cause(s, {"closeOperation"}, NoItem)
  /\ \A c \in s.messages : Cause(s, {"respondToChallengeMessage"}, c)
  /\ \A c \in Challenges :
       /\ s.challenges[c] = "aborted" => Cause(s, {"abortChallenge"}, c)
       /\ s.challenges[c] = "sealed" => Cause(s, {"abortChallenge", "closeChallenge"}, c)
       /\ s.challenges[c] # "none"
             => Cause(s, {"approveChallengeRequest", "abortChallenge", "closeChallenge"}, c)

IsTransition(r) == asked[r].kind = "approveTransitionToAuthOp"

InTurn ==
  /\ \A q \in DOMAIN asked : q < Len(asked) => answers[q] = 1
  /\ busy <=> asked # <<>> /\ answers[Len(asked)] = 0

ReadsFit ==
  \A r \in Ids : IsPending(r) =>
    /\ ~ IsTransition(r) => SameButFields(handlers[r], sessions[asked[r].slot])
    /\ asked[r].kind = "closeOperation" => handlers[r].fields = sessions[asked[r].slot].fields

CausesFit ==
  /\ \A k \in Slots : Increasing(sessions[k]) /\ Caused(sessions[k])
  /\ sessions[2].version > 0 => Cause(sessions[2], {"approveTransitionToAuthOp"}, NoItem)
  /\ Len(asked) < 3 => sessions[1].version <= Len(sessions[1].requests)

TransitionsFit ==
  \A r \in DOMAIN asked : IsTransition(r) =>
    /\ ~ IsPending(r) /\ reply[r] # "reject" => Lists(sessions[2], r)
    /\ \A q \in 1 .. r - 1 : IsTransition(q) => reply[q] = "reject"

Serial == InTurn /\ ReadsFit /\ CausesFit /\ TransitionsFit

Repeats(r) == \E q \in 1 .. r - 1 : AskSame(asked[q], asked[r])

\* A page takes for its own the request it was opened for.
OwnRequest ==
  page # NoPage /\ page.stage # "waiting" /\ ~ Repeats(page.req)
  /\ (asked[page.req].kind = "rejectFieldValue" => asked[page.req].item \in page.seen.rejected)
    => LastRequest(page) = page.req

OwnAnswer == page # NoPage /\ page.answer \notin {0, page.req} => Repeats(page.req)

Orderly == ~ IsAnsweredTwice => Serial /\ OwnRequest /\ OwnAnswer

-----------------------------------------------------------------------------
(* Requests and lists                                                      *)

LEMMA RequestsAreInDomain ==
  ASSUME TypeOK
  PROVE  /\ DOMAIN asked = 1 .. Len(asked) /\ DOMAIN asked \subseteq Ids
         /\ Len(asked) \in Nat
         /\ \A r \in DOMAIN asked : asked[r] \in Request
  <1>1. asked \in Seq(Request) /\ Len(asked) <= MaxRequests
    BY DEF TypeOK
  <1>2. DOMAIN asked = 1 .. Len(asked) /\ Len(asked) \in Nat
    BY <1>1, LenProperties
  <1>3. \A r \in DOMAIN asked : asked[r] \in Request
    BY <1>1, <1>2, ElementOfSeq
  <1> QED
    BY <1>1, <1>2, <1>3, SecretStarAssumption DEF Ids

LEMMA AppendsToList ==
  ASSUME NEW q \in Seq(Ids), NEW r \in Ids
  PROVE  /\ Append(q, r) \in Seq(Ids) /\ Append(q, r) # <<>>
         /\ DOMAIN Append(q, r) = 1 .. Len(q) + 1
         /\ Len(q) \in Nat /\ DOMAIN q = 1 .. Len(q) /\ Len(Append(q, r)) = Len(q) + 1
         /\ \A i \in 1 .. Len(q) : Append(q, r)[i] = q[i]
         /\ Append(q, r)[Len(q) + 1] = r
         /\ <<r>> \in Seq(Ids) /\ <<r>> # <<>> /\ DOMAIN <<r>> = {1} /\ <<r>>[1] = r
         /\ Len(<<r>>) = 1
  BY AppendProperties, LenProperties

\* What a list with one more request, or only one, lists.
LEMMA ListsOfRecord ==
  ASSUME NEW s, NEW t, NEW r \in Ids, NEW x \in Ids, s.requests \in Seq(Ids)
  PROVE  /\ t.requests = Append(s.requests, r) => (Lists(t, x) <=> Lists(s, x) \/ x = r)
         /\ t.requests = <<r>> => (Lists(t, x) <=> x = r)
         /\ t.requests = s.requests => (Lists(t, x) <=> Lists(s, x))
         /\ s.requests = <<>> => ~ Lists(s, x)
         /\ Lists(s, x) => s.requests # <<>>
  <1> DEFINE q == s.requests
  <1>1. t.requests = Append(q, r) => (Lists(t, x) <=> Lists(s, x) \/ x = r)
    BY AppendsToList DEF Lists
  <1>2. t.requests = <<r>> => (Lists(t, x) <=> x = r)
    BY AppendsToList DEF Lists
  <1>3. t.requests = q => (Lists(t, x) <=> Lists(s, x))
    BY DEF Lists
  <1>4. q = <<>> => ~ Lists(s, x)
    BY EmptySeq DEF Lists
  <1> QED
    BY <1>1, <1>2, <1>3, <1>4

\* The request a page takes for its own is one that the record lists.
LEMMA LastRequestIsListed ==
  ASSUME NEW p, p.seen.requests \in Seq(Ids), NEW x \in Ids
  PROVE  /\ LastRequest(p) \in Ids \union {0}
         /\ LastRequest(p) # 0 <=> p.seen.requests # <<>>
         /\ LastRequest(p) # 0 => Lists(p.seen, LastRequest(p))
         /\ ~ Lists(p.seen, x) => LastRequest(p) # x
  <1> DEFINE q == p.seen.requests
  <1>0. 0 \notin Ids
    BY DEF Ids
  <1>1. ASSUME q # <<>>
        PROVE  /\ Len(q) \in DOMAIN q /\ 1 \in DOMAIN q
               /\ q[1] \in Ids /\ q[Len(q)] \in Ids
               /\ Head(q) = q[1] /\ Last(q) = q[Len(q)]
    <2>1. Len(q) \in Nat /\ Len(q) # 0 /\ DOMAIN q = 1 .. Len(q)
      BY <1>1, EmptySeq, LenProperties
    <2>2. Len(q) \in DOMAIN q /\ 1 \in DOMAIN q
      BY <2>1
    <2>3. q[1] \in Ids /\ q[Len(q)] \in Ids
      BY <2>1, <2>2, ElementOfSeq
    <2>4. Head(q) = q[1]
      BY <1>1, HeadTailProperties
    <2> QED
      BY <2>2, <2>3, <2>4 DEF Last
  <1>2. CASE q = <<>>
    <2>1. LastRequest(p) = 0
      BY <1>2 DEF LastRequest
    <2> QED
      BY <1>2, <2>1, <1>0
  <1>3. CASE q # <<>>
    <2>1. LastRequest(p) \in {Head(q), Last(q)}
      BY <1>3 DEF LastRequest
    <2>2. LastRequest(p) \in Ids /\ Lists(p.seen, LastRequest(p))
      BY <1>1, <1>3, <2>1 DEF Lists
    <2> QED
      BY <1>3, <2>2, <1>0
  <1> QED
    BY <1>2, <1>3

-----------------------------------------------------------------------------
(* What a handler writes                                                   *)
Approvals == {"approveOperation", "approveTransitionToAuthOp"}

\* The sets the parts of a record are from.
Versions == 0 .. 2
Queues == Seq(Ids)
Options == SUBSET Created
Puts == SUBSET Given
Values == [Fields -> Seq(Ids)]
Rejections == SUBSET Fields
States == [Challenges -> {"none", "open", "sealed", "aborted"}]
Messages == SUBSET Challenges

LEMMA PartsOfRecord ==
  ASSUME NEW s \in Session
  PROVE  /\ s.version \in Versions /\ s.requests \in Queues /\ s.options \in Options
         /\ s.puts \in Puts /\ s.fields \in Values /\ s.rejected \in Rejections
         /\ s.closed \in BOOLEAN /\ s.challenges \in States /\ s.messages \in Messages
         /\ \A v \in Versions : [s EXCEPT !.version = v] \in Session
         /\ \A v \in Queues : [s EXCEPT !.requests = v] \in Session
         /\ \A v \in Options : [s EXCEPT !.options = v] \in Session
         /\ \A v \in Puts : [s EXCEPT !.puts = v] \in Session
         /\ \A v \in Values : [s EXCEPT !.fields = v] \in Session
         /\ \A v \in Rejections : [s EXCEPT !.rejected = v] \in Session
         /\ \A v \in BOOLEAN : [s EXCEPT !.closed = v] \in Session
         /\ \A v \in States : [s EXCEPT !.challenges = v] \in Session
         /\ \A v \in Messages : [s EXCEPT !.messages = v] \in Session
  <1> DEFINE Flags == BOOLEAN
             S == [version : Versions, requests : Queues, options : Options, puts : Puts,
                   fields : Values, rejected : Rejections, closed : Flags,
                   challenges : States, messages : Messages]
  <1>1. Session = S
    BY DEF Session, Versions, Queues, Options, Puts, Values, Rejections, States, Messages
  <1>2. Flags = BOOLEAN
    OBVIOUS
  <1> HIDE DEF Flags
  <1> QED
    BY <1>1, <1>2

LEMMA NoSessionIsBlank ==
  /\ NoSession \in Session /\ NoSession.requests = <<>> /\ IsBlank(NoSession)
  /\ NoFields \in [Fields -> Seq(Ids)] /\ NoSession.fields = NoFields
  /\ \A f \in Fields : NoFields[f] = <<>>
  <1>1. <<>> \in Seq(Ids)
    BY EmptySeq
  <1>2. NoFields \in [Fields -> Seq(Ids)] /\ \A f \in Fields : NoFields[f] = <<>>
    BY <1>1 DEF NoFields
  <1>3. NoSession \in Session
    BY <1>1, <1>2 DEF NoSession, Session
  <1> QED
    BY <1>2, <1>3 DEF NoSession, IsBlank, Marks

LEMMA VersionIsBumped ==
  ASSUME NEW s \in Session
  PROVE  Bumped(s) \in 0 .. 2 /\ Bumped(s) <= s.version + 1
  BY DEF Bumped, Session

UpdatedFits(a, r, s, now, u) ==
  /\ u \in Session
  /\ u.requests = IF a.kind \in Approvals THEN <<r>>
                  ELSE IF a.kind = "updateMetadata" THEN now.requests ELSE Append(s.requests, r)
  /\ u.fields = IF a.kind \in Approvals THEN NoFields ELSE now.fields
  /\ u.version = IF a.kind \in Approvals THEN 1
                 ELSE IF a.kind = "getUserAttributes" THEN 2
                 ELSE IF a.kind \in {"abortChallenge", "closeChallenge"} THEN now.version
                 ELSE Bumped(s)
  /\ u.options = IF a.kind \in Approvals THEN {}
                 ELSE IF a.kind = "addField" /\ a.item \in Created THEN s.options \union {a.item}
                 ELSE now.options
  /\ u.puts = IF a.kind \in Approvals THEN {}
              ELSE IF a.kind = "addField" /\ a.item \notin Created THEN s.puts \union {a.item}
              ELSE now.puts
  /\ u.rejected = IF a.kind \in Approvals THEN {}
                  ELSE IF a.kind = "rejectFieldValue" THEN s.rejected \union {a.item}
                  ELSE now.rejected
  /\ u.closed = IF a.kind \in Approvals THEN FALSE
                ELSE IF a.kind = "closeOperation" THEN TRUE ELSE now.closed
  /\ u.messages = IF a.kind \in Approvals THEN {}
                  ELSE IF a.kind = "approveChallengeRequest" THEN s.messages \ {a.item}
                  ELSE IF a.kind = "respondToChallengeMessage" THEN now.messages \union {a.item}
                  ELSE now.messages
  /\ u.challenges =
        IF a.kind \in Approvals THEN [c \in Challenges |-> "none"]
        ELSE IF a.kind = "approveChallengeRequest" THEN [s.challenges EXCEPT ![a.item] = "open"]
        ELSE IF a.kind = "abortChallenge" THEN [now.challenges EXCEPT ![a.item] = "aborted"]
        ELSE IF a.kind = "closeChallenge"
             THEN [now.challenges EXCEPT ![a.item] = IF @ = "aborted" THEN @ ELSE "sealed"]
        ELSE now.challenges

LEMMA UpdateOfRecord ==
  ASSUME TypeOK, NEW r \in DOMAIN asked, AskFits(r), NEW s \in Session, NEW now \in Session
  PROVE  UpdatedFits(asked[r], r, s, now, Updated(r, s, now))
  <1> DEFINE a == asked[r]
             u == Updated(r, s, now)
  <1>0. r \in Ids /\ asked[r] \in Request
    BY RequestsAreInDomain
  <1>1. Append(s.requests, r) \in Seq(Ids) /\ <<r>> \in Seq(Ids)
    <2>1. s.requests \in Seq(Ids)
      BY DEF Session
    <2> QED
      BY <1>0, <2>1, AppendsToList
  <1>2. Bumped(s) \in 0 .. 2
    BY VersionIsBumped
  <1>3. Recorded(r, s, now) \in Session /\ Changed(r, s, now) \in Session
    <2>1. Recorded(r, s, now) \in Session
      BY <1>1 DEF Recorded, Session
    <2> QED
      BY <1>2, <2>1 DEF Changed, Session
  <1>4. CASE a.kind = "approveOperation"
    <2>1. u = [NoSession EXCEPT !.requests = <<r>>, !.version = 1]
      BY <1>4 DEF Updated, ApproveOperation
    <2>2. u \in Session
      <3> DEFINE t == [NoSession EXCEPT !.requests = <<r>>]
      <3>1. t \in Session
        BY <1>1, NoSessionIsBlank, PartsOfRecord DEF Queues
      <3>2. u = [t EXCEPT !.version = 1] /\ 1 \in Versions
        BY <2>1 DEF Versions
      <3> QED
        BY <3>1, <3>2, PartsOfRecord
    <2> QED
      BY <1>4, <2>1, <2>2 DEF UpdatedFits, Approvals, NoSession
  <1>5. CASE a.kind = "approveTransitionToAuthOp"
    <2>1. u = [NoSession EXCEPT !.requests = <<r>>, !.version = 1]
      BY <1>5 DEF Updated, ApproveTransitionToAuthOp
    <2>2. u \in Session
      <3> DEFINE t == [NoSession EXCEPT !.requests = <<r>>]
      <3>1. t \in Session
        BY <1>1, NoSessionIsBlank, PartsOfRecord DEF Queues
      <3>2. u = [t EXCEPT !.version = 1] /\ 1 \in Versions
        BY <2>1 DEF Versions
      <3> QED
        BY <3>1, <3>2, PartsOfRecord
    <2> QED
      BY <1>5, <2>1, <2>2 DEF UpdatedFits, Approvals, NoSession
  <1>6. CASE a.kind = "getUserAttributes"
    <2>1. u = [Recorded(r, s, now) EXCEPT !.version = 2]
      BY <1>6 DEF Updated, GetUserAttributes
    <2>2. u \in Session
      <3>1. 2 \in Versions
        BY DEF Versions
      <3> QED
        BY <2>1, <3>1, <1>3, PartsOfRecord
    <2> QED
      BY <1>6, <2>1, <2>2 DEF UpdatedFits, Approvals, Recorded, Session
  <1>7. CASE a.kind = "addField"
    <2>1. a.item \in Fields
      BY <1>7 DEF AskFits, IsField
    <2>2. CASE a.item \in Created
      <3>1. u = [Changed(r, s, now) EXCEPT !.options = s.options \union {a.item}]
        BY <1>7, <2>2 DEF Updated, AddField
      <3>2. s.options \union {a.item} \in Options
        BY <2>2, PartsOfRecord DEF Options
      <3>3. u \in Session
        <4>1. \A v \in Options : [Changed(r, s, now) EXCEPT !.options = v] \in Session
          BY <1>3, PartsOfRecord
        <4> QED
          BY <3>1, <3>2, <4>1
      <3> QED
        BY <1>7, <2>2, <3>1, <3>3 DEF UpdatedFits, Approvals, Recorded, Changed, Session
    <2>3. CASE a.item \notin Created
      <3>1. u = [Changed(r, s, now) EXCEPT !.puts = s.puts \union {a.item}]
        BY <1>7, <2>3 DEF Updated, AddField
      <3>2. s.puts \union {a.item} \in Puts
        BY <2>1, <2>3, PartsOfRecord DEF Puts, Fields
      <3>3. u \in Session
        <4>1. \A v \in Puts : [Changed(r, s, now) EXCEPT !.puts = v] \in Session
          BY <1>3, PartsOfRecord
        <4> QED
          BY <3>1, <3>2, <4>1
      <3> QED
        BY <1>7, <2>3, <3>1, <3>3 DEF UpdatedFits, Approvals, Recorded, Changed, Session
    <2> QED
      BY <2>2, <2>3
  <1>8. CASE a.kind = "rejectFieldValue"
    <2>1. u = [Changed(r, s, now) EXCEPT !.rejected = s.rejected \union {a.item}] /\ a.item \in Fields
      BY <1>8 DEF Updated, RejectFieldValue, AskFits, IsField
    <2>2. u \in Session
      <3>1. s.rejected \union {a.item} \in Rejections
        BY <2>1, PartsOfRecord DEF Rejections
      <3>2. \A v \in Rejections : [Changed(r, s, now) EXCEPT !.rejected = v] \in Session
        BY <1>3, PartsOfRecord
      <3> QED
        BY <2>1, <3>1, <3>2
    <2> QED
      BY <1>8, <2>1, <2>2 DEF UpdatedFits, Approvals, Recorded, Changed, Session
  <1>9. CASE a.kind = "closeOperation"
    <2>1. u = [Changed(r, s, now) EXCEPT !.closed = TRUE]
      BY <1>9 DEF Updated, CloseOperation
    <2>2. u \in Session
      BY <2>1, <1>3, PartsOfRecord
    <2> QED
      BY <1>9, <2>1, <2>2 DEF UpdatedFits, Approvals, Recorded, Changed, Session
  <1>10. CASE a.kind = "updateMetadata"
    <2>1. u = [now EXCEPT !.version = Bumped(s)]
      BY <1>10 DEF Updated, UpdateMetadata
    <2>2. u \in Session
      BY <2>1, <1>2, PartsOfRecord DEF Versions
    <2> QED
      BY <1>10, <2>1, <2>2 DEF UpdatedFits, Approvals, Session
  <1>11. CASE a.kind \in Authentication
    <2>1. a.item \in Challenges
      BY <1>11 DEF AskFits
    <2>2. CASE a.kind = "approveChallengeRequest"
      <3>1. u = [Changed(r, s, now) EXCEPT !.challenges = [s.challenges EXCEPT ![a.item] = "open"],
                                           !.messages = s.messages \ {a.item}]
        BY <2>2 DEF Updated, ApproveChallengeRequest
      <3>2. u \in Session
        <4> DEFINE v == [s.challenges EXCEPT ![a.item] = "open"]
                   t == [Changed(r, s, now) EXCEPT !.challenges = v]
        <4>1. v \in States /\ s.messages \ {a.item} \in Messages
          BY <2>1, PartsOfRecord DEF States, Messages
        <4>2. t \in Session
          BY <4>1, <1>3, PartsOfRecord
        <4>3. u = [t EXCEPT !.messages = s.messages \ {a.item}]
          BY <3>1
        <4> QED
          BY <4>1, <4>2, <4>3, PartsOfRecord
      <3> QED
        BY <2>2, <3>1, <3>2 DEF UpdatedFits, Approvals, Recorded, Changed, Session
    <2>3. CASE a.kind = "respondToChallengeMessage"
      <3>1. u = [Changed(r, s, now) EXCEPT !.messages = @ \union {a.item}]
        BY <2>3 DEF Updated, RespondToChallengeMessage
      <3>2. u \in Session
        <4> DEFINE t == Changed(r, s, now)
        <4>1. t.messages \union {a.item} \in Messages
          BY <2>1, <1>3, PartsOfRecord DEF Messages
        <4>2. \A v \in Messages : [t EXCEPT !.messages = v] \in Session
          BY <1>3, PartsOfRecord
        <4> QED
          BY <3>1, <4>1, <4>2
      <3> QED
        BY <2>3, <3>1, <3>2 DEF UpdatedFits, Approvals, Recorded, Changed, Session
    <2>4. CASE a.kind = "abortChallenge"
      <3>1. u = [Recorded(r, s, now) EXCEPT !.challenges[a.item] = "aborted"]
        BY <2>4 DEF Updated, AbortChallenge
      <3>2. u \in Session
        <4> DEFINE t == Recorded(r, s, now)
                   v == [t.challenges EXCEPT ![a.item] = "aborted"]
        <4>1. v \in States
          BY <1>3, PartsOfRecord DEF States
        <4>2. u = [t EXCEPT !.challenges = v]
          BY <3>1
        <4> QED
          BY <4>1, <4>2, <1>3, PartsOfRecord
      <3> QED
        BY <2>4, <3>1, <3>2 DEF UpdatedFits, Approvals, Recorded, Session
    <2>5. CASE a.kind = "closeChallenge"
      <3>1. u = [Recorded(r, s, now) EXCEPT
                    !.challenges[a.item] = IF @ = "aborted" THEN @ ELSE "sealed"]
        BY <2>5 DEF Updated, CloseChallenge
      <3>2. u \in Session
        <4> DEFINE t == Recorded(r, s, now)
                   v == [t.challenges EXCEPT ![a.item] = IF @ = "aborted" THEN @ ELSE "sealed"]
        <4>1. v \in States
          BY <1>3, PartsOfRecord DEF States
        <4>2. u = [t EXCEPT !.challenges = v]
          BY <3>1
        <4> QED
          BY <4>1, <4>2, <1>3, PartsOfRecord
      <3> QED
        BY <2>5, <3>1, <3>2 DEF UpdatedFits, Approvals, Recorded, Session
    <2> QED
      BY <1>11, <2>2, <2>3, <2>4, <2>5 DEF Authentication
  <1> QED
    BY <1>0, <1>4, <1>5, <1>6, <1>7, <1>8, <1>9, <1>10, <1>11
    DEF Request, Creation, Login

-----------------------------------------------------------------------------
(* Steps of the page that change nothing else                              *)
OnlyPageChanges ==
  UNCHANGED <<asked, browser, sessions, account, handlers, url, letters, torn, closings>>

LEMMA PartsKeptByThePage ==
  ASSUME Fit, OnlyPageChanges
  PROVE  /\ RequestsFit' /\ OperationFits' /\ UrlFits' /\ TabsFit' /\ LettersFit'
         /\ \A k \in Slots : RecordFits(sessions[k])'
         /\ \A r \in Ids : IsPending(r)' => RecordFits(handlers[r])'
         /\ page' \in Page \union {NoPage} => TypeOK'
  <1> USE DEF OnlyPageChanges, browser, letters, Fit
  <1>1. RequestsFit'
    BY DEF RequestsFit, AskFits, CountsFit, HasGot, IsField, IsPending
  <1>2. OperationFits'
    BY DEF OperationFits, HasGot, IsPending
  <1>3. UrlFits' /\ TabsFit'
    BY DEF UrlFits, TabsFit, IsPending
  <1>4. LettersFit'
    BY DEF LettersFit, IsPending
  <1>5. /\ \A k \in Slots : RecordFits(sessions[k])'
        /\ \A r \in Ids : IsPending(r)' => RecordFits(handlers[r])'
    BY DEF RecordsFit, RecordFits, Through, IsPending, Lists, IsBlank, Marks
  <1>6. page' \in Page \union {NoPage} => TypeOK'
    BY DEF TypeOK
  <1> QED
    BY <1>1, <1>2, <1>3, <1>4, <1>5, <1>6

\* Of the fields: the page goes on to have written or not, and takes no other
\* request for its own.
LEMMA FieldsKeptByThePage ==
  ASSUME Fit, OnlyPageChanges,
         page = NoPage \/ page.stage # "written" => page' = NoPage \/ page.stage' # "written",
         page # NoPage /\ page.stage = "written" =>
            page' # NoPage /\ page.req' = page.req /\ page.stage' = "written",
         page' # NoPage => page.answer' = 0 \/ (page # NoPage /\ page.answer' = page.answer),
         page' # NoPage => \A x \in Ids : Lists(page.seen', x) =>
            \/ page # NoPage /\ Lists(page.seen, x)
            \/ \E k \in Slots : Lists(sessions[k], x)
  PROVE  FieldsFit'
  <1> USE DEF OnlyPageChanges, browser, letters, Fit
  <1> SUFFICES ASSUME NEW f \in Fields \ torn
               PROVE  ToldFits(f)' /\ EntryFits(f)'
    BY DEF FieldsFit
  <1>0. ToldFits(f) /\ EntryFits(f) /\ 0 \notin Ids
    BY DEF FieldsFit, Ids
  <1>1. ToldFits(f)'
    BY <1>0 DEF ToldFits, About
  <1> DEFINE entry == sessions[1].fields[f]
             h == Head(entry)
  <1>2. entry' = entry /\ h' = h
    OBVIOUS
  <1>3. \A r \in Ids : About(r, f)' /\ Resolves(r)' => entry' # <<>> /\ r <= h'
    BY <1>0, <1>2 DEF EntryFits, About, Resolves
  <1>4. ASSUME entry # <<>>
        PROVE  /\ h' \in Ids /\ About(h, f)' /\ Standing(h)' /\ f \in Marks(sessions[1])'
               /\ url' # NoUrl => h' <= url'
               /\ url' # NoUrl /\ asked'[url'].kind = "addField" /\ asked'[url'].item = f /\ h' # url'
                     => IsSpurious(url, f)'
    <2>1. /\ h' \in Ids /\ About(h, f)' /\ f \in Marks(sessions[1])'
          /\ url' # NoUrl => h' <= url'
      BY <1>0, <1>4 DEF EntryFits, About, Marks
    <2>2. Standing(h)'
      BY <1>0, <1>4 DEF EntryFits, Standing, IsPending
    <2>3. ASSUME url # NoUrl, asked[url].kind = "addField", asked[url].item = f, h # url
          PROVE  IsSpurious(url, f)'
      <3>1. IsSpurious(url, f) /\ url \in Ids
        BY <1>0, <1>4, <2>3 DEF EntryFits, TypeOK
      <3>2. /\ \A k \in Slots : ~ Lists(sessions[k], url)'
            /\ \A q \in Ids : IsPending(q)' => ~ Lists(handlers[q], url)'
            /\ IsPending(url)' => f \in Marks(handlers[url])'
        BY <3>1 DEF IsSpurious, Lists, IsPending, Marks
      <3>3. page' # NoPage => ~ Lists(page.seen, url)'
        <4>1. Lists(page.seen, url)' <=> Lists(page.seen', url)
          BY DEF Lists
        <4> QED
          BY <3>1, <4>1 DEF IsSpurious
      <3>4. page' # NoPage => page.answer' # url
        BY <3>1, <1>0 DEF IsSpurious
      <3> QED
        BY <3>2, <3>3, <3>4 DEF IsSpurious
    <2> QED
      BY <2>1, <2>2, <2>3
  <1>5. page' # NoPage /\ page.stage' = "written" /\ page.answer' = page.req' /\ About(page.req, f)'
           => entry' # <<>> /\ h' = page.req'
    <2>1. SUFFICES ASSUME page' # NoPage, page.stage' = "written", page.answer' = page.req',
                          About(page.req, f)'
                   PROVE  entry # <<>> /\ h = page.req'
      BY <1>2
    <2>2. page # NoPage /\ page.stage = "written" /\ page.req' = page.req
      BY <2>1
    <2>3. page.req \in Ids
      BY <2>2 DEF TypeOK, Page
    <2>4. page.answer = page.req /\ About(page.req, f)
      BY <1>0, <2>1, <2>2, <2>3 DEF About
    <2> QED
      BY <1>0, <2>2, <2>4 DEF EntryFits
  <1> QED
    BY <1>1, <1>2, <1>3, <1>4, <1>5 DEF EntryFits

LEMMA OpenKeepsFit ==
  ASSUME Fit, Open
  PROVE  Fit'
  <1> DEFINE p == [req |-> url, stage |-> "waiting", processed |-> FALSE, broken |-> FALSE,
                   seen |-> NoSession, answer |-> 0, submits |-> 0]
  <1>1. page = NoPage /\ url # NoUrl /\ page' = p /\ OnlyPageChanges
    BY DEF Open, OnlyPageChanges
  <1>2. p \in Page /\ url \in Ids /\ 0 \notin Ids
    <2>1. url \in Ids /\ 0 \notin Ids
      BY <1>1 DEF Fit, TypeOK, Ids
    <2>2. 0 \in 0 .. MaxSubmits
      BY SecretStarAssumption
    <2> QED
      BY <2>1, <2>2, NoSessionIsBlank DEF Page
  <1>3. page' # NoPage /\ page' \in Page
    BY <1>1, <1>2, NothingAssumption
  <1>4. \A x \in Ids : ~ Lists(page.seen', x)
    BY <1>1, NoSessionIsBlank, ListsOfRecord DEF Session
  <1>5. PageFits'
    BY <1>1, <1>2 DEF PageFits, OnlyPageChanges
  <1>6. RecordFits(page.seen)'
    <2>1. page.seen' = NoSession
      BY <1>1
    <2> QED
      BY <1>4, <2>1, NoSessionIsBlank DEF RecordFits, Lists, IsBlank, Marks
  <1>7. FieldsFit'
    BY <1>1, <1>4, FieldsKeptByThePage
  <1> QED
    BY <1>1, <1>3, <1>5, <1>6, <1>7, PartsKeptByThePage DEF Fit, RecordsFit

\* A record that has what a page waits for lists a request, and of a field it
\* has its option or its value.
LEMMA MarkedRecordLists ==
  ASSUME NEW s \in Session, RecordFits(s), NEW a \in Request, IsMarked(a, s),
         a.kind # "updateMetadata", a.kind \in Authentication => a.item \in Challenges,
         IsField(a) => a.item \in Fields
  PROVE  s.requests # <<>> /\ (IsField(a) => a.item \in Marks(s))
  <1>1. a.kind \in Creation \union Authentication \union Login
    BY DEF Request
  <1>2. CASE a.kind = "addField"
    BY <1>2 DEF IsMarked, CreateField, PutField, RecordFits, IsBlank, Marks, IsField, Fields
  <1>3. CASE a.kind = "rejectFieldValue"
    BY <1>3 DEF IsMarked, CreateField, RecordFits, IsBlank, Marks, IsField, Fields
  <1>4. CASE a.kind \in Authentication
    <2>1. a.item \in Challenges
      BY <1>4
    <2>2. CASE a.kind = "approveChallengeRequest"
      BY <2>1, <2>2 DEF IsMarked, ApproveChallenge, RecordFits, IsBlank, IsField
    <2>3. CASE a.kind = "respondToChallengeMessage"
      BY <2>1, <2>3 DEF IsMarked, RespondToMessage, RecordFits, IsBlank, IsField
    <2>4. CASE a.kind = "abortChallenge"
      BY <2>1, <2>4 DEF IsMarked, AbortedChallenge, RecordFits, IsBlank, IsField
    <2>5. CASE a.kind = "closeChallenge"
      BY <2>1, <2>5 DEF IsMarked, SealedChallenge, RecordFits, IsBlank, IsField
    <2> QED
      BY <1>4, <2>2, <2>3, <2>4, <2>5 DEF Authentication
  <1>5. CASE a.kind = "closeOperation"
    BY <1>5 DEF IsMarked, Save, AuthFinished, RecordFits, IsBlank, IsField
  <1>6. CASE a.kind \in {"approveOperation", "getUserAttributes", "approveTransitionToAuthOp"}
    <2>1. UserIntent(s) \/ UserAttributes(s) \/ TransitionToAuth(s)
      BY <1>6 DEF IsMarked
    <2>2. s.version # 0
      BY <2>1 DEF UserIntent, UserAttributes, TransitionToAuth
    <2> QED
      BY <1>6, <2>2 DEF RecordFits, IsBlank, IsField
  <1> QED
    BY <1>1, <1>2, <1>3, <1>4, <1>5, <1>6 DEF Creation, Login

LEMMA PageHasRequest ==
  ASSUME Fit, page # NoPage
  PROVE  LET a == asked[page.req] IN
         /\ page \in Page /\ page.req = url /\ page.req \in DOMAIN asked /\ page.req \in Ids
         /\ a \in Request /\ AskFits(page.req) /\ a.kind # "updateMetadata"
         /\ a.kind \in Authentication => a.item \in Challenges
         /\ IsField(a) => a.item \in Fields /\ a.slot = 1 /\ SlotOf(a) = 1
         /\ SlotOf(a) \in Slots /\ Watched \in Session /\ RecordFits(Watched)
         /\ sessions[1] \in Session /\ sessions[2] \in Session
         /\ page.seen \in Session /\ page.seen.requests \in Seq(Ids)
  <1>1. page \in Page /\ page.req = url /\ url # NoUrl /\ url \in DOMAIN asked
        /\ asked[url].kind # "updateMetadata"
    BY DEF Fit, TypeOK, PageFits, UrlFits
  <1>2. asked[url] \in Request /\ url \in Ids /\ AskFits(url)
    BY <1>1, RequestsAreInDomain DEF Fit, RequestsFit
  <1>3. asked[url].kind \in Authentication => asked[url].item \in Challenges
    BY <1>2 DEF AskFits
  <1>4. IsField(asked[url]) => asked[url].item \in Fields /\ asked[url].slot = 1
                               /\ SlotOf(asked[url]) = 1
    BY <1>2 DEF AskFits, SlotOf, IsField
  <1>5. SlotOf(asked[url]) \in Slots
    BY <1>2 DEF SlotOf, Slots, Request
  <1>6. Watched \in Session /\ RecordFits(Watched) /\ sessions[1] \in Session
        /\ sessions[2] \in Session
    BY <1>1, <1>5 DEF Fit, TypeOK, RecordsFit, Watched, Slots
  <1>7. page.seen \in Session /\ page.seen.requests \in Seq(Ids)
    BY <1>1 DEF Page, Session
  <1> QED
    BY <1>1, <1>2, <1>3, <1>4, <1>5, <1>6, <1>7

LEMMA LoadKeepsFit ==
  ASSUME Fit, Load
  PROVE  Fit'
  <1> DEFINE p == [page EXCEPT !.stage = IF @ = "waiting" THEN "ready" ELSE @, !.seen = Watched]
             a == asked[page.req]
  <1>1. page # NoPage /\ page.stage # "done" /\ page' = p /\ OnlyPageChanges
        /\ IsMarked(a, Watched)
    BY DEF Load, OnlyPageChanges, IsLoaded
  <1>2. /\ page \in Page /\ page.req \in DOMAIN asked /\ a \in Request /\ AskFits(page.req)
        /\ a.kind # "updateMetadata" /\ SlotOf(a) \in Slots
        /\ Watched \in Session /\ RecordFits(Watched)
        /\ IsField(a) => SlotOf(a) = 1
    BY <1>1, PageHasRequest
  <1>3. p \in Page
    BY <1>2 DEF Page
  <1>4. /\ page' # NoPage /\ page' \in Page /\ page.req' = page.req /\ page.seen' = Watched
        /\ page.stage' = IF page.stage = "waiting" THEN "ready" ELSE page.stage
        /\ page.processed' = page.processed /\ page.answer' = page.answer
    BY <1>1, <1>2, <1>3, NothingAssumption DEF Page
  <1>5. Watched.requests # <<>> /\ (IsField(a) => a.item \in Marks(Watched))
    BY <1>1, <1>2, MarkedRecordLists DEF AskFits
  <1>6. PageFits'
    <2>1. /\ url' # NoUrl /\ page.req' = url'
          /\ page.stage' = "written" => ~ page.processed' /\ page.answer' # 0
          /\ page.stage' # "waiting" => page.seen.requests' # <<>>
          /\ page.answer' # 0 => page.answer' \in DOMAIN asked' /\ ~ IsPending(page.answer)'
          /\ page.answer' = page.req' => reply'[page.req'] = "none"
      BY <1>1, <1>4, <1>5 DEF Fit, PageFits, OnlyPageChanges, browser, IsPending
    <2>2. ASSUME IsField(asked[page.req])'
          PROVE  sessions[1].fields' = page.seen.fields'
                 /\ asked[page.req].item' \in (Marks(sessions[1]) \union torn)'
      BY <1>1, <1>2, <1>4, <1>5, <2>2 DEF OnlyPageChanges, IsField, Marks, Watched
    <2> QED
      BY <2>1, <2>2 DEF PageFits
  <1>7. RecordFits(page.seen)'
    BY <1>1, <1>2, <1>4
    DEF RecordFits, Through, Lists, IsBlank, Marks, IsPending, OnlyPageChanges, browser, letters
  <1>8. FieldsFit'
    <2>1. \A x \in Ids : Lists(page.seen', x) => \E k \in Slots : Lists(sessions[k], x)
      BY <1>2, <1>4 DEF Watched
    <2> QED
      BY <1>1, <1>4, <2>1, FieldsKeptByThePage
  <1> QED
    BY <1>1, <1>4, <1>6, <1>7, <1>8, PartsKeptByThePage DEF Fit, RecordsFit

\* A page that shows an error, or has been told that its answer arrived.
LEMMA OtherPageKeepsFit ==
  ASSUME Fit, LookTooEarly \/ Processed
  PROVE  Fit'
  <1>1. /\ page # NoPage /\ page.stage # "written" /\ OnlyPageChanges
        /\ page' = [page EXCEPT !.broken = TRUE]
           \/ \E st \in {page.stage, "done"} :
                 page.stage = "sent" /\ page' = [page EXCEPT !.processed = TRUE, !.stage = st]
    BY DEF LookTooEarly, Processed, OnlyPageChanges
  <1>2. page \in Page
    BY <1>1, PageHasRequest
  <1>3. /\ page' \in Page /\ page.req' = page.req /\ page.seen' = page.seen
        /\ page.answer' = page.answer
        /\ page.stage' # "written" /\ (page.stage' # "waiting" => page.stage # "waiting")
    BY <1>1, <1>2 DEF Page
  <1>4. page' # NoPage
    BY <1>3, NothingAssumption
  <1>5. PageFits'
    BY <1>1, <1>3, <1>4
    DEF Fit, PageFits, OnlyPageChanges, browser, IsPending, IsField, Marks, Entered
  <1>6. RecordFits(page.seen)'
    BY <1>1, <1>3 DEF Fit, RecordsFit, RecordFits, Through, Lists, IsBlank, Marks, IsPending,
                      OnlyPageChanges, browser, letters
  <1>7. FieldsFit'
    BY <1>1, <1>3, FieldsKeptByThePage
  <1> QED
    BY <1>1, <1>3, <1>4, <1>5, <1>6, <1>7, PartsKeptByThePage DEF Fit, RecordsFit

-----------------------------------------------------------------------------
(* A page is submitted                                                     *)

LEMMA EnteredHeads ==
  ASSUME NEW q \in Seq(Ids), NEW r \in Ids
  PROVE  /\ Append(q, r) \in Seq(Ids) /\ Append(q, r) # <<>>
         /\ Head(Append(q, r)) = IF q = <<>> THEN r ELSE Head(q)
         /\ [q EXCEPT ![1] = r] \in Seq(Ids)
         /\ q # <<>> => [q EXCEPT ![1] = r] # <<>> /\ Head([q EXCEPT ![1] = r]) = r /\ Head(q) \in Ids
  <1>1. Append(q, r) \in Seq(Ids) /\ Append(q, r) # <<>>
        /\ Head(Append(q, r)) = IF q = <<>> THEN r ELSE Head(q)
    <2>1. /\ Append(q, r) \in Seq(Ids) /\ Append(q, r) # <<>> /\ Len(q) \in Nat
          /\ \A i \in 1 .. Len(q) : Append(q, r)[i] = q[i]
          /\ Append(q, r)[Len(q) + 1] = r
      BY AppendsToList
    <2>2. Head(Append(q, r)) = Append(q, r)[1]
      BY <2>1, HeadTailProperties
    <2>3. CASE q = <<>>
      <3>1. Len(q) = 0
        BY <2>3
      <3> QED
        BY <2>1, <2>2, <2>3, <3>1
    <2>4. CASE q # <<>>
      <3>1. Len(q) > 0 /\ Head(q) = q[1]
        BY <2>1, <2>4, EmptySeq, HeadTailProperties
      <3> QED
        BY <2>1, <2>2, <2>4, <3>1
    <2> QED
      BY <2>1, <2>3, <2>4
  <1>2. [q EXCEPT ![1] = r] \in Seq(Ids)
    <2>1. CASE 1 \in DOMAIN q
      BY <2>1, ExceptSeq
    <2>2. CASE 1 \notin DOMAIN q
      <3>1. [q EXCEPT ![1] = r] = q
        BY <2>2
      <3> QED
        BY <3>1
    <2> QED
      BY <2>1, <2>2
  <1>3. ASSUME q # <<>>
        PROVE  [q EXCEPT ![1] = r] # <<>> /\ Head([q EXCEPT ![1] = r]) = r /\ Head(q) \in Ids
    <2> DEFINE t == [q EXCEPT ![1] = r]
    <2>1. Len(q) \in Nat /\ Len(q) > 0 /\ DOMAIN q = 1 .. Len(q) /\ Head(q) = q[1]
      BY <1>3, EmptySeq, LenProperties, HeadTailProperties
    <2>2. 1 \in DOMAIN q /\ q[1] \in Ids
      BY <2>1, ElementOfSeq
    <2>3. DOMAIN t = DOMAIN q /\ t[1] = r
      BY <2>2
    <2>4. t # <<>>
      BY <2>2, <2>3, EmptySeq
    <2>5. Head(t) = t[1]
      BY <1>2, <2>4, HeadTailProperties
    <2> QED
      BY <2>1, <2>2, <2>3, <2>4, <2>5
  <1> QED
    BY <1>1, <1>2, <1>3

LEMMA EnteredFields ==
  ASSUME Fit, page # NoPage, page.stage # "waiting", IsField(asked[page.req])
  PROVE  LET a == asked[page.req]
             was == page.seen.fields
             e == Entered(a)
         IN
         /\ a.item \in Fields /\ was \in Values /\ e \in Values
         /\ \A f \in Fields : f # a.item => e[f] = was[f]
         /\ \A f \in Fields : f # a.item => sessions[1].fields[f] = was[f]
         /\ a.kind = "addField" =>
               /\ e[a.item] # <<>>
               /\ Head(e[a.item]) = IF was[a.item] = <<>> THEN page.req ELSE Head(was[a.item])
               /\ was[a.item] # <<>> => sessions[1].fields[a.item] # <<>>
                                        /\ Head(sessions[1].fields[a.item]) = Head(was[a.item])
         /\ a.kind # "addField" /\ was[a.item] # <<>> =>
               e[a.item] # <<>> /\ Head(e[a.item]) = page.req
  <1> DEFINE a == asked[page.req]
             was == page.seen.fields
             e == Entered(a)
  <1>1. /\ a.item \in Fields /\ page.req \in Ids /\ page.seen \in Session
    BY PageHasRequest
  <1>2. was \in [Fields -> Seq(Ids)] /\ was[a.item] \in Seq(Ids)
    BY <1>1, PartsOfRecord DEF Values
  <1>3. e = IF a.kind = "addField" THEN [was EXCEPT ![a.item] = Append(@, page.req)]
            ELSE [was EXCEPT ![a.item] = [@ EXCEPT ![1] = page.req]]
    BY DEF Entered
  <1>4. ASSUME NEW v \in Seq(Ids), e = [was EXCEPT ![a.item] = v]
        PROVE  /\ e \in [Fields -> Seq(Ids)] /\ \A f \in Fields : f # a.item => e[f] = was[f]
               /\ e[a.item] = v
    <2> HIDE DEF e, was, a
    <2> QED
      BY <1>1, <1>2, <1>4
  <1>5. sessions[1].fields \in {was, e}
    BY DEF Fit, PageFits
  <1>6. CASE a.kind = "addField"
    <2> DEFINE v == Append(was[a.item], page.req)
    <2>1. /\ v \in Seq(Ids) /\ v # <<>>
          /\ Head(v) = IF was[a.item] = <<>> THEN page.req ELSE Head(was[a.item])
      BY <1>1, <1>2, EnteredHeads
    <2>2. e = [was EXCEPT ![a.item] = v]
      BY <1>3, <1>6
    <2>3. /\ e \in [Fields -> Seq(Ids)] /\ \A f \in Fields : f # a.item => e[f] = was[f]
          /\ e[a.item] = v
      BY <1>4, <2>1, <2>2
    <2> HIDE DEF a, was, e, v
    <2>4. /\ e[a.item] # <<>>
          /\ Head(e[a.item]) = IF was[a.item] = <<>> THEN page.req ELSE Head(was[a.item])
          /\ was[a.item] # <<>> => sessions[1].fields[a.item] # <<>>
                                   /\ Head(sessions[1].fields[a.item]) = Head(was[a.item])
      BY <1>5, <2>1, <2>3
    <2>5. \A f \in Fields : f # a.item => sessions[1].fields[f] = was[f]
      BY <1>5, <2>3
    <2> QED
      BY <1>1, <1>2, <1>6, <2>3, <2>4, <2>5 DEF Values, a, was, e
  <1>7. CASE a.kind # "addField"
    <2> DEFINE v == [was[a.item] EXCEPT ![1] = page.req]
    <2>1. /\ v \in Seq(Ids)
          /\ was[a.item] # <<>> => v # <<>> /\ Head(v) = page.req
      BY <1>1, <1>2, EnteredHeads
    <2>2. e = [was EXCEPT ![a.item] = v]
      BY <1>3, <1>7
    <2>3. /\ e \in [Fields -> Seq(Ids)] /\ \A f \in Fields : f # a.item => e[f] = was[f]
          /\ e[a.item] = v
      BY <1>4, <2>1, <2>2
    <2> HIDE DEF a, was, e, v
    <2>4. \A f \in Fields : f # a.item => sessions[1].fields[f] = was[f]
      BY <1>5, <2>3
    <2> QED
      BY <1>1, <1>2, <1>7, <2>1, <2>3, <2>4 DEF Values, a, was, e
  <1> QED
    BY <1>6, <1>7

LEMMA SubmitTypes ==
  ASSUME Fit, Submit
  PROVE  LET a == asked[page.req] IN
         /\ page # NoPage /\ page.stage \in {"ready", "sent"} /\ page \in Page
         /\ page' \in Page /\ page' # NoPage /\ page.req' = page.req /\ page.seen' = page.seen
         /\ page.stage' = "written" /\ page.answer' = LastRequest(page) /\ page.processed' = FALSE
         /\ page.processed = FALSE
         /\ sessions' \in [Slots -> Session]
         /\ ~ IsField(a) => sessions' = sessions
         /\ IsField(a) => sessions' = [sessions EXCEPT ![1].fields = Entered(a)]
         /\ a.kind = "rejectFieldValue" => page.seen.fields[a.item] # <<>>
         /\ LastRequest(page) \in Ids /\ Lists(page.seen, LastRequest(page))
         /\ \A x \in Ids : ~ Lists(page.seen, x) => LastRequest(page) # x
  <1> DEFINE a == asked[page.req]
             p == [page EXCEPT !.stage = "written", !.answer = LastRequest(page), !.submits = @ + 1]
  <1>1. /\ page # NoPage /\ page.stage \in {"ready", "sent"} /\ ~ page.processed
        /\ page.submits < MaxSubmits /\ page' = p
        /\ sessions' = IF IsField(a) THEN [sessions EXCEPT ![a.slot].fields = Entered(a)]
                       ELSE sessions
        /\ a.kind = "rejectFieldValue" => page.seen.fields[a.item] # <<>>
    BY DEF Submit, CanSubmit
  <1>2. page \in Page /\ page.seen.requests \in Seq(Ids) /\ page.seen.requests # <<>>
        /\ (IsField(a) => a.slot = 1) /\ sessions[1] \in Session
    BY <1>1, PageHasRequest DEF Fit, PageFits
  <1>3. /\ LastRequest(page) \in Ids /\ Lists(page.seen, LastRequest(page))
        /\ \A x \in Ids : ~ Lists(page.seen, x) => LastRequest(page) # x
    <2>1. 0 \notin Ids
      BY DEF Ids
    <2>2. page.req \in Ids
      BY <1>1, PageHasRequest
    <2> QED
      BY <1>2, <2>1, <2>2, LastRequestIsListed
  <1>4. page.submits + 1 \in 0 .. MaxSubmits
    <2>1. page.submits \in 0 .. MaxSubmits
      BY <1>2 DEF Page
    <2> QED
      BY <1>1, <2>1, SecretStarAssumption
  <1>5. p \in Page
    <2> HIDE DEF p
    <2> DEFINE l == LastRequest(page)
    <2>1. l \in Ids \union {0}
      BY <1>3
    <2> HIDE DEF l
    <2> QED
      BY <1>2, <1>4, <2>1 DEF Page, p, l
  <1>6. sessions' \in [Slots -> Session]
    <2>1. sessions \in [Slots -> Session] /\ 1 \in Slots
      BY DEF Fit, TypeOK, Slots
    <2>2. CASE IsField(a)
      <3>1. Entered(a) \in Values
        BY <1>1, <2>2, EnteredFields
      <3>2. [sessions[1] EXCEPT !.fields = Entered(a)] \in Session
        BY <1>2, <3>1, PartsOfRecord
      <3>3. sessions' = [sessions EXCEPT ![1] = [sessions[1] EXCEPT !.fields = Entered(a)]]
        BY <1>1, <1>2, <2>2
      <3> QED
        BY <2>1, <3>2, <3>3
    <2>3. CASE ~ IsField(a)
      BY <1>1, <2>1, <2>3
    <2> QED
      BY <2>2, <2>3
  <1>7. page' # NoPage
    BY <1>1, <1>5, NothingAssumption
  <1>8. page.req' = page.req /\ page.seen' = page.seen /\ page.stage' = "written"
        /\ page.answer' = LastRequest(page) /\ page.processed' = FALSE /\ page.processed = FALSE
    BY <1>1, <1>2 DEF Page
  <1>9. IsField(a) => sessions' = [sessions EXCEPT ![1].fields = Entered(a)]
    BY <1>1, <1>2
  <1> QED
    BY <1>1, <1>2, <1>3, <1>5, <1>6, <1>7, <1>8, <1>9

SubmitFrame ==
  UNCHANGED <<asked, browser, account, handlers, url, letters, torn, closings>>

LEMMA SubmitKeepsRecords ==
  ASSUME Fit, Submit
  PROVE  /\ SubmitFrame
         /\ \A k \in Slots : /\ sessions[k] \in Session
                             /\ Marks(sessions[k])' = Marks(sessions[k])
                             /\ sessions[k].requests' = sessions[k].requests
                             /\ \A x : Lists(sessions[k], x)' <=> Lists(sessions[k], x)
                             /\ IsBlank(sessions[k])' <=> IsBlank(sessions[k])
         /\ ~ IsField(asked[page.req]) => sessions' = sessions
         /\ IsField(asked[page.req]) => sessions[1].fields' = Entered(asked[page.req])
  <1> DEFINE a == asked[page.req]
  <1>1. SubmitFrame
    BY DEF Submit, SubmitFrame
  <1>2. \A k \in Slots : sessions[k] \in Session /\ sessions \in [Slots -> Session]
    BY DEF Fit, TypeOK
  <1>3. CASE IsField(a)
    <2>1. sessions' = [sessions EXCEPT ![1].fields = Entered(a)]
      BY <1>3, SubmitTypes
    <2>2. sessions[1].fields' = Entered(a)
      BY <1>2, <2>1 DEF Slots, Session
    <2>3. ASSUME NEW k \in Slots
          PROVE  /\ sessions[k].requests' = sessions[k].requests
                 /\ sessions[k].options' = sessions[k].options /\ sessions[k].puts' = sessions[k].puts
                 /\ sessions[k].version' = sessions[k].version
                 /\ sessions[k].closed' = sessions[k].closed
                 /\ sessions[k].messages' = sessions[k].messages
                 /\ sessions[k].challenges' = sessions[k].challenges
      BY <1>2, <2>1 DEF Slots, Session
    <2> QED
      BY <1>1, <1>2, <1>3, <2>2, <2>3 DEF Marks, Lists, IsBlank
  <1>4. CASE ~ IsField(a)
    <2>1. sessions' = sessions
      BY <1>4, SubmitTypes
    <2> QED
      BY <1>1, <1>2, <1>4, <2>1 DEF Marks, Lists, IsBlank
  <1> QED
    BY <1>3, <1>4

LEMMA SubmitKeepsOthers ==
  ASSUME Fit, Submit
  PROVE  /\ TypeOK' /\ RequestsFit' /\ OperationFits' /\ RecordsFit' /\ UrlFits'
         /\ PageFits' /\ TabsFit' /\ LettersFit'
  <1> DEFINE a == asked[page.req]
  <1>0. SubmitFrame
    BY SubmitKeepsRecords
  <1> USE DEF SubmitFrame, browser, letters
  <1>1. TypeOK'
    <2>1. sessions' \in [Slots -> Session] /\ page' \in Page
      BY SubmitTypes
    <2> QED
      BY <1>0, <2>1 DEF Fit, TypeOK
  <1>2. RequestsFit'
    BY <1>0 DEF Fit, RequestsFit, AskFits, CountsFit, HasGot, IsField, IsPending
  <1>3. OperationFits'
    <2>1. sessions[1].requests' = sessions[1].requests
      BY SubmitKeepsRecords DEF Slots
    <2> QED
      BY <1>0, <2>1 DEF Fit, OperationFits, HasGot, IsPending
  <1>4. RecordsFit'
    <2>1. \A r : Through(r)' <=> Through(r)
      BY <1>0 DEF Through, IsPending
    <2>2. \A k \in Slots : RecordFits(sessions[k])'
      BY <2>1, SubmitKeepsRecords DEF Fit, RecordsFit, RecordFits
    <2>3. \A r \in Ids : IsPending(r)' => RecordFits(handlers[r])'
      BY <1>0, <2>1 DEF Fit, RecordsFit, RecordFits, IsPending, Lists, IsBlank, Marks
    <2>4. RecordFits(page.seen)'
      <3>1. page # NoPage /\ page.seen' = page.seen
        BY SubmitTypes
      <3> QED
        BY <2>1, <3>1 DEF Fit, RecordsFit, RecordFits, Lists, IsBlank, Marks
    <2> QED
      BY <2>2, <2>3, <2>4 DEF RecordsFit
  <1>5. UrlFits' /\ TabsFit'
    BY <1>0 DEF Fit, UrlFits, TabsFit, IsPending
  <1>6. PageFits'
    <2>1. Through(LastRequest(page)) /\ page.seen.requests # <<>>
      BY SubmitTypes DEF Fit, PageFits, RecordsFit, RecordFits
    <2>2. /\ url' # NoUrl /\ page.req' = url' /\ page.processed' = FALSE
          /\ page.seen.requests' # <<>> /\ page.answer' # 0
          /\ page.answer' \in DOMAIN asked' /\ ~ IsPending(page.answer)'
      <3>1. LastRequest(page) # 0
        BY SubmitTypes DEF Ids
      <3> QED
        BY <1>0, <2>1, <3>1, SubmitTypes DEF Fit, PageFits, Through, IsPending
    <2>3. page.answer' = page.req' => reply'[page.req'] = "none"
      <3>1. page.req \in assoc
        BY SubmitTypes DEF Fit, PageFits, UrlFits
      <3> QED
        BY <1>0, <2>1, <3>1, SubmitTypes DEF Through
    <2>4. ASSUME IsField(a)
          PROVE  /\ sessions[1].fields' = Entered(asked[page.req])'
                 /\ a.item \in Marks(sessions[1])' \union torn'
      <3>1. page.req' = page.req /\ page.seen' = page.seen /\ asked' = asked
        BY <1>0, SubmitTypes
      <3>2. Entered(asked[page.req])' = Entered(a)
        BY <3>1 DEF Entered
      <3>3. a.item \in Marks(sessions[1]) \union torn
        BY <2>4, SubmitTypes DEF Fit, PageFits
      <3> QED
        BY <1>0, <2>4, <3>2, <3>3, SubmitKeepsRecords DEF Slots
    <2>5. IsField(asked[page.req])' => IsField(a)
      BY <1>0, SubmitTypes DEF IsField
    <2> QED
      <3>1. asked[page.req]' = a
        BY <1>0, SubmitTypes
      <3> QED
        BY <2>2, <2>3, <2>4, <2>5, <3>1 DEF PageFits
  <1>7. LettersFit'
    BY <1>0 DEF Fit, LettersFit, IsPending
  <1> QED
    BY <1>1, <1>2, <1>3, <1>4, <1>5, <1>6, <1>7

LEMMA SubmitKeepsFit ==
  ASSUME Fit, Submit
  PROVE  Fit'
  <1> DEFINE a == asked[page.req]
  <1>0. SubmitFrame
    BY SubmitKeepsRecords
  <1> USE DEF SubmitFrame, browser, letters
  <1>1. /\ page # NoPage /\ page.stage \in {"ready", "sent"} /\ page.req = url
        /\ page.req \in DOMAIN asked /\ page.req \in Ids /\ url # NoUrl /\ AskFits(page.req)
        /\ page' # NoPage /\ page.req' = page.req /\ page.seen' = page.seen
        /\ page.stage' = "written" /\ page.answer' = LastRequest(page)
        /\ \A x \in Ids : ~ Lists(page.seen, x) => LastRequest(page) # x
        /\ a.kind = "rejectFieldValue" => page.seen.fields[a.item] # <<>>
    BY SubmitTypes, PageHasRequest DEF Fit, PageFits
  <1>2. ASSUME NEW f \in Fields \ torn
        PROVE  ToldFits(f)' /\ EntryFits(f)'
    <2>0. ToldFits(f) /\ EntryFits(f)
      BY DEF Fit, FieldsFit
    <2>1. ToldFits(f)'
      BY <1>0, <2>0 DEF ToldFits, About
    <2> DEFINE was == sessions[1].fields[f]
               now == sessions'[1].fields[f]
    <2>2. \A r \in Ids : About(r, f)' /\ Resolves(r)' => was # <<>> /\ r <= Head(was)
      BY <1>0, <2>0 DEF EntryFits, About, Resolves
    <2>3. was # <<>> => /\ Head(was) \in Ids /\ About(Head(was), f)
                        /\ f \in Marks(sessions[1])'
                        /\ Head(was) <= url
      BY <1>0, <1>1, <2>0, SubmitKeepsRecords DEF EntryFits, About, Slots
    \* The page's own request heads the entry.
    <2>4. ASSUME a.item = f, now # <<>>, Head(now) = url
          PROVE  EntryFits(f)'
      <3>1. IsField(a)
        BY <1>1, <2>4 DEF AskFits
      <3>2. f \in Marks(sessions[1])'
        <4>1. f \in Marks(sessions[1])
          BY <1>1, <2>4, <3>1 DEF Fit, PageFits
        <4> QED
          BY <4>1, SubmitKeepsRecords DEF Slots
      <3>3. About(url, f)' /\ Standing(url)' /\ url \in Ids
        BY <1>0, <1>1, <2>4 DEF About, Standing
      <3>4. \A r \in Ids : About(r, f)' /\ Resolves(r)' => r <= url
        <4>1. \A x, y, z \in Ids : x <= y /\ y <= z => x <= z
          BY DEF Ids
        <4> QED
          BY <1>1, <2>2, <2>3, <4>1
      <3>5. url <= url
        BY <3>3 DEF Ids
      <3> QED
        BY <1>0, <1>1, <2>4, <3>2, <3>3, <3>4, <3>5 DEF EntryFits
    \* The entry is headed as before.
    <2>5. ASSUME was # <<>> <=> now # <<>>, now # <<>> => Head(now) = Head(was),
                 a.item = f => now # <<>> /\ a.kind = "addField" /\ Head(now) # url
          PROVE  EntryFits(f)'
      <3>1. now # <<>> => Standing(Head(was))'
        BY <1>0, <1>1, <2>0, <2>5 DEF EntryFits, Standing, IsPending
      <3>2. ASSUME now # <<>>, asked[url].kind = "addField", asked[url].item = f, Head(was) # url
            PROVE  IsSpurious(url, f)'
        <4>1. IsSpurious(url, f)
          BY <1>1, <2>0, <2>5, <3>2 DEF EntryFits
        <4>2. \A k \in Slots : ~ Lists(sessions[k], url)'
          BY <4>1, <1>0, SubmitKeepsRecords DEF IsSpurious
        <4>3. ~ Lists(page.seen, url)' /\ page.answer' # url
          <5>1. ~ Lists(page.seen, url)
            BY <1>1, <4>1 DEF IsSpurious
          <5>2. LastRequest(page) # url
            BY <1>1, <5>1
          <5> QED
            BY <1>0, <1>1, <5>1, <5>2 DEF Lists
        <4> QED
          BY <1>0, <4>1, <4>2, <4>3 DEF IsSpurious, Lists, IsPending, Marks
      <3>3. a.item = f => page.answer' # page.req'
        <4>1. ASSUME a.item = f
              PROVE  LastRequest(page) # url
          <5>1. IsSpurious(url, f)
            BY <1>1, <2>0, <2>5, <4>1 DEF EntryFits
          <5>2. ~ Lists(page.seen, url)
            BY <1>1, <5>1 DEF IsSpurious
          <5> QED
            BY <1>1, <5>2
        <4> QED
          BY <1>1, <4>1
      <3> QED
        BY <1>0, <1>1, <2>2, <2>3, <2>5, <3>1, <3>2, <3>3 DEF EntryFits, About
    <2>6. CASE a.item # f \/ ~ IsField(a)
      <3>1. now = was
        <4>1. CASE ~ IsField(a)
          BY <4>1, SubmitKeepsRecords
        <4>2. CASE IsField(a) /\ a.item # f
          BY <1>1, <4>2, SubmitKeepsRecords, EnteredFields
        <4> QED
          BY <2>6, <4>1, <4>2
      <3>2. a.item # f
        BY <1>1, <2>6 DEF AskFits
      <3> QED
        BY <2>1, <2>5, <3>1, <3>2
    <2>7. CASE a.item = f /\ IsField(a)
      <3> DEFINE e == Entered(a)[f]
                 s == page.seen.fields[f]
      <3>1. now = e
        BY <2>7, SubmitKeepsRecords
      <3>2. /\ a.kind = "addField" =>
                 /\ e # <<>> /\ Head(e) = IF s = <<>> THEN page.req ELSE Head(s)
                 /\ s # <<>> => was # <<>> /\ Head(was) = Head(s)
            /\ a.kind # "addField" /\ s # <<>> => e # <<>> /\ Head(e) = page.req
        BY <1>1, <2>7, EnteredFields
      <3> HIDE DEF e, s, a, was, now
      <3>3. CASE now # <<>> /\ Head(now) = url
        BY <2>1, <2>4, <2>7, <3>3
      <3>4. CASE ~ (now # <<>> /\ Head(now) = url)
        <4>1. a.kind # "addField" => s # <<>>
          BY <1>1, <2>7 DEF IsField, a, s
        <4>2. a.kind = "addField" /\ s # <<>> /\ now # <<>> /\ Head(now) = Head(s) /\ Head(now) # url
              /\ was # <<>> /\ Head(was) = Head(s)
          BY <1>1, <3>1, <3>2, <3>4, <4>1
        <4> QED
          BY <2>1, <2>5, <2>7, <4>2
      <3> QED
        BY <3>3, <3>4
    <2> QED
      BY <2>1, <2>6, <2>7
  <1>3. FieldsFit'
    BY <1>0, <1>2 DEF FieldsFit
  <1> QED
    BY <1>3, SubmitKeepsOthers DEF Fit

-----------------------------------------------------------------------------
(* The page is closed                                                      *)

LEMMA ClosedPage ==
  ASSUME Fit, ClosePage
  PROVE  /\ page' = NoPage /\ mail \subseteq mail' /\ mail' \subseteq Letter
         /\ torn \subseteq torn' /\ torn' \subseteq Fields
         /\ \A m \in mail' \ mail : m.how = "reject" /\ m.req \in DOMAIN asked /\ ~ IsPending(m.req)
         /\ \A f \in Fields \ torn' : \A h \in Ids :
               About(h, f) /\ Standing(h) =>
                  \/ reply[h] = "resolve"
                  \/ reply[h] = "none" /\ ~ IsPending(h) /\ \E m \in mail' : m.req = h
  <1>1. page' = NoPage /\ mail' = mail \union Closing(page) /\ torn' = torn \union Tearing(page)
    BY DEF ClosePage
  <1>2. mail \subseteq Letter /\ torn \subseteq Fields
    BY DEF Fit, TypeOK
  <1>3. CASE page = NoPage
    <2>1. Closing(page) = {} /\ Tearing(page) = {}
      BY <1>3 DEF Closing, Tearing
    <2> QED
      BY <1>1, <1>2, <1>3, <2>1 DEF Standing
  <1>4. CASE page # NoPage
    <2> DEFINE l == LastRequest(page)
               a == asked[page.req]
    <2>1. /\ page.req \in Ids /\ page.req \in DOMAIN asked /\ page.req \in assoc
          /\ AskFits(page.req) /\ page.seen.requests \in Seq(Ids)
          /\ IsField(a) => a.item \in Fields
      BY <1>4, PageHasRequest DEF Fit, PageFits, UrlFits
    <2>2. page.stage # "waiting" => l \in Ids /\ l \in DOMAIN asked /\ ~ IsPending(l)
                                    /\ (l \in assoc => reply[l] = "none")
      <3>1. ASSUME page.stage # "waiting"
            PROVE  l \in Ids /\ Lists(page.seen, l)
        BY <1>4, <2>1, <3>1, LastRequestIsListed DEF Fit, PageFits, Ids
      <3> QED
        BY <1>4, <3>1 DEF Fit, RecordsFit, RecordFits, Through
    <2> HIDE DEF l
    <2>3. \A m \in Closing(page) : /\ page.stage # "waiting"
                                   /\ m = [req |-> l, how |-> "reject", value |-> 0]
      BY <1>4 DEF Closing, l
    <2>4. \A m \in Closing(page) : m \in Letter /\ m.how = "reject" /\ m.req = l
      BY <2>2, <2>3 DEF Letter
    <2>5. Tearing(page) \subseteq Fields
      BY <2>1 DEF Tearing
    <2>6. ASSUME NEW f \in Fields, f \notin torn', NEW h \in Ids, About(h, f), Standing(h)
          PROVE  \/ reply[h] = "resolve"
                 \/ reply[h] = "none" /\ ~ IsPending(h) /\ \E m \in mail' : m.req = h
      <3>1. CASE page.req = h /\ page.stage = "written"
        <4>1. a.item = f /\ IsField(a)
          BY <2>1, <2>6, <3>1 DEF About, AskFits
        <4>2. l = page.req
          BY <1>1, <1>4, <2>6, <3>1, <4>1 DEF Tearing, l
        <4>3. ~ page.processed /\ a.kind \notin RunByThemselves
          BY <1>4, <3>1, <4>1 DEF Fit, PageFits, RunByThemselves, IsField
        <4>4. [req |-> l, how |-> "reject", value |-> 0] \in Closing(page)
          BY <1>4, <3>1, <4>3 DEF Closing, l
        <4>5. \E m \in mail' : m.req = h
          BY <1>1, <3>1, <4>2, <4>4
        <4> QED
          BY <2>1, <2>2, <3>1, <4>2, <4>5
      <3>2. CASE ~ (page.req = h /\ page.stage = "written")
        BY <1>1, <2>6, <3>2 DEF Standing
      <3> QED
        BY <3>1, <3>2
    <2> QED
      BY <1>1, <1>2, <2>2, <2>3, <2>4, <2>5, <2>6
  <1> QED
    BY <1>3, <1>4

\* The entries, when there is no page, no request is newly answered and the record,
\* the requests and the handlers are as before.
LEMMA FieldsWithoutPage ==
  ASSUME Fit, page' = NoPage, torn \subseteq torn',
         UNCHANGED <<asked, browser, sessions, handlers>>, url' \in {url, NoUrl},
         mail \subseteq mail', \A m \in mail' \ mail : m.how = "reject",
         \A f \in Fields \ torn' : \A h \in Ids :
            About(h, f) /\ Standing(h) =>
               \/ reply[h] = "resolve"
               \/ reply[h] = "none" /\ ~ IsPending(h) /\ \E m \in mail' : m.req = h
  PROVE  FieldsFit'
  <1> USE DEF browser
  <1> SUFFICES ASSUME NEW f \in Fields, f \notin torn'
               PROVE  ToldFits(f)' /\ EntryFits(f)'
    BY DEF FieldsFit
  <1>0. ToldFits(f) /\ EntryFits(f)
    BY DEF Fit, FieldsFit
  <1>1. ToldFits(f)'
    BY <1>0 DEF ToldFits, About
  <1> DEFINE entry == sessions[1].fields[f]
             h == Head(entry)
  <1>2. entry' = entry /\ h' = h
    OBVIOUS
  <1>3. \A r \in Ids : About(r, f)' /\ Resolves(r)' => entry' # <<>> /\ r <= h'
    BY <1>0, <1>2 DEF EntryFits, About, Resolves
  <1>4. ASSUME entry # <<>>
        PROVE  /\ h' \in Ids /\ About(h, f)' /\ Standing(h)' /\ f \in Marks(sessions[1])'
               /\ url' # NoUrl => h' <= url'
               /\ url' # NoUrl /\ asked'[url'].kind = "addField" /\ asked'[url'].item = f /\ h' # url'
                     => IsSpurious(url, f)'
    <2>1. h \in Ids /\ About(h, f) /\ Standing(h) /\ f \in Marks(sessions[1])
          /\ (url # NoUrl => h <= url)
      BY <1>0, <1>4 DEF EntryFits
    <2>2. Standing(h)'
      BY <2>1 DEF Standing, IsPending
    <2>3. ASSUME url' # NoUrl, asked'[url'].kind = "addField", asked'[url'].item = f, h' # url'
          PROVE  IsSpurious(url, f)'
      BY <1>0, <1>4, <2>3 DEF EntryFits, IsSpurious, Lists, IsPending, Marks
    <2> QED
      BY <2>1, <2>2, <2>3 DEF About, Marks
  <1> QED
    BY <1>1, <1>2, <1>3, <1>4 DEF EntryFits

LEMMA LeaveKeepsFit ==
  ASSUME Fit, Leave, page # NoPage, closings' \in 0 .. MaxClosings
  PROVE  Fit'
  <1>1. /\ page' = NoPage /\ mail \subseteq mail' /\ mail' \subseteq Letter
        /\ torn \subseteq torn' /\ torn' \subseteq Fields
        /\ \A m \in mail' \ mail : m.how = "reject" /\ m.req \in DOMAIN asked /\ ~ IsPending(m.req)
    BY ClosedPage DEF Leave
  <1>2. UNCHANGED <<asked, browser, sessions, account, handlers, assoc, hidden>>
        /\ url' \in {url, NoUrl}
    BY DEF Leave, UrlAfter
  <1> USE DEF browser
  <1>3. TypeOK'
    BY <1>1, <1>2 DEF Fit, TypeOK
  <1>4. RequestsFit' /\ OperationFits'
    BY <1>2 DEF Fit, RequestsFit, AskFits, CountsFit, OperationFits, HasGot, IsField, IsPending
  <1>5. RecordsFit'
    BY <1>1, <1>2 DEF Fit, RecordsFit, RecordFits, Through, IsPending, Lists, IsBlank, Marks
  <1>6. UrlFits' /\ PageFits' /\ TabsFit'
    BY <1>1, <1>2 DEF Fit, UrlFits, PageFits, TabsFit, IsPending
  <1>7. LettersFit'
    BY <1>1, <1>2 DEF Fit, LettersFit, IsPending
  <1>8. FieldsFit'
    <2>1. \A f \in Fields \ torn' : \A h \in Ids :
            About(h, f) /\ Standing(h) =>
               \/ reply[h] = "resolve"
               \/ reply[h] = "none" /\ ~ IsPending(h) /\ \E m \in mail' : m.req = h
      BY ClosedPage DEF Leave
    <2> QED
      BY <1>1, <1>2, <2>1, FieldsWithoutPage
  <1> QED
    BY <1>3, <1>4, <1>5, <1>6, <1>7, <1>8 DEF Fit

LEMMA CloseKeepsFit ==
  ASSUME Fit, Close \/ Dismiss
  PROVE  Fit'
  <1>1. Leave /\ page # NoPage /\ closings' \in 0 .. MaxClosings
    BY SecretStarAssumption DEF Close, Dismiss, Fit, TypeOK
  <1> QED
    BY <1>1, LeaveKeepsFit

-----------------------------------------------------------------------------
(* The page answers                                                        *)
AnswerFrame ==
  UNCHANGED <<asked, browser, sessions, account, handlers, url, assoc, hidden, closings>>

\* A page goes on with its request and what it has seen, and one more message
\* is on its way.
LEMMA AnswerKeepsOthers ==
  ASSUME Fit, AnswerFrame, page # NoPage, page' \in Page, page.req' = page.req,
         page.seen' = page.seen, page.stage' # "waiting", page.stage' # "written",
         page.stage # "waiting", torn \subseteq torn', torn' \subseteq Fields,
         page.answer' # 0 => page.answer' \in DOMAIN asked /\ ~ IsPending(page.answer'),
         page.answer' = page.req => reply[page.req] = "none",
         NEW m \in Letter, mail' = mail \union {m}, m.req \in DOMAIN asked, ~ IsPending(m.req),
         m.how = "resolve" /\ asked[m.req].item \in Fields \ torn' => m.value = m.req
  PROVE  /\ TypeOK' /\ RequestsFit' /\ OperationFits' /\ RecordsFit' /\ UrlFits'
         /\ PageFits' /\ TabsFit' /\ LettersFit'
  <1> USE DEF AnswerFrame, browser
  <1>1. TypeOK'
    BY DEF Fit, TypeOK
  <1>2. RequestsFit' /\ OperationFits'
    BY DEF Fit, RequestsFit, AskFits, CountsFit, OperationFits, HasGot, IsField, IsPending
  <1>3. RecordsFit'
    BY DEF Fit, RecordsFit, RecordFits, Through, IsPending, Lists, IsBlank, Marks
  <1>4. UrlFits' /\ TabsFit'
    BY DEF Fit, UrlFits, TabsFit, IsPending
  <1>5. PageFits'
    <2>1. Entered(asked[page.req])' = Entered(asked[page.req])
      BY DEF Entered
    <2> QED
      BY <2>1 DEF Fit, PageFits, IsPending, IsField, Marks
  <1>6. LettersFit'
    <2>1. \A x \in mail' : x = m \/ x \in mail
      OBVIOUS
    <2> QED
      BY <2>1 DEF Fit, LettersFit, IsPending
  <1> QED
    BY <1>1, <1>2, <1>3, <1>4, <1>5, <1>6

\* The entries when a page has answered: the one its request heads has its answer
\* on its way.
LEMMA AnswerKeepsFields ==
  ASSUME Fit, AnswerFrame, page # NoPage, page' # NoPage, page.req' = page.req,
         page.seen' = page.seen, page.stage' # "written", torn \subseteq torn',
         page.answer' \in {page.answer, LastRequest(page)},
         page.stage # "waiting",
         mail \subseteq mail',
         \A f \in Fields \ torn' : \A r \in Ids :
            About(r, f) => /\ (\E m \in mail' \ mail : m.req = r /\ m.how = "resolve")
                                => page.stage = "written" /\ page.answer = page.req /\ r = page.req
                           /\ page.req = r /\ page.stage = "written"
                                => reply[r] = "none" /\ ~ IsPending(r) /\ \E m \in mail' : m.req = r
  PROVE  FieldsFit'
  <1> USE DEF AnswerFrame, browser
  <1> SUFFICES ASSUME NEW f \in Fields, f \notin torn'
               PROVE  ToldFits(f)' /\ EntryFits(f)'
    BY DEF FieldsFit
  <1>0. ToldFits(f) /\ EntryFits(f)
    BY DEF Fit, FieldsFit
  <1>1. ToldFits(f)'
    BY <1>0 DEF ToldFits, About
  <1> DEFINE entry == sessions[1].fields[f]
             h == Head(entry)
  <1>2. entry' = entry /\ h' = h
    OBVIOUS
  <1>3. ASSUME NEW r \in Ids, About(r, f), Resolves(r)'
        PROVE  entry # <<>> /\ r <= h
    <2>1. CASE Resolves(r)
      BY <1>0, <1>3, <2>1 DEF EntryFits
    <2>2. CASE \E m \in mail' \ mail : m.req = r /\ m.how = "resolve"
      <3>1. page.stage = "written" /\ page.answer = page.req /\ r = page.req
        BY <1>3, <2>2
      <3>2. entry # <<>> /\ h = r
        BY <1>0, <1>3, <3>1 DEF EntryFits
      <3> QED
        BY <3>2 DEF Ids
    <2> QED
      BY <1>3, <2>1, <2>2 DEF Resolves
  <1>4. ASSUME entry # <<>>
        PROVE  /\ h' \in Ids /\ About(h, f)' /\ Standing(h)' /\ f \in Marks(sessions[1])'
               /\ url' # NoUrl => h' <= url'
               /\ url' # NoUrl /\ asked'[url'].kind = "addField" /\ asked'[url'].item = f /\ h' # url'
                     => IsSpurious(url, f)'
    <2>1. h \in Ids /\ About(h, f) /\ Standing(h) /\ f \in Marks(sessions[1])
          /\ (url # NoUrl => h <= url)
      BY <1>0, <1>4 DEF EntryFits
    <2>2. Standing(h)'
      BY <2>1 DEF Standing, IsPending
    <2>3. ASSUME url # NoUrl, asked[url].kind = "addField", asked[url].item = f, h # url
          PROVE  IsSpurious(url, f)'
      <3>1. IsSpurious(url, f) /\ url \in Ids
        BY <1>0, <1>4, <2>3 DEF EntryFits, Fit, TypeOK
      <3>2. page.answer' # url
        <4>1. page.seen.requests \in Seq(Ids)
          BY PageHasRequest
        <4>2. ~ Lists(page.seen, url) /\ page.answer # url
          BY <3>1 DEF IsSpurious
        <4> QED
          BY <3>1, <4>1, <4>2, LastRequestIsListed
      <3> QED
        BY <3>1, <3>2 DEF IsSpurious, Lists, IsPending, Marks
    <2> QED
      BY <2>1, <2>2, <2>3 DEF About, Marks
  <1> QED
    BY <1>1, <1>2, <1>3, <1>4 DEF EntryFits, About

LEMMA GiveUpKeepsFit ==
  ASSUME Fit, GiveUp
  PROVE  Fit'
  <1> DEFINE a == asked[page.req]
             l == LastRequest(page)
             m == [req |-> l, how |-> "reject", value |-> 0]
             p == [page EXCEPT !.stage = "sent", !.answer = l, !.submits = @ + 1]
  <1>1. /\ page # NoPage /\ page.stage \in {"ready", "sent"} /\ ~ page.processed
        /\ page.submits < MaxSubmits /\ page' = p /\ mail' = mail \union {m}
        /\ UNCHANGED torn /\ AnswerFrame
    BY DEF GiveUp, CanSubmit, AnswerFrame
  <1>2. page \in Page /\ page.seen.requests \in Seq(Ids) /\ page.seen.requests # <<>>
        /\ page.req \in assoc
    BY <1>1, PageHasRequest DEF Fit, PageFits, UrlFits
  <1>3. /\ l \in Ids /\ Through(l)
        /\ \A x \in Ids : ~ Lists(page.seen, x) => l # x
    <2>1. 0 \notin Ids
      BY DEF Ids
    <2>2. page.req \in Ids
      BY <1>1, PageHasRequest
    <2>3. /\ l \in Ids /\ Lists(page.seen, l)
          /\ \A x \in Ids : ~ Lists(page.seen, x) => l # x
      BY <1>2, <2>1, <2>2, LastRequestIsListed
    <2> QED
      BY <1>1, <2>3 DEF Fit, RecordsFit, RecordFits
  <1>4. page.submits + 1 \in 0 .. MaxSubmits
    <2>1. page.submits \in 0 .. MaxSubmits
      BY <1>2 DEF Page
    <2> QED
      BY <1>1, <2>1, SecretStarAssumption
  <1> HIDE DEF l
  <1>5. p \in Page
    BY <1>2, <1>3, <1>4 DEF Page
  <1>6. /\ page.req' = page.req /\ page.seen' = page.seen /\ page.stage' = "sent"
        /\ page.answer' = l
    BY <1>1, <1>2 DEF Page
  <1>7. m \in Letter /\ m.req = l /\ m.how = "reject"
    BY <1>3 DEF Letter
  <1>8. page' # NoPage
    BY <1>1, <1>5, NothingAssumption
  <1> HIDE DEF m, p
  <1>9. /\ TypeOK' /\ RequestsFit' /\ OperationFits' /\ RecordsFit' /\ UrlFits'
        /\ PageFits' /\ TabsFit' /\ LettersFit'
    <2>1. torn \subseteq torn' /\ torn' \subseteq Fields
      BY <1>1 DEF Fit, TypeOK
    <2>2. page.answer' \in DOMAIN asked /\ ~ IsPending(page.answer')
          /\ (page.answer' = page.req => reply[page.req] = "none")
      BY <1>2, <1>3, <1>6 DEF Through
    <2>3. m.req \in DOMAIN asked /\ ~ IsPending(m.req)
      BY <1>3, <1>7 DEF Through
    <2> QED
      BY <1>1, <1>5, <1>6, <1>7, <2>1, <2>2, <2>3, AnswerKeepsOthers
  <1>10. FieldsFit'
    <2>1. page.answer' \in {page.answer, LastRequest(page)}
      BY <1>6 DEF l
    <2>2. \A x \in mail' \ mail : x.how # "resolve"
      BY <1>1, <1>7
    <2>3. page.stage # "written" /\ page.stage # "waiting"
      BY <1>1
    <2> QED
      BY <1>1, <1>6, <1>8, <2>1, <2>2, <2>3, AnswerKeepsFields
  <1> QED
    BY <1>9, <1>10 DEF Fit

LEMMA SendKeepsFit ==
  ASSUME Fit, Send
  PROVE  Fit'
  <1> DEFINE a == asked[page.req]
             l == page.answer
             m == [req |-> l, how |-> "resolve", value |-> IF IsField(a) THEN page.req ELSE 0]
  <1>1. /\ page # NoPage /\ page.stage = "written" /\ mail' = mail \union {m}
        /\ torn' = IF l = page.req THEN torn
                   ELSE torn \union (Fields \intersect {a.item, asked[l].item})
        /\ AnswerFrame
    BY DEF Send, AnswerFrame
  <1>2. PICK st \in {"sent", "done"} : page' = [page EXCEPT !.stage = st]
    BY DEF Send
  <1>3. /\ page \in Page /\ page.req \in Ids /\ page.req \in DOMAIN asked /\ AskFits(page.req)
        /\ l # 0 /\ l \in DOMAIN asked /\ ~ IsPending(l)
        /\ l = page.req => reply[page.req] = "none"
    BY <1>1, PageHasRequest DEF Fit, PageFits
  <1>4. /\ page' \in Page /\ page.req' = page.req /\ page.seen' = page.seen
        /\ page.stage' # "written" /\ page.stage' # "waiting" /\ page.answer' = l
    BY <1>2, <1>3 DEF Page
  <1>5. /\ m \in Letter /\ m.req = l /\ m.how = "resolve"
        /\ m.value = IF IsField(a) THEN page.req ELSE 0
    <2>1. l \in Ids
      BY <1>3, RequestsAreInDomain DEF Fit
    <2> QED
      BY <1>3, <2>1 DEF Letter
  <1>6. page' # NoPage
    BY <1>4, NothingAssumption
  <1>7. torn \subseteq torn' /\ torn' \subseteq Fields
    BY <1>1 DEF Fit, TypeOK
  <1> HIDE DEF m
  <1>8. asked[m.req].item \in Fields \ torn' => m.value = m.req /\ l = page.req
    <2>1. SUFFICES ASSUME asked[l].item \in Fields \ torn'
                   PROVE  l = page.req /\ m.value = m.req
      BY <1>5
    <2>2. l = page.req
      BY <1>1, <2>1
    <2> QED
      BY <1>3, <1>5, <2>1, <2>2 DEF AskFits
  <1>9. /\ TypeOK' /\ RequestsFit' /\ OperationFits' /\ RecordsFit' /\ UrlFits'
        /\ PageFits' /\ TabsFit' /\ LettersFit'
    BY <1>1, <1>3, <1>4, <1>5, <1>7, <1>8, AnswerKeepsOthers
  <1>10. FieldsFit'
    <2>1. ASSUME NEW f \in Fields \ torn', NEW r \in Ids, About(r, f)
          PROVE  /\ (\E x \in mail' \ mail : x.req = r /\ x.how = "resolve")
                       => l = page.req /\ r = page.req
                 /\ page.req = r => reply[r] = "none" /\ ~ IsPending(r) /\ \E x \in mail' : x.req = r
      <3>1. (\E x \in mail' \ mail : x.req = r /\ x.how = "resolve") => r = l /\ l = page.req
        BY <1>1, <1>5, <1>8, <2>1 DEF About
      <3>2. ASSUME page.req = r
            PROVE  l = page.req
        BY <1>1, <2>1, <3>2 DEF About
      <3>3. page.req = r => \E x \in mail' : x.req = r
        BY <1>1, <1>5, <3>2
      <3> QED
        BY <1>3, <3>1, <3>2, <3>3
    <2> QED
      BY <1>1, <1>4, <1>6, <1>7, <2>1, AnswerKeepsFields
  <1> QED
    BY <1>9, <1>10 DEF Fit

-----------------------------------------------------------------------------
(* The background handles a message                                        *)

LEMMA HideKeepsFit ==
  ASSUME Fit, NEW m \in mail, Hide(m)
  PROVE  Fit'
  <1> USE DEF browser, popup
  <1>1. /\ m \in mail \ hidden /\ hidden' = hidden \union {m}
        /\ UNCHANGED <<asked, browser, sessions, account, handlers, closings>>
    BY DEF Hide
  <1>2. /\ mail \subseteq mail' /\ mail' \subseteq Letter /\ torn \subseteq torn' /\ torn' \subseteq Fields
        /\ \A x \in mail' \ mail : x.how = "reject" /\ x.req \in DOMAIN asked /\ ~ IsPending(x.req)
        /\ m.req \notin assoc' /\ assoc' \subseteq assoc
        /\ \/ page' = NoPage /\ url' = NoUrl
           \/ page' = page /\ url' = url /\ assoc' = assoc /\ mail' = mail /\ torn' = torn
    <2>1. CASE m.req \in assoc
      <3>1. ClosePage /\ url' = NoUrl /\ assoc' = assoc \ {m.req}
        BY <2>1 DEF Hide
      <3> QED
        BY <3>1, ClosedPage
    <2>2. CASE m.req \notin assoc
      BY <2>2 DEF Hide, Fit, TypeOK
    <2> QED
      BY <2>1, <2>2
  <1>3. TypeOK'
    BY <1>1, <1>2 DEF Fit, TypeOK
  <1>4. RequestsFit' /\ OperationFits'
    <2>1. \A kind : HasGot(kind)' <=> HasGot(kind)
      BY <1>1 DEF HasGot
    <2>2. \A x \in DOMAIN asked' : AskFits(x)'
      BY <1>1, <2>1 DEF Fit, RequestsFit, AskFits, IsField
    <2>3. \A x \in Ids : CountsFit(x)'
      BY <1>1, <1>2 DEF Fit, RequestsFit, CountsFit, IsPending
    <2>4. OperationFits'
      BY <1>1, <2>1 DEF Fit, OperationFits, IsPending
    <2> QED
      BY <2>2, <2>3, <2>4 DEF RequestsFit
  <1>5. RecordsFit'
    <2>1. \A r : Through(r) => Through(r)'
      BY <1>1, <1>2 DEF Through, IsPending
    <2> QED
      BY <1>1, <1>2, <2>1 DEF Fit, RecordsFit, RecordFits, IsPending, Lists, IsBlank, Marks
  <1>6. UrlFits' /\ TabsFit'
    BY <1>1, <1>2 DEF Fit, UrlFits, TabsFit, IsPending
  <1>7. PageFits'
    BY <1>1, <1>2 DEF Fit, PageFits, IsPending, IsField, Entered, Marks
  <1>8. LettersFit'
    BY <1>1, <1>2 DEF Fit, LettersFit, IsPending
  <1>9. FieldsFit'
    <2>1. CASE m.req \in assoc
      <3>1. ClosePage /\ url' = NoUrl
        BY <2>1 DEF Hide
      <3>2. /\ page' = NoPage
            /\ \A f \in Fields \ torn' : \A h \in Ids :
                 About(h, f) /\ Standing(h) =>
                    \/ reply[h] = "resolve"
                    \/ reply[h] = "none" /\ ~ IsPending(h) /\ \E x \in mail' : x.req = h
        BY <3>1, ClosedPage
      <3> QED
        BY <1>1, <1>2, <3>1, <3>2, FieldsWithoutPage
    <2>2. CASE m.req \notin assoc
      <3>1. page' = page /\ url' = url /\ mail' = mail /\ torn' = torn
        BY <2>2 DEF Hide
      <3> QED
        BY <1>1, <3>1 DEF Fit, FieldsFit, ToldFits, EntryFits, Standing, IsSpurious, About,
                          Resolves, IsPending, Lists, Marks
    <2> QED
      BY <2>1, <2>2
  <1> QED
    BY <1>3, <1>4, <1>5, <1>6, <1>7, <1>8, <1>9 DEF Fit

-----------------------------------------------------------------------------
(* The browser settles a request                                           *)

\* An answer for a request that has no tab, or that is not shown; its handler is
\* through, or is now.
LEMMA SettledTypes ==
  ASSUME Fit, NEW r \in DOMAIN asked, NEW how \in {"resolve", "reject"}, NEW value \in Ids \union {0},
         Settle(r, how, value)
  PROVE  /\ op' \in {"none", "Registration", "Authentication"} /\ known' \subseteq Items
         /\ busy' \in BOOLEAN /\ reply' \in [Ids -> {"none", "resolve", "reject"}]
         /\ answers' \in [Ids -> 0 .. 2] /\ told' \in [Fields -> Ids \union {0}]
         /\ \A x \in Ids : reply'[x] = IF x = r /\ reply[r] = "none" THEN how ELSE reply[x]
         /\ \A x \in Ids : answers'[x] = 0 <=> answers[x] = 0 /\ x # r
  <1>1. r \in Ids /\ AskFits(r)
    BY RequestsAreInDomain DEF Fit, RequestsFit
  <1>2. /\ op \in {"none", "Registration", "Authentication"} /\ known \subseteq Items
        /\ reply \in [Ids -> {"none", "resolve", "reject"}]
        /\ answers \in [Ids -> 0 .. 2] /\ told \in [Fields -> Ids \union {0}]
    BY DEF Fit, TypeOK
  <1>3. op' \in {"none", "Registration", "Authentication"} /\ known' \subseteq Items
        /\ busy' \in BOOLEAN
    <2>1. op' \in {op, "Registration", "Authentication"}
      BY DEF Settle
    <2> QED
      BY <1>2, <2>1 DEF Settle
  <1>4. reply' = IF reply[r] = "none" THEN [reply EXCEPT ![r] = how] ELSE reply
    BY DEF Settle
  <1>5. answers' = [answers EXCEPT ![r] = IF @ = 2 THEN 2 ELSE @ + 1]
    BY DEF Settle
  <1>6. answers[r] \in 0 .. 2 /\ (IF answers[r] = 2 THEN 2 ELSE answers[r] + 1) \in 1 .. 2
    BY <1>1, <1>2
  <1>7. answers' \in [Ids -> 0 .. 2] /\ \A x \in Ids : answers'[x] = 0 <=> answers[x] = 0 /\ x # r
    BY <1>1, <1>2, <1>5, <1>6
  <1>8. told' \in [Fields -> Ids \union {0}]
    <2>1. CASE told' = told
      BY <1>2, <2>1
    <2>2. CASE told' # told
      <3>1. IsField(asked[r]) /\ told' = [told EXCEPT ![asked[r].item] = value]
        BY <2>2 DEF Settle
      <3>2. asked[r].item \in Fields
        BY <1>1, <3>1 DEF AskFits
      <3> QED
        BY <1>2, <3>1, <3>2
    <2> QED
      BY <2>1, <2>2
  <1> QED
    BY <1>1, <1>2, <1>3, <1>4, <1>7, <1>8

LEMMA RefuseKeepsFit ==
  ASSUME Fit, NEW r \in DOMAIN asked, Refuse(r)
  PROVE  Fit'
  <1> USE DEF popup, letters
  <1>1. /\ IsPending(r) /\ handlers' = [handlers EXCEPT ![r] = NoHandler]
        /\ Settle(r, "reject", 0)
        /\ UNCHANGED <<asked, sessions, account, popup, letters, torn, closings>>
        /\ asked[r].kind \notin {"approveOperation", "getUserAttributes"}
    BY DEF Refuse, Refuses, Handled, IsPending
  <1>2. r \in Ids /\ AskFits(r) /\ answers[r] = 0 /\ reply[r] = "none"
    <2>1. r \in Ids /\ CountsFit(r) /\ AskFits(r)
      BY RequestsAreInDomain DEF Fit, RequestsFit
    <2>2. answers[r] \in 0 .. 2
      BY <2>1 DEF Fit, TypeOK
    <2> QED
      BY <1>1, <2>1, <2>2 DEF CountsFit
  <1>3. /\ op' \in {"none", "Registration", "Authentication"} /\ known' \subseteq Items
        /\ busy' \in BOOLEAN /\ reply' \in [Ids -> {"none", "resolve", "reject"}]
        /\ answers' \in [Ids -> 0 .. 2] /\ told' \in [Fields -> Ids \union {0}]
        /\ \A x \in Ids : reply'[x] = IF x = r THEN "reject" ELSE reply[x]
        /\ \A x \in Ids : answers'[x] = 0 <=> answers[x] = 0 /\ x # r
    BY <1>1, <1>2, SettledTypes
  <1>4. op' = op /\ told' = told
    BY <1>1 DEF Settle
  <1>5. /\ handlers' \in [Ids -> Session \union {NoHandler}]
        /\ \A x \in Ids : IsPending(x)' <=> IsPending(x) /\ x # r
        /\ \A x \in Ids : x # r => handlers'[x] = handlers[x]
    BY <1>1, <1>2 DEF Fit, TypeOK, IsPending
  <1>6. \A x \in Ids : (reply'[x] = "resolve" <=> reply[x] = "resolve")
    BY <1>2, <1>3
  <1>7. DOMAIN asked \subseteq Ids
    BY RequestsAreInDomain DEF Fit
  <1>8. \A kind : HasGot(kind)' <=> HasGot(kind)
    BY <1>1, <1>6, <1>7 DEF HasGot
  <1>9. TypeOK'
    BY <1>1, <1>3, <1>5 DEF Fit, TypeOK
  <1>10. RequestsFit'
    <2>1. \A x \in DOMAIN asked' : AskFits(x)'
      BY <1>1, <1>8 DEF Fit, RequestsFit, AskFits, IsField
    <2>2. ASSUME NEW x \in Ids
          PROVE  CountsFit(x)'
      <3>1. CountsFit(x) /\ answers[x] \in 0 .. 2 /\ answers'[x] \in 0 .. 2
        BY <1>3 DEF Fit, RequestsFit, TypeOK
      <3>2. x > Len(asked) => x # r
        BY RequestsAreInDomain DEF Fit
      <3>3. answers'[x] > 0 <=> answers[x] > 0 \/ x = r
        BY <1>3, <3>1
      <3>4. reply'[x] = "none" <=> reply[x] = "none" /\ x # r
        BY <1>3
      <3> QED
        BY <1>1, <1>2, <1>3, <1>5, <3>1, <3>2, <3>3, <3>4 DEF CountsFit
    <2> QED
      BY <2>1, <2>2 DEF RequestsFit
  <1>11. OperationFits'
    <2>1. r # 1 /\ 1 \in Ids
      <3>1. 1 \in Ids
        <4>1. r \in 1 .. MaxRequests
          BY <1>2 DEF Ids
        <4> QED
          BY <4>1, SecretStarAssumption DEF Ids
      <3> QED
        BY <1>1, <1>2, <3>1 DEF AskFits
    <2>2. IsPending(1)' <=> IsPending(1)
      BY <1>5, <2>1
    <2>3. reply[2] = "resolve" /\ Len(asked) > 1 => reply'[2] = "resolve"
      <3>1. Len(asked) > 1 => 2 \in Ids
        BY <1>7, RequestsAreInDomain DEF Fit
      <3> QED
        BY <1>6, <3>1
    <2> QED
      BY <1>1, <1>4, <1>6, <1>8, <2>1, <2>2, <2>3 DEF Fit, OperationFits
  <1>12. RecordsFit'
    <2>1. \A x \in Ids : Through(x) => Through(x)'
      BY <1>1, <1>3, <1>5 DEF Through
    <2> QED
      BY <1>1, <1>5, <2>1 DEF Fit, RecordsFit, RecordFits, Lists, IsBlank, Marks
  <1>13. UrlFits' /\ TabsFit'
    <2>1. UrlFits'
      BY <1>1 DEF Fit, UrlFits
    <2>2. assoc \subseteq Ids
      BY DEF Fit, TypeOK
    <2> QED
      BY <1>1, <1>3, <1>5, <1>6, <2>1, <2>2 DEF Fit, TabsFit
  <1>14. PageFits'
    <2>1. page # NoPage /\ page.answer # 0 => /\ page.answer \in Ids /\ page.answer # r
                                              /\ ~ IsPending(page.answer)'
      BY <1>1, <1>5, <1>7 DEF Fit, PageFits
    <2>2. page # NoPage /\ page.answer = page.req => reply'[page.req] = "none"
      <3>1. page # NoPage => page.req \in Ids /\ 0 \notin Ids
        BY PageHasRequest DEF Ids
      <3> QED
        BY <1>3, <2>1, <3>1 DEF Fit, PageFits
    <2> QED
      BY <1>1, <2>1, <2>2 DEF Fit, PageFits, IsField, Entered, Marks
  <1>15. LettersFit'
    BY <1>1, <1>5, <1>7 DEF Fit, LettersFit
  <1>16. FieldsFit'
    <2> SUFFICES ASSUME NEW f \in Fields \ torn
                 PROVE  ToldFits(f)' /\ EntryFits(f)'
      BY <1>1 DEF FieldsFit
    <2>0. ToldFits(f) /\ EntryFits(f)
      BY DEF Fit, FieldsFit
    <2>1. ToldFits(f)'
      BY <1>1, <1>4, <1>6, <1>7, <2>0 DEF ToldFits, About
    <2>2. \A x \in Ids : About(x, f)' /\ Resolves(x)' => About(x, f) /\ Resolves(x)
      BY <1>1, <1>6 DEF About, Resolves
    <2>3. \A h \in Ids : Standing(h) => Standing(h)'
      BY <1>1, <1>3, <1>5, <1>6 DEF Standing
    <2>4. \A x \in Ids : IsSpurious(x, f) => IsSpurious(x, f)'
      BY <1>1, <1>5 DEF IsSpurious, Lists, Marks
    <2>5. url # NoUrl => url \in Ids
      BY DEF Fit, TypeOK
    <2> QED
      BY <1>1, <2>0, <2>1, <2>2, <2>3, <2>4, <2>5 DEF EntryFits, About, Marks
  <1> QED
    BY <1>9, <1>10, <1>11, <1>12, <1>13, <1>14, <1>15, <1>16 DEF Fit

\* What heads an entry is in it.
LEMMA HeadIsContained ==
  ASSUME NEW q \in Seq(Ids), q # <<>>
  PROVE  Contains(q, Head(q)) /\ Head(q) \in Ids
  <1>1. Len(q) \in Nat /\ Len(q) > 0 /\ Head(q) = q[1] /\ 1 \in 1 .. Len(q)
    BY EmptySeq, LenProperties, HeadTailProperties
  <1>2. q[1] \in Ids
    BY <1>1, ElementOfSeq
  <1>3. DOMAIN q = 1 .. Len(q)
    BY LenProperties
  <1> QED
    BY <1>1, <1>2, <1>3 DEF Contains

HandedOn(m) ==
  /\ m \in Letter /\ m.req \in DOMAIN asked /\ m.req \in Ids /\ AskFits(m.req)
  /\ ~ IsPending(m.req) /\ m.req \notin assoc
  /\ m \in mail /\ mail' = mail \ {m} /\ hidden' = hidden \ {m}
  /\ Settle(m.req, m.how, m.value)
  /\ UNCHANGED <<asked, sessions, account, handlers, popup, assoc, closings>>
  /\ \A x \in Ids : reply'[x] = IF x = m.req /\ reply[m.req] = "none" THEN m.how ELSE reply[x]
  /\ \A x \in Ids : reply[x] = "resolve" => reply'[x] = "resolve"
  /\ torn \subseteq torn' /\ torn' \subseteq Fields

LEMMA HandOnFacts ==
  ASSUME Fit, NEW m \in mail, HandOn(m)
  PROVE  HandedOn(m)
  <1>1. /\ m \in hidden /\ mail' = mail \ {m} /\ hidden' = hidden \ {m}
        /\ Settle(m.req, m.how, m.value)
        /\ torn' = IF m.how = "reject" /\ reply[m.req] = "none" /\ IsField(asked[m.req])
                      /\ Contains(sessions[asked[m.req].slot].fields[asked[m.req].item], m.req)
                   THEN torn \union {asked[m.req].item} ELSE torn
        /\ UNCHANGED <<asked, sessions, account, handlers, popup, assoc, closings>>
    BY DEF HandOn
  <1>2. m \in Letter /\ m.req \in DOMAIN asked /\ ~ IsPending(m.req) /\ m.req \notin assoc
    BY <1>1 DEF Fit, TypeOK, LettersFit
  <1>3. m.req \in Ids /\ AskFits(m.req) /\ m.how \in {"resolve", "reject"}
        /\ m.value \in Ids \union {0}
    BY <1>2 DEF Letter, Fit, RequestsFit
  <1>4. \A x \in Ids : reply'[x] = IF x = m.req /\ reply[m.req] = "none" THEN m.how ELSE reply[x]
    BY <1>1, <1>2, <1>3, SettledTypes
  <1>5. torn \subseteq torn' /\ torn' \subseteq Fields
    <2>1. IsField(asked[m.req]) => asked[m.req].item \in Fields
      BY <1>3 DEF AskFits
    <2> QED
      BY <1>1, <2>1 DEF Fit, TypeOK
  <1> QED
    BY <1>1, <1>2, <1>3, <1>4, <1>5 DEF HandedOn

LEMMA HandOnKeepsTypes ==
  ASSUME Fit, NEW m \in mail, HandOn(m)
  PROVE  TypeOK' /\ RequestsFit'
  <1> USE DEF popup
  <1>0. HandedOn(m)
    BY HandOnFacts
  <1>1. /\ m \in Letter /\ m.req \in DOMAIN asked /\ m.req \in Ids
        /\ m.how \in {"resolve", "reject"} /\ m.value \in Ids \union {0}
        /\ Settle(m.req, m.how, m.value) /\ DOMAIN asked \subseteq Ids
    BY <1>0, RequestsAreInDomain DEF HandedOn, Letter, Fit
  <1>2. /\ op' \in {"none", "Registration", "Authentication"} /\ known' \subseteq Items
        /\ busy' \in BOOLEAN /\ reply' \in [Ids -> {"none", "resolve", "reject"}]
        /\ answers' \in [Ids -> 0 .. 2] /\ told' \in [Fields -> Ids \union {0}]
        /\ \A x \in Ids : answers'[x] = 0 <=> answers[x] = 0 /\ x # m.req
    BY <1>1, SettledTypes
  <1>3. TypeOK'
    BY <1>0, <1>2 DEF HandedOn, Fit, TypeOK
  <1>4. \A x \in DOMAIN asked' : AskFits(x)'
    <2>1. \A kind : HasGot(kind) => HasGot(kind)'
      BY <1>0, <1>1 DEF HasGot, HandedOn
    <2> QED
      BY <1>0, <2>1 DEF HandedOn, Fit, RequestsFit, AskFits, IsField
  <1>5. ASSUME NEW x \in Ids
        PROVE  CountsFit(x)'
    <2>1. CountsFit(x) /\ answers[x] \in 0 .. 2 /\ answers'[x] \in 0 .. 2
      BY <1>2 DEF Fit, RequestsFit, TypeOK
    <2>2. x > Len(asked) => x # m.req
      BY <1>1, RequestsAreInDomain DEF Fit
    <2>3. answers'[x] > 0 <=> answers[x] > 0 \/ x = m.req
      BY <1>2, <2>1
    <2>4. reply'[x] = "none" <=> reply[x] = "none" /\ x # m.req
      BY <1>0, <1>1 DEF HandedOn
    <2>5. asked' = asked /\ assoc' = assoc /\ (IsPending(x)' <=> IsPending(x)) /\ ~ IsPending(m.req)
      BY <1>0 DEF HandedOn, IsPending
    <2>6. x > Len(asked) => reply[x] = "none" /\ x \notin assoc
      BY <2>1 DEF CountsFit
    <2> QED
      BY <1>2, <2>1, <2>2, <2>3, <2>4, <2>5, <2>6 DEF CountsFit
  <1> QED
    BY <1>3, <1>4, <1>5 DEF RequestsFit

LEMMA HandOnKeepsOperation ==
  ASSUME Fit, NEW m \in mail, HandOn(m)
  PROVE  OperationFits'
  <1> DEFINE a == asked[m.req]
  <1>0. HandedOn(m)
    BY HandOnFacts
  <1>1. /\ m.req \in DOMAIN asked /\ m.req \in Ids /\ AskFits(m.req) /\ ~ IsPending(m.req)
        /\ asked' = asked /\ sessions' = sessions /\ handlers' = handlers
        /\ \A x \in Ids : reply[x] = "resolve" => reply'[x] = "resolve"
        /\ \A x \in Ids : reply'[x] = IF x = m.req /\ reply[m.req] = "none" THEN m.how ELSE reply[x]
        /\ DOMAIN asked = 1 .. Len(asked) /\ Len(asked) \in Nat /\ DOMAIN asked \subseteq Ids
    BY <1>0, RequestsAreInDomain DEF HandedOn, Fit
  <1>2. \/ op' = op
        \/ /\ reply[m.req] = "none" /\ m.how = "resolve" /\ a.kind = "approveOperation"
           /\ op' \in {"Registration", "Authentication"}
        \/ /\ reply[m.req] = "none" /\ m.how = "resolve" /\ a.kind = "approveTransitionToAuthOp"
           /\ op' = "Authentication"
    BY <1>0 DEF HandedOn, Settle, Letter
  <1>3. OperationFits
    BY DEF Fit
  <1>4. asked # <<>> /\ Len(asked) >= 1 /\ 1 \in Ids /\ AskFits(1)
    <2>1. 1 \in DOMAIN asked
      BY <1>1
    <2> QED
      BY <1>1, <2>1, EmptySeq DEF Fit, RequestsFit
  <1>5. a.kind = "approveOperation" => m.req = 1
    BY <1>1 DEF AskFits
  <1>6. a.kind = "approveTransitionToAuthOp" => m.req # 1 /\ Len(asked) > 1
    <2>1. a.kind = "approveTransitionToAuthOp" => m.req # 1
      BY <1>1 DEF AskFits
    <2> QED
      BY <1>1, <2>1
  <1>7. op' # "none" => asked' # <<>> /\ ~ IsPending(1)' /\ reply'[1] = "resolve"
    <2>1. CASE op # "none"
      BY <1>1, <1>3, <1>4, <2>1 DEF OperationFits, IsPending
    <2>2. CASE op = "none" /\ op' # "none"
      <3>1. ~ (Len(asked) > 1)
        BY <1>3, <2>2 DEF OperationFits
      <3>2. reply[m.req] = "none" /\ m.how = "resolve" /\ m.req = 1
        BY <1>2, <1>5, <1>6, <2>2, <3>1
      <3> QED
        BY <1>1, <1>4, <3>2 DEF IsPending
    <2> QED
      BY <2>1, <2>2
  <1>8. op # "none" => op' # "none"
    BY <1>2
  <1>9. op' # "Authentication" => ~ HasGot("approveTransitionToAuthOp")'
    <2>1. SUFFICES ASSUME HasGot("approveTransitionToAuthOp")'
                   PROVE  op' = "Authentication"
      OBVIOUS
    <2>2. CASE HasGot("approveTransitionToAuthOp")
      <3>1. op = "Authentication" /\ reply[1] = "resolve"
        BY <1>3, <2>2 DEF OperationFits
      <3> QED
        BY <1>2, <1>5, <3>1
    <2>3. CASE ~ HasGot("approveTransitionToAuthOp")
      <3>1. reply[m.req] = "none" /\ m.how = "resolve" /\ a.kind = "approveTransitionToAuthOp"
        BY <1>1, <2>1, <2>3 DEF HasGot
      <3> QED
        BY <1>0, <3>1 DEF HandedOn, Settle
    <2> QED
      BY <2>2, <2>3
  <1>10. Len(asked) > 1 /\ asked[2].kind = "getUserAttributes"
            /\ (Len(asked) > 2 \/ op' = "Authentication") => reply'[2] = "resolve"
    <2>1. SUFFICES ASSUME Len(asked) > 1, asked[2].kind = "getUserAttributes",
                          Len(asked) > 2 \/ op' = "Authentication"
                   PROVE  reply'[2] = "resolve"
      OBVIOUS
    <2>2. 2 \in Ids
      BY <1>1, <2>1
    <2>3. Len(asked) > 2 \/ op = "Authentication"
      <3>1. SUFFICES ASSUME op' = "Authentication", ~ (Len(asked) > 2)
                     PROVE  op = "Authentication"
        BY <2>1
      <3>2. op # "none" /\ reply[1] = "resolve"
        BY <1>3, <2>1 DEF OperationFits
      <3>3. m.req = 1 \/ m.req = 2
        BY <1>1, <3>1
      <3>4. a.kind # "approveTransitionToAuthOp"
        BY <1>6, <2>1, <3>3
      <3> QED
        BY <1>2, <1>5, <3>1, <3>2, <3>4
    <2> QED
      BY <1>1, <1>3, <2>1, <2>2, <2>3 DEF OperationFits
  <1> QED
    BY <1>1, <1>3, <1>7, <1>8, <1>9, <1>10 DEF OperationFits, IsPending

LEMMA HandOnKeepsFields ==
  ASSUME Fit, NEW m \in mail, HandOn(m)
  PROVE  FieldsFit'
  <1> USE DEF popup
  <1> DEFINE a == asked[m.req]
  <1>0. HandedOn(m)
    BY HandOnFacts
  <1>1. /\ m.req \in DOMAIN asked /\ m.req \in Ids /\ AskFits(m.req) /\ ~ IsPending(m.req)
        /\ mail' = mail \ {m} /\ m.how \in {"resolve", "reject"}
        /\ UNCHANGED <<asked, sessions, account, handlers, popup, assoc, closings>>
        /\ \A x \in Ids : reply[x] = "resolve" => reply'[x] = "resolve"
        /\ \A x \in Ids : reply'[x] = IF x = m.req /\ reply[m.req] = "none" THEN m.how ELSE reply[x]
        /\ DOMAIN asked = 1 .. Len(asked) /\ Len(asked) \in Nat /\ DOMAIN asked \subseteq Ids
        /\ torn \subseteq torn' /\ Settle(m.req, m.how, m.value)
    BY <1>0, RequestsAreInDomain DEF HandedOn, Fit, Letter
  <1> SUFFICES ASSUME NEW f \in Fields, f \notin torn'
               PROVE  ToldFits(f)' /\ EntryFits(f)'
    BY DEF FieldsFit
  <1>2. ToldFits(f) /\ EntryFits(f) /\ f \notin torn
    BY <1>1 DEF Fit, FieldsFit
  <1>3. m.how = "resolve" /\ a.item = f => m.value = m.req /\ IsField(a)
    BY <1>1, <1>2 DEF Fit, LettersFit, AskFits
  <1>4. ToldFits(f)'
    <2>0. told \in [Fields -> Ids \union {0}] /\ 0 \notin Ids
      BY DEF Fit, TypeOK, Ids
    <2>1. CASE told'[f] = told[f]
      \* nothing about the field was granted now, or a later request had been
      <3>1. ASSUME About(m.req, f), reply[m.req] = "none", m.how = "resolve"
            PROVE  told[f] # 0 /\ m.req <= told[f]
        <4>1. a.item = f /\ IsField(a) /\ m.value = m.req
          BY <1>3, <3>1 DEF About
        <4>2. CASE \A q \in m.req + 1 .. Len(asked) :
                      ~ (IsField(asked[q]) /\ asked[q].item = a.item /\ reply[q] = "resolve")
          <5>1. told' = [told EXCEPT ![f] = m.req]
            BY <1>1, <3>1, <4>1, <4>2 DEF Settle
          <5>2. told[f] = m.req
            BY <2>0, <2>1, <5>1
          <5> QED
            BY <1>1, <2>0, <5>2 DEF Ids
        <4>3. ASSUME NEW q \in m.req + 1 .. Len(asked), asked[q].item = a.item, reply[q] = "resolve"
              PROVE  told[f] # 0 /\ m.req <= told[f]
          <5>1. q \in DOMAIN asked /\ q \in Ids /\ m.req <= q
            BY <1>1 DEF Ids
          <5>2. told[f] # 0 /\ q <= told[f]
            BY <1>2, <4>1, <4>3, <5>1 DEF ToldFits, About
          <5>3. \A x, y, z \in Ids : x <= y /\ y <= z => x <= z
            BY DEF Ids
          <5>4. told[f] \in Ids
            BY <2>0, <5>2
          <5> QED
            BY <1>1, <5>1, <5>2, <5>3, <5>4
        <4> QED
          BY <4>2, <4>3
      <3>2. \A x \in Ids : About(x, f)' /\ reply'[x] = "resolve" =>
                About(x, f) /\ (reply[x] = "resolve"
                                \/ (x = m.req /\ reply[m.req] = "none" /\ m.how = "resolve"))
        BY <1>1 DEF About
      <3>3. CASE told[f] = 0
        BY <1>2, <2>1, <3>1, <3>2, <3>3 DEF ToldFits
      <3>4. CASE told[f] # 0
        <4>1. About(told[f], f)' /\ told[f] \in Ids /\ reply'[told[f]] = "resolve"
          BY <1>1, <1>2, <2>0, <2>1, <3>4 DEF ToldFits, About
        <4>2. \A x \in Ids : About(x, f)' /\ reply'[x] = "resolve" => x <= told[f]
          BY <1>2, <3>1, <3>2, <3>4 DEF ToldFits
        <4> QED
          BY <2>1, <3>4, <4>1, <4>2 DEF ToldFits, About
      <3> QED
        BY <3>3, <3>4
    <2>2. CASE told'[f] # told[f]
      <3>1. /\ reply[m.req] = "none" /\ m.how = "resolve" /\ IsField(a) /\ a.item = f
            /\ \A q \in m.req + 1 .. Len(asked) :
                  ~ (IsField(asked[q]) /\ asked[q].item = a.item /\ reply[q] = "resolve")
            /\ told' = [told EXCEPT ![f] = m.value]
        BY <1>1, <2>0, <2>2 DEF Settle
      <3>2. told'[f] = m.req /\ m.req # 0
        BY <1>1, <1>3, <2>0, <3>1
      <3>3. About(m.req, f)' /\ reply'[m.req] = "resolve"
        BY <1>1, <3>1 DEF About
      <3>4. ASSUME NEW x \in Ids, About(x, f), reply'[x] = "resolve"
            PROVE  x <= m.req
        <4>1. CASE x = m.req
          BY <1>1, <4>1 DEF Ids
        <4>2. CASE x # m.req
          <5>1. reply[x] = "resolve" /\ x \in DOMAIN asked /\ IsField(asked[x]) /\ asked[x].item = f
            BY <1>1, <3>4, <4>2 DEF About, Fit, RequestsFit, AskFits
          <5>2. x \notin m.req + 1 .. Len(asked)
            BY <3>1, <5>1
          <5>3. x \in Nat /\ m.req \in Nat /\ x <= Len(asked)
            BY <1>1, <5>1
          <5> QED
            BY <1>1, <5>2, <5>3
        <4> QED
          BY <4>1, <4>2
      <3> QED
        BY <1>1, <3>2, <3>3, <3>4 DEF ToldFits, About
    <2> QED
      BY <2>1, <2>2
  <1> DEFINE entry == sessions[1].fields[f]
             h == Head(entry)
  <1>5. \A x \in Ids : About(x, f)' /\ Resolves(x)' => About(x, f) /\ Resolves(x)
    BY <1>1 DEF About, Resolves
  <1>6. ASSUME entry # <<>>
        PROVE  Standing(h)'
    <2>1. h \in Ids /\ About(h, f) /\ Standing(h)
      BY <1>2, <1>6 DEF EntryFits
    <2>2. CASE h = m.req /\ reply[h] = "none"
      <3>1. IsField(a) /\ a.item = f /\ a.slot = 1
        BY <1>1, <2>1, <2>2 DEF About, AskFits
      <3>2. sessions[1].fields[f] \in Seq(Ids)
        BY PartsOfRecord DEF Fit, TypeOK, Slots, Values
      <3>3. Contains(sessions[1].fields[f], h)
        BY <1>6, <3>2, HeadIsContained
      <3>4. m.how = "resolve"
        BY <1>1, <2>2, <3>1, <3>3 DEF HandOn
      <3> QED
        BY <1>1, <2>2, <3>4 DEF Standing
    <2>3. CASE h # m.req \/ reply[h] # "none"
      <3>1. reply'[h] = reply[h]
        BY <1>1, <2>1, <2>3
      <3>2. h # m.req => \A x \in mail : x.req = h => x \in mail'
        BY <1>1
      <3> QED
        BY <1>1, <2>1, <2>3, <3>1, <3>2 DEF Standing, IsPending
    <2> QED
      BY <2>2, <2>3
  <1>7. \A x \in Ids : IsSpurious(x, f) => IsSpurious(x, f)'
    BY <1>1 DEF IsSpurious, Lists, IsPending, Marks
  <1>8. url # NoUrl => url \in Ids
    BY DEF Fit, TypeOK
  <1>9. EntryFits(f)'
    BY <1>1, <1>2, <1>5, <1>6, <1>7, <1>8 DEF EntryFits, About, Marks
  <1> QED
    BY <1>4, <1>9

LEMMA HandOnKeepsFit ==
  ASSUME Fit, NEW m \in mail, HandOn(m)
  PROVE  Fit'
  <1> USE DEF popup
  <1>0. HandedOn(m)
    BY HandOnFacts
  <1>1. /\ m.req \in DOMAIN asked /\ m.req \in Ids /\ ~ IsPending(m.req) /\ m.req \notin assoc
        /\ mail' = mail \ {m} /\ hidden' = hidden \ {m}
        /\ UNCHANGED <<asked, sessions, account, handlers, popup, assoc, closings>>
        /\ \A x \in Ids : x # m.req => reply'[x] = reply[x]
        /\ torn \subseteq torn'
    BY <1>0 DEF HandedOn
  <1>2. \A x \in Ids : Through(x) => Through(x)'
    BY <1>1 DEF Through, IsPending
  <1>3. RecordsFit'
    BY <1>1, <1>2 DEF Fit, RecordsFit, RecordFits, IsPending, Lists, IsBlank, Marks
  <1>4. UrlFits'
    BY <1>1 DEF Fit, UrlFits
  <1>5. TabsFit'
    BY <1>1 DEF Fit, TabsFit, IsPending, TypeOK
  <1>6. PageFits'
    <2>1. page # NoPage /\ page.answer = page.req => reply'[page.req] = "none"
      <3>1. page # NoPage => page.req \in Ids /\ page.req \in assoc
        BY PageHasRequest DEF Fit, PageFits, UrlFits
      <3> QED
        BY <1>1, <3>1 DEF Fit, PageFits
    <2> QED
      BY <1>1, <2>1 DEF Fit, PageFits, IsPending, IsField, Entered, Marks
  <1>7. LettersFit'
    BY <1>1 DEF Fit, LettersFit, IsPending
  <1> QED
    BY <1>3, <1>4, <1>5, <1>6, <1>7, HandOnKeepsTypes, HandOnKeepsOperation, HandOnKeepsFields
    DEF Fit

-----------------------------------------------------------------------------
(* The web app asks                                                        *)

Asked(r, kind, item) ==
  /\ r = Len(asked) + 1 /\ r \in Ids /\ r \notin DOMAIN asked /\ ~ busy
  /\ kind \in Creation \union Authentication \union Login /\ item \in Items \union {NoItem}
  /\ CurrentSlot \in Slots /\ sessions[CurrentSlot] \in Session
  /\ asked' = Append(asked, [kind |-> kind, item |-> item, slot |-> CurrentSlot])
  /\ asked' \in Seq(Request) /\ Len(asked') = r /\ DOMAIN asked' = 1 .. r
  /\ asked'[r] = [kind |-> kind, item |-> item, slot |-> CurrentSlot]
  /\ \A q \in DOMAIN asked : q \in DOMAIN asked' /\ asked'[q] = asked[q] /\ q < r /\ q \in Ids
  /\ \A q \in DOMAIN asked' : q \in DOMAIN asked \/ q = r
  /\ handlers' = [handlers EXCEPT ![r] = sessions[CurrentSlot]]
  /\ handlers'[r] = sessions[CurrentSlot] /\ IsPending(r)' /\ ~ IsPending(r)
  /\ \A q \in Ids : q # r => handlers'[q] = handlers[q] /\ (IsPending(q)' <=> IsPending(q))
  /\ reply[r] = "none" /\ answers[r] = 0 /\ r \notin assoc
  /\ sessions' = IF kind = "approveTransitionToAuthOp"
                 THEN [sessions EXCEPT ![2] = NoSession] ELSE sessions
  /\ sessions'[1] = sessions[1]
  /\ UNCHANGED <<op, reply, answers, told, account, hidden, closings>>

LEMMA AskFacts ==
  ASSUME Fit, NEW kind \in Creation \union Authentication \union Login,
         NEW item \in Items \union {NoItem}, Ask(kind, item),
         NEW r, r = Len(asked) + 1
  PROVE  Asked(r, kind, item)
  <1> DEFINE a == [kind |-> kind, item |-> item, slot |-> CurrentSlot]
  <1>1. /\ r \in Ids /\ ~ busy /\ asked' = Append(asked, a)
        /\ handlers' = [handlers EXCEPT ![r] = sessions[CurrentSlot]]
        /\ sessions' = IF kind = "approveTransitionToAuthOp"
                       THEN [sessions EXCEPT ![2] = NoSession] ELSE sessions
        /\ UNCHANGED <<op, reply, answers, told, account, hidden, closings>>
    BY DEF Ask
  <1>2. /\ DOMAIN asked = 1 .. Len(asked) /\ Len(asked) \in Nat /\ DOMAIN asked \subseteq Ids
        /\ asked \in Seq(Request) /\ TypeOK
    BY RequestsAreInDomain DEF Fit, TypeOK
  <1>3. CurrentSlot \in Slots /\ sessions[CurrentSlot] \in Session /\ sessions \in [Slots -> Session]
    BY <1>2 DEF TypeOK, CurrentSlot, Slots
  <1>4. a \in Request
    BY <1>3 DEF Request
  <1> HIDE DEF a
  <1>5. /\ asked' \in Seq(Request) /\ Len(asked') = Len(asked) + 1 /\ asked'[Len(asked) + 1] = a
        /\ \A i \in 1 .. Len(asked) : asked'[i] = asked[i]
    BY <1>1, <1>2, <1>4, AppendProperties
  <1>6. DOMAIN asked' = 1 .. r
    BY <1>5, LenProperties
  <1>7. r \notin DOMAIN asked /\ (\A q \in DOMAIN asked : q \in DOMAIN asked' /\ q < r)
        /\ (\A q \in DOMAIN asked' : q \in DOMAIN asked \/ q = r)
    BY <1>2, <1>6
  <1>8. /\ handlers'[r] = sessions[CurrentSlot]
        /\ \A q \in Ids : q # r => handlers'[q] = handlers[q]
    BY <1>1, <1>2 DEF TypeOK
  <1>9. ~ IsPending(r) /\ reply[r] = "none" /\ answers[r] = 0 /\ r \notin assoc
    <2>1. CountsFit(r) /\ r > Len(asked)
      BY <1>1, <1>2 DEF Fit, RequestsFit
    <2> QED
      BY <2>1 DEF CountsFit
  <1>10. IsPending(r)' /\ \A q \in Ids : q # r => (IsPending(q)' <=> IsPending(q))
    <2>1. handlers'[r] # NoHandler
      BY <1>1, <1>3, <1>5, <1>8, NothingAssumption
    <2> QED
      BY <1>8, <2>1 DEF IsPending
  <1>11. sessions'[1] = sessions[1]
    BY <1>1, <1>3 DEF Slots
  <1> QED
    BY <1>1, <1>2, <1>3, <1>5, <1>6, <1>7, <1>8, <1>9, <1>10, <1>11 DEF Asked, a

LEMMA WhatMayBeAsked ==
  ASSUME NEW kind \in Creation \union Authentication \union Login,
         NEW item \in Items \union {NoItem}, MayAsk(kind, item)
  PROVE  /\ kind = "approveOperation" => asked = <<>> /\ item = NoItem
         /\ kind = "getUserAttributes" => Len(asked) = 1 /\ op = "Registration" /\ item = NoItem
         /\ kind \in {"approveTransitionToAuthOp", "addField", "rejectFieldValue", "updateMetadata"}
               => op = "Registration" /\ HasGot("getUserAttributes")
         /\ kind \in {"approveTransitionToAuthOp", "updateMetadata", "closeOperation"} => item = NoItem
         /\ kind \in {"addField", "rejectFieldValue"} => item \in Fields
         /\ kind = "addField" => item \notin known
         /\ kind = "closeOperation" => op = "Authentication"
                                       \/ (op = "Registration" /\ HasGot("getUserAttributes"))
         /\ kind \in Authentication => op = "Authentication" /\ item \in Challenges
         /\ kind # "approveOperation" => op # "none"
  <1>1. CASE kind = "approveOperation"
    BY <1>1 DEF MayAsk, Authentication
  <1>2. CASE kind = "getUserAttributes"
    BY <1>2 DEF MayAsk, Authentication
  <1>3. CASE kind = "approveTransitionToAuthOp"
    BY <1>3 DEF MayAsk, Authentication
  <1>4. CASE kind \in {"addField", "rejectFieldValue", "updateMetadata"}
    BY <1>4 DEF MayAsk, Authentication
  <1>5. CASE kind = "closeOperation"
    BY <1>5 DEF MayAsk, Authentication
  <1>6. CASE kind \in Authentication
    BY <1>6 DEF MayAsk, Authentication
  <1> QED
    BY <1>1, <1>2, <1>3, <1>4, <1>5, <1>6 DEF Creation, Login

LEMMA AskKeepsRequests ==
  ASSUME Fit, NEW kind \in Creation \union Authentication \union Login,
         NEW item \in Items \union {NoItem}, Ask(kind, item), NEW r, Asked(r, kind, item)
  PROVE  /\ RequestsFit' /\ OperationFits' /\ \A k : HasGot(k)' <=> HasGot(k)
  <1> DEFINE a == [kind |-> kind, item |-> item, slot |-> CurrentSlot]
  <1>1. MayAsk(kind, item) /\ (kind \in Authentication \ {"approveChallengeRequest"} => IsConnected(item))
    BY DEF Ask
  <1>2. /\ kind = "approveOperation" => asked = <<>> /\ item = NoItem
        /\ kind = "getUserAttributes" => Len(asked) = 1 /\ op = "Registration" /\ item = NoItem
        /\ kind \in {"approveTransitionToAuthOp", "addField", "rejectFieldValue", "updateMetadata"}
              => op = "Registration" /\ HasGot("getUserAttributes")
        /\ kind \in {"approveTransitionToAuthOp", "updateMetadata", "closeOperation"} => item = NoItem
        /\ kind \in {"addField", "rejectFieldValue"} => item \in Fields
        /\ kind = "closeOperation" => op = "Authentication"
                                      \/ (op = "Registration" /\ HasGot("getUserAttributes"))
        /\ kind \in Authentication => op = "Authentication" /\ item \in Challenges
        /\ kind # "approveOperation" => op # "none"
    BY <1>1, WhatMayBeAsked
  <1>3. \A k : HasGot(k)' <=> HasGot(k)
    BY DEF HasGot, Asked
  <1>4. DOMAIN asked = 1 .. Len(asked) /\ Len(asked) \in Nat /\ asked \in Seq(Request)
    BY RequestsAreInDomain DEF Fit, TypeOK
  <1>5. r = 1 <=> asked = <<>>
    BY <1>4, EmptySeq DEF Asked
  <1>6. kind = "approveOperation" <=> r = 1
    BY <1>2, <1>5 DEF Fit, OperationFits
  <1>7. CurrentSlot = 2 => HasGot("approveTransitionToAuthOp")
    BY DEF CurrentSlot
  <1>8. op = "Registration" => CurrentSlot = 1
    BY DEF CurrentSlot, Fit, OperationFits
  <1>9. AskFits(r)'
    <2>0. asked'[r] = a
      BY DEF Asked
    <2>1. /\ kind = "approveOperation" <=> r = 1
          /\ kind = "getUserAttributes" => r = 2
          /\ kind = "updateMetadata" => CurrentSlot = 1 /\ r > 2
          /\ kind \in Authentication => item \in Challenges
      <3>1. kind = "updateMetadata" => r > 2
        <4>1. SUFFICES ASSUME HasGot("getUserAttributes")
                       PROVE  r > 2
          BY <1>2
        <4>2. PICK q \in DOMAIN asked : asked[q].kind = "getUserAttributes"
          BY <4>1 DEF HasGot
        <4>3. q = 2
          BY <4>2 DEF Fit, RequestsFit, AskFits
        <4> QED
          BY <1>4, <4>3 DEF Asked
      <3> QED
        BY <1>2, <1>6, <1>8, <3>1 DEF Asked
    <2>2. IF kind \in {"addField", "rejectFieldValue"} THEN item \in Fields /\ CurrentSlot = 1
          ELSE item \notin Fields
      <3>1. CASE kind \in {"addField", "rejectFieldValue"}
        BY <1>2, <1>8, <3>1
      <3>2. CASE kind \notin {"addField", "rejectFieldValue"}
        <4>1. item = NoItem \/ item \in Challenges
          BY <1>2, <3>2 DEF Creation, Login
        <4> QED
          BY <3>2, <4>1, SecretStarAssumption DEF Items
      <3> QED
        BY <3>1, <3>2
    <2>3. kind \notin Authentication /\ kind \notin {"addField", "rejectFieldValue"} => item = NoItem
      BY <1>2 DEF Creation, Login
    <2>4. ASSUME kind \in Authentication \ {"approveChallengeRequest"}
          PROVE  \E q \in 1 .. r - 1 : asked'[q].kind = "approveChallengeRequest" /\ asked'[q].item = item
      <3>1. PICK q \in DOMAIN asked : asked[q].kind = "approveChallengeRequest" /\ asked[q].item = item
        BY <1>1, <2>4 DEF IsConnected
      <3>2. q \in 1 .. r - 1 /\ asked'[q] = asked[q]
        BY <1>4 DEF Asked
      <3> QED
        BY <3>1, <3>2
    <2> HIDE DEF a
    <2>5. a.kind = kind /\ a.item = item /\ a.slot = CurrentSlot
      BY DEF a
    <2> QED
      BY <1>3, <1>7, <2>0, <2>1, <2>2, <2>3, <2>4, <2>5 DEF AskFits, IsField
  <1>10. ASSUME NEW q \in DOMAIN asked
         PROVE  AskFits(q)'
    <2>1. AskFits(q) /\ q \in 1 .. Len(asked)
      BY <1>4 DEF Fit, RequestsFit
    <2>2. asked'[q] = asked[q] /\ \A x \in 1 .. q - 1 : asked'[x] = asked[x]
      BY <1>4, <2>1 DEF Asked
    <2> QED
      BY <1>3, <2>1, <2>2 DEF AskFits, IsField
  <1>11. ASSUME NEW x \in Ids
         PROVE  CountsFit(x)'
    <2>1. CountsFit(x) /\ x \in Nat
      BY DEF Fit, RequestsFit, Ids
    <2>2. x > Len(asked') <=> x > Len(asked) /\ x # r
      BY <1>4, <2>1 DEF Asked
    <2>3. x # r => (x \in assoc' <=> x \in assoc)
      BY DEF Ask, Asked
    <2>4. CASE x = r
      <3>1. reply'[r] = "none" /\ answers'[r] = 0 /\ ~ (r > Len(asked'))
        BY <2>2, <2>4 DEF Asked
      <3> QED
        BY <2>4, <3>1 DEF CountsFit
    <2>5. CASE x # r
      BY <2>1, <2>2, <2>3, <2>5 DEF CountsFit, Asked
    <2> QED
      BY <2>4, <2>5
  <1>12. RequestsFit'
    BY <1>9, <1>10, <1>11 DEF RequestsFit, Asked
  <1>13. OperationFits'
    <2>0. op' = op /\ reply' = reply /\ OperationFits /\ sessions'[1] = sessions[1]
          /\ Len(asked') = r /\ asked' # <<>>
      <3>1. asked' # <<>>
        BY EmptySeq, <1>4 DEF Asked
      <3> QED
        BY <3>1 DEF Asked, Fit
    <2>1. r # 1 => asked # <<>> /\ (IsPending(1)' <=> IsPending(1)) /\ asked'[1] = asked[1]
      <3>1. r # 1 => 1 \in DOMAIN asked /\ 1 \in Ids
        BY <1>4 DEF Asked, Ids
      <3> QED
        BY <1>5, <3>1 DEF Asked
    <2>2. r = 1 => op = "none" /\ IsPending(1)'
      BY <1>5, <2>0 DEF OperationFits, Asked
    <2>3. op' # "none" => asked' # <<>> /\ ~ IsPending(1)' /\ reply'[1] = "resolve"
      BY <2>0, <2>1, <2>2 DEF OperationFits
    <2>4. Len(asked') > 1 => op' # "none"
      BY <1>2, <1>6, <2>0
    <2>5. op' # "Authentication" => ~ HasGot("approveTransitionToAuthOp")'
      BY <1>3, <2>0 DEF OperationFits
    <2>6. asked' # <<>> /\ ~ IsPending(1)' => sessions[1].requests' # <<>>
      BY <2>0, <2>1, <2>2 DEF OperationFits
    <2>7. ASSUME Len(asked') > 1, asked'[2].kind = "getUserAttributes",
                 Len(asked') > 2 \/ op = "Authentication"
          PROVE  reply[2] = "resolve"
      <3>1. CASE r = 2
        <4>1. kind = "getUserAttributes" /\ op = "Authentication"
          BY <2>0, <2>7, <3>1 DEF Asked
        <4> QED
          BY <1>2, <4>1
      <3>2. CASE r # 2
        <4>1. r > 2 /\ Len(asked) > 1 /\ asked'[2] = asked[2]
          BY <1>4, <2>0, <2>7, <3>2 DEF Asked
        <4>2. CASE Len(asked) > 2 \/ op = "Authentication"
          BY <2>0, <2>7, <4>1, <4>2 DEF OperationFits
        <4>3. CASE op # "Authentication"
          <5>1. HasGot("getUserAttributes")
            <6>1. kind # "approveOperation" /\ kind # "getUserAttributes"
              BY <1>2, <1>6, <4>1
            <6> QED
              BY <1>2, <4>3, <6>1 DEF Creation, Login
          <5>2. PICK q \in DOMAIN asked : asked[q].kind = "getUserAttributes" /\ reply[q] = "resolve"
            BY <5>1 DEF HasGot
          <5>3. q = 2
            BY <5>2 DEF Fit, RequestsFit, AskFits
          <5> QED
            BY <5>2, <5>3
        <4> QED
          BY <4>2, <4>3
      <3> QED
        BY <3>1, <3>2
    <2> QED
      BY <2>0, <2>3, <2>4, <2>5, <2>6, <2>7 DEF OperationFits
  <1> QED
    BY <1>3, <1>12, <1>13

\* The popup is closed and will show the request, or it is as it was.
AskedPopup(r, kind) ==
  /\ \/ kind # "updateMetadata" /\ page' = NoPage /\ url' = r /\ assoc' = assoc \union {r}
     \/ kind = "updateMetadata" /\ page' = page /\ url' = url /\ assoc' = assoc
        /\ mail' = mail /\ torn' = torn
  /\ mail \subseteq mail' /\ mail' \subseteq Letter /\ torn \subseteq torn' /\ torn' \subseteq Fields
  /\ \A m \in mail' \ mail : m.how = "reject" /\ m.req \in DOMAIN asked /\ ~ IsPending(m.req)
  /\ \A f \in Fields \ torn' : \A h \in Ids :
        About(h, f) /\ Standing(h) =>
           \/ reply[h] = "resolve"
           \/ reply[h] = "none" /\ ~ IsPending(h) /\ \E m \in mail' : m.req = h
           \/ kind = "updateMetadata" /\ page # NoPage /\ page.req = h /\ page.stage = "written"

LEMMA AskShows ==
  ASSUME Fit, NEW kind \in Creation \union Authentication \union Login,
         NEW item \in Items \union {NoItem}, Ask(kind, item), NEW r, Asked(r, kind, item)
  PROVE  AskedPopup(r, kind)
  <1>1. CASE kind = "updateMetadata"
    <2>1. UNCHANGED <<popup, assoc, mail, torn>>
      BY <1>1 DEF Ask
    <2> QED
      BY <1>1, <2>1 DEF AskedPopup, popup, Standing, Fit, TypeOK
  <1>2. CASE kind # "updateMetadata"
    <2>1. ClosePage /\ url' = r /\ assoc' = assoc \union {r}
      BY <1>2 DEF Ask, Asked
    <2> QED
      BY <1>2, <2>1, ClosedPage DEF AskedPopup
  <1> QED
    BY <1>1, <1>2

LEMMA AskKeepsOthers ==
  ASSUME Fit, NEW kind \in Creation \union Authentication \union Login,
         NEW item \in Items \union {NoItem}, Ask(kind, item), NEW r, Asked(r, kind, item)
  PROVE  TypeOK' /\ RecordsFit' /\ UrlFits' /\ PageFits' /\ TabsFit' /\ LettersFit'
  <1>1. AskedPopup(r, kind)
    BY AskShows
  <1>2. assoc' \subseteq assoc \union {r} /\ assoc \subseteq assoc' /\ r \in Ids
    BY <1>1 DEF AskedPopup, Asked
  <1>3. DOMAIN asked = 1 .. Len(asked) /\ Len(asked) \in Nat /\ DOMAIN asked \subseteq Ids
    BY RequestsAreInDomain DEF Fit
  <1>4. TypeOK'
    <2>1. /\ asked' \in Seq(Request) /\ Len(asked') <= MaxRequests
      BY SecretStarAssumption DEF Asked, Ids
    <2>2. busy' \in BOOLEAN /\ known' \subseteq Items
      <3>1. kind \in {"addField", "respondToChallengeMessage"} => item \in Items
        BY WhatMayBeAsked DEF Ask, Items, Authentication
      <3> QED
        BY <3>1 DEF Ask, Fit, TypeOK
    <2>3. sessions' \in [Slots -> Session]
      BY NoSessionIsBlank DEF Asked, Fit, TypeOK
    <2>4. handlers' \in [Ids -> Session \union {NoHandler}]
      BY DEF Asked, Fit, TypeOK
    <2>5. url' \in Ids \union {NoUrl} /\ page' \in Page \union {NoPage} /\ assoc' \subseteq Ids
          /\ mail' \subseteq Letter /\ torn' \subseteq Fields /\ hidden' \subseteq mail'
      BY <1>1, <1>2 DEF AskedPopup, Asked, Fit, TypeOK
    <2> QED
      BY <2>1, <2>2, <2>3, <2>4, <2>5 DEF Asked, Fit, TypeOK
  <1>5. \A x \in Ids : Through(x) => Through(x)'
    BY <1>2 DEF Through, Asked
  <1>6. RecordsFit'
    <2>1. ASSUME NEW k \in Slots
          PROVE  RecordFits(sessions[k])'
      <3>1. CASE sessions'[k] = sessions[k]
        BY <1>5, <3>1 DEF Fit, RecordsFit, RecordFits, Lists, IsBlank, Marks
      <3>2. CASE sessions'[k] = NoSession
        <4>1. \A x \in Ids : ~ Lists(NoSession, x)
          BY NoSessionIsBlank, ListsOfRecord DEF Session
        <4> QED
          BY <3>2, <4>1, NoSessionIsBlank DEF RecordFits, Lists, IsBlank, Marks
      <3> QED
        BY <3>1, <3>2 DEF Asked, Fit, TypeOK
    <2>2. ASSUME NEW x \in Ids, IsPending(x)'
          PROVE  RecordFits(handlers[x])'
      <3>1. CASE x = r
        <4>1. RecordFits(sessions[CurrentSlot]) /\ handlers'[r] = sessions[CurrentSlot]
          BY DEF Asked, Fit, RecordsFit
        <4> QED
          BY <1>5, <3>1, <4>1 DEF RecordFits, Lists, IsBlank, Marks
      <3>2. CASE x # r
        <4>1. RecordFits(handlers[x]) /\ handlers'[x] = handlers[x]
          BY <2>2, <3>2 DEF Asked, Fit, RecordsFit
        <4> QED
          BY <1>5, <4>1 DEF RecordFits, Lists, IsBlank, Marks
      <3> QED
        BY <3>1, <3>2
    <2>3. page' # NoPage => RecordFits(page.seen)'
      BY <1>1, <1>5 DEF AskedPopup, Fit, RecordsFit, RecordFits, Lists, IsBlank, Marks
    <2> QED
      BY <2>1, <2>2, <2>3 DEF RecordsFit
  <1>7. UrlFits'
    <2>1. CASE kind # "updateMetadata"
      <3>1. url' = r /\ r \in assoc' /\ r \in DOMAIN asked' /\ asked'[r].kind # "updateMetadata"
        BY <1>1, <2>1 DEF AskedPopup, Asked, Ids
      <3>2. \A q \in DOMAIN asked' : ~ (q > r)
        BY <1>3 DEF Asked
      <3> QED
        BY <3>1, <3>2 DEF UrlFits
    <2>2. CASE kind = "updateMetadata"
      BY <1>1, <2>2 DEF AskedPopup, Fit, UrlFits, Asked
    <2> QED
      BY <2>1, <2>2
  <1>8. PageFits'
    <2>1. CASE page' = NoPage
      BY <2>1 DEF PageFits
    <2>2. CASE page' # NoPage
      <3>1. page' = page /\ url' = url /\ torn' = torn /\ page # NoPage
        BY <1>1, <2>2 DEF AskedPopup
      <3>2. page.req \in DOMAIN asked /\ asked'[page.req] = asked[page.req] /\ page.req \in Ids
        BY <3>1, PageHasRequest DEF Asked
      <3>3. page.answer # 0 => /\ page.answer \in DOMAIN asked' /\ ~ IsPending(page.answer)'
        BY <1>3, <3>1 DEF Fit, PageFits, Asked
      <3> QED
        BY <3>1, <3>2, <3>3 DEF Fit, PageFits, Asked, IsField, Entered, Marks
    <2> QED
      BY <2>1, <2>2
  <1>9. TabsFit'
    <2>1. ASSUME NEW x \in assoc', x # r
          PROVE  /\ asked'[x].kind # "updateMetadata" /\ reply'[x] # "resolve"
                 /\ IsPending(x)' => reply'[x] = "none"
      <3>1. x \in assoc /\ x \in Ids /\ x \in DOMAIN asked
        <4>1. x \in assoc /\ x \in Ids
          BY <1>2, <2>1 DEF Fit, TypeOK
        <4>2. ~ (x > Len(asked))
          BY <4>1 DEF Fit, RequestsFit, CountsFit
        <4> QED
          BY <1>3, <4>1, <4>2 DEF Ids
      <3> QED
        BY <2>1, <3>1 DEF Fit, TabsFit, Asked
    <2>2. r \in assoc' => asked'[r].kind # "updateMetadata" /\ reply'[r] = "none"
      BY <1>1 DEF AskedPopup, Asked
    <2> QED
      BY <2>1, <2>2 DEF TabsFit
  <1>10. LettersFit'
    <2>1. ASSUME NEW m \in mail'
          PROVE  m.req \in DOMAIN asked /\ ~ IsPending(m.req) /\ (m.how = "resolve" => m \in mail)
      BY <1>1 DEF AskedPopup, Fit, LettersFit
    <2>2. \A m \in mail' : m.req \in DOMAIN asked' /\ ~ IsPending(m.req)' /\ m.req # r
                           /\ asked'[m.req] = asked[m.req]
      BY <1>3, <2>1 DEF Asked
    <2>3. \A m \in hidden' : m.req \notin assoc'
      BY <1>2, <2>2, <1>1 DEF Fit, TypeOK, LettersFit, Asked, AskedPopup
    <2>4. \A m \in mail' : m.how = "resolve" /\ asked'[m.req].item \in Fields \ torn' => m.value = m.req
      BY <1>1, <2>1, <2>2 DEF AskedPopup, Fit, LettersFit
    <2> QED
      BY <2>2, <2>3, <2>4 DEF LettersFit
  <1> QED
    BY <1>4, <1>6, <1>7, <1>8, <1>9, <1>10

LEMMA AskKeepsFields ==
  ASSUME Fit, NEW kind \in Creation \union Authentication \union Login,
         NEW item \in Items \union {NoItem}, Ask(kind, item), NEW r, Asked(r, kind, item)
  PROVE  FieldsFit'
  <1>1. AskedPopup(r, kind)
    BY AskShows
  <1>3. DOMAIN asked = 1 .. Len(asked) /\ Len(asked) \in Nat /\ DOMAIN asked \subseteq Ids
    BY RequestsAreInDomain DEF Fit
  <1> SUFFICES ASSUME NEW f \in Fields, f \notin torn'
               PROVE  ToldFits(f)' /\ EntryFits(f)'
    BY DEF FieldsFit
  <1>4. ToldFits(f) /\ EntryFits(f) /\ f \notin torn
    BY <1>1 DEF Fit, FieldsFit, AskedPopup
  <1>5. \A x \in Ids : About(x, f)' => About(x, f) \/ x = r
    BY DEF About, Asked
  <1>6. \A x \in Ids : About(x, f) => About(x, f)'
    BY DEF About, Asked
  <1>7. ToldFits(f)'
    <2>1. reply' = reply /\ told' = told /\ reply[r] = "none"
      BY DEF Asked
    <2>2. told[f] # 0 => told[f] \in Ids
      BY DEF Fit, TypeOK
    <2>3. CASE told[f] = 0
      BY <1>4, <1>5, <2>1, <2>3 DEF ToldFits
    <2>4. CASE told[f] # 0
      <3>1. About(told[f], f) /\ reply[told[f]] = "resolve"
            /\ \A x \in Ids : About(x, f) /\ reply[x] = "resolve" => x <= told[f]
        BY <1>4, <2>4 DEF ToldFits
      <3>2. About(told[f], f)'
        BY <2>1, <3>1 DEF About, Asked
      <3>3. \A x \in Ids : About(x, f)' /\ reply'[x] = "resolve" => x <= told'[f]
        BY <1>5, <2>1, <3>1
      <3> QED
        BY <2>1, <2>4, <3>1, <3>2, <3>3 DEF ToldFits
    <2> QED
      BY <2>3, <2>4
  <1> DEFINE entry == sessions[1].fields[f]
             h == Head(entry)
  <1>8. entry' = entry
    BY DEF Asked
  <1>9. \A m \in mail : m.req # r
    BY DEF Fit, LettersFit, Asked
  <1>10. \A x \in Ids : About(x, f)' /\ Resolves(x)' => About(x, f) /\ Resolves(x)
    <2>1. \A x \in Ids : Resolves(x)' => Resolves(x)
      BY <1>1 DEF Resolves, AskedPopup, Asked
    <2>2. ~ Resolves(r)
      BY <1>9 DEF Resolves, Asked
    <2> QED
      BY <1>5, <2>1, <2>2
  <1>11. ASSUME entry # <<>>
         PROVE  /\ h \in Ids /\ About(h, f)' /\ Standing(h)' /\ f \in Marks(sessions[1])'
                /\ url' # NoUrl => h <= url'
                /\ url' # NoUrl /\ asked'[url'].kind = "addField" /\ asked'[url'].item = f /\ h # url'
                      => IsSpurious(url, f)'
    <2>1. h \in Ids /\ About(h, f) /\ Standing(h) /\ f \in Marks(sessions[1])
          /\ (url # NoUrl => h <= url) /\ h # r /\ h < r
      BY <1>4, <1>11 DEF EntryFits, About, Asked
    <2>2. Standing(h)'
      <3>1. h' = h /\ reply' = reply /\ (IsPending(h)' <=> IsPending(h))
        <4>1. handlers'[h] = handlers[h]
          BY <2>1 DEF Asked
        <4> QED
          BY <1>8, <4>1 DEF Asked, IsPending
      <3>2. \/ reply[h] = "resolve"
            \/ reply[h] = "none" /\ ~ IsPending(h) /\ \E m \in mail' : m.req = h
            \/ kind = "updateMetadata" /\ page # NoPage /\ page.req = h /\ page.stage = "written"
        BY <1>1, <2>1 DEF AskedPopup
      <3> QED
        BY <1>1, <3>1, <3>2 DEF Standing, AskedPopup
    <2>3. f \in Marks(sessions[1])' /\ About(h, f)'
      BY <2>1 DEF Marks, About, Asked
    <2>4. CASE kind # "updateMetadata"
      <3>1. url' = r /\ page' = NoPage
        BY <1>1, <2>4 DEF AskedPopup
      <3>2. h <= r
        BY <2>1, <1>3 DEF Asked, Ids
      <3>3. ASSUME kind = "addField", item = f
            PROVE  IsSpurious(url, f)'
        <4>1. CurrentSlot = 1
          <5>1. op = "Registration"
            BY <3>3, WhatMayBeAsked DEF Ask
          <5> QED
            BY <5>1 DEF CurrentSlot, Fit, OperationFits
        <4>2. sessions' = sessions /\ handlers'[r] = sessions[1] /\ r \in Ids
          BY <3>3, <4>1 DEF Asked
        <4>3. \A k \in Slots : ~ Lists(sessions[k], r)
          BY DEF Fit, RecordsFit, RecordFits, Through, Asked
        <4>4. \A q \in Ids : IsPending(q)' => ~ Lists(handlers'[q], r)
          <5>1. ASSUME NEW q \in Ids, IsPending(q)'
                PROVE  ~ Lists(handlers'[q], r)
            <6>1. CASE q = r
              BY <4>2, <4>3, <6>1 DEF Slots
            <6>2. CASE q # r
              BY <5>1, <6>2 DEF Fit, RecordsFit, RecordFits, Through, Asked
            <6> QED
              BY <6>1, <6>2
          <5> QED
            BY <5>1
        <4> QED
          BY <2>1, <3>1, <4>2, <4>3, <4>4 DEF IsSpurious, Lists, Marks
      <3>4. asked'[r].kind = kind /\ asked'[r].item = item
        BY DEF Asked
      <3> QED
        BY <2>1, <2>2, <2>3, <3>1, <3>2, <3>3, <3>4
    <2>5. CASE kind = "updateMetadata"
      <3>1. url' = url /\ page' = page /\ sessions' = sessions
        BY <1>1, <2>5 DEF AskedPopup, Asked
      <3>2. ASSUME url # NoUrl, asked'[url].kind = "addField", asked'[url].item = f, h # url
            PROVE  IsSpurious(url, f)'
        <4>1. url \in DOMAIN asked /\ asked'[url] = asked[url] /\ url # r /\ url \in Ids
          BY <1>3, <3>2 DEF Fit, UrlFits, Asked
        <4>2. IsSpurious(url, f)
          BY <1>4, <1>11, <3>2, <4>1 DEF EntryFits
        <4>3. \A q \in Ids : IsPending(q)' => ~ Lists(handlers'[q], url)
          <5>1. ASSUME NEW q \in Ids, IsPending(q)'
                PROVE  ~ Lists(handlers'[q], url)
            <6>1. CASE q = r
              BY <4>2, <6>1 DEF Asked, IsSpurious
            <6>2. CASE q # r
              BY <4>2, <5>1, <6>2 DEF Asked, IsSpurious
            <6> QED
              BY <6>1, <6>2
          <5> QED
            BY <5>1
        <4>4. handlers'[url] = handlers[url] /\ (IsPending(url)' => IsPending(url))
          BY <3>1, <4>1 DEF Asked, IsPending
        <4> QED
          BY <3>1, <4>2, <4>3, <4>4 DEF IsSpurious, Lists, Marks
      <3> QED
        BY <2>1, <2>2, <2>3, <3>1, <3>2
    <2> QED
      BY <2>4, <2>5
  <1>12. page' # NoPage /\ page.stage' = "written" /\ page.answer' = page.req' /\ About(page.req, f)'
            => entry # <<>> /\ h = page.req'
    <2>1. SUFFICES ASSUME page' # NoPage, page.stage' = "written", page.answer' = page.req',
                          About(page.req, f)'
                   PROVE  entry # <<>> /\ h = page.req'
      OBVIOUS
    <2>2. page' = page /\ page # NoPage
      BY <1>1, <2>1 DEF AskedPopup
    <2>3. page.req \in Ids /\ page.req \in DOMAIN asked
      BY <2>2, PageHasRequest
    <2>4. About(page.req, f)
      BY <2>1, <2>2, <2>3 DEF About, Asked
    <2> QED
      BY <1>4, <2>1, <2>2, <2>4 DEF EntryFits
  <1>13. \A x \in Ids : About(x, f)' /\ Resolves(x)' => entry' # <<>> /\ x <= h'
    BY <1>4, <1>8, <1>10 DEF EntryFits
  <1>14. h' = h
    BY <1>8
  <1> QED
    BY <1>7, <1>8, <1>11, <1>12, <1>13, <1>14 DEF EntryFits

LEMMA AskKeepsFit ==
  ASSUME Fit, NEW kind \in Creation \union Authentication \union Login,
         NEW item \in Items \union {NoItem}, Ask(kind, item)
  PROVE  Fit'
  <1>1. PICK r : r = Len(asked) + 1
    OBVIOUS
  <1>2. Asked(r, kind, item)
    BY <1>1, AskFacts
  <1> QED
    BY <1>2, AskKeepsRequests, AskKeepsOthers, AskKeepsFields DEF Fit

-----------------------------------------------------------------------------
(* A handler writes                                                        *)

\* The handler of request r read s and leaves u in slot k.
Written(r, s, k, u) ==
  LET a == asked[r] IN
  /\ r \in DOMAIN asked /\ r \in Ids /\ AskFits(r) /\ a \in Request /\ IsPending(r)
  /\ s = handlers[r] /\ s \in Session /\ RecordFits(s) /\ ~ Refuses(r, s)
  /\ k = SlotOf(a) /\ k \in Slots /\ u \in Session /\ sessions[k] \in Session
  /\ sessions' = [sessions EXCEPT ![k] = u] /\ sessions'[k] = u
  /\ \A j \in Slots : j # k => sessions'[j] = sessions[j]
  /\ UpdatedFits(a, r, s, sessions[k], u)
  /\ handlers' = [handlers EXCEPT ![r] = NoHandler]
  /\ \A x \in Ids : IsPending(x)' <=> IsPending(x) /\ x # r
  /\ \A x \in Ids : x # r => handlers'[x] = handlers[x]
  /\ torn \subseteq torn' /\ torn' \subseteq Fields
  /\ Marks(sessions[1]) \subseteq Marks(sessions'[1]) \union torn'
  /\ UNCHANGED <<asked, op, told, popup, letters, closings>>
  /\ reply[r] = "none" /\ answers[r] = 0
  /\ a.kind # "updateMetadata" => UNCHANGED <<known, busy, reply, answers>>
  /\ \A x \in Ids : reply'[x] = IF x = r /\ a.kind = "updateMetadata" THEN "resolve" ELSE reply[x]
  /\ \A x \in Ids : answers'[x] = 0 <=> answers[x] = 0 /\ ~ (x = r /\ a.kind = "updateMetadata")
  /\ a.kind = "updateMetadata" => k = 1 /\ r \notin assoc /\ a.item = NoItem
  /\ a.kind = "approveOperation" => r = 1 /\ k = 1 /\ Len(asked) = 1 /\ op = "none"
  /\ r # 1 => a.kind # "approveOperation" /\ op # "none" /\ ~ IsPending(1) /\ 1 \in Ids
              /\ sessions[1].requests # <<>>
  /\ a.kind = "approveTransitionToAuthOp" => k = 2

LEMMA UpdateFacts ==
  ASSUME Fit, NEW r \in DOMAIN asked, Update(r), NEW s, s = handlers[r],
         NEW k, k = SlotOf(asked[r]), NEW u, u = Updated(r, s, sessions[k])
  PROVE  Written(r, s, k, u)
  <1> DEFINE a == asked[r]
  <1> USE DEF popup, letters
  <1>1. /\ s # NoHandler /\ ~ Refuses(r, s) /\ handlers' = [handlers EXCEPT ![r] = NoHandler]
        /\ sessions' = [sessions EXCEPT ![k] = u]
        /\ torn' = torn \union Dropped(sessions[1], sessions'[1])
        /\ IF a.kind = "updateMetadata" THEN Settle(r, "resolve", 0) ELSE UNCHANGED browser
        /\ UNCHANGED <<asked, popup, letters, closings>>
    BY DEF Update, Handled
  <1>2. /\ r \in Ids /\ a \in Request /\ AskFits(r) /\ CountsFit(r) /\ TypeOK
        /\ DOMAIN asked = 1 .. Len(asked) /\ Len(asked) \in Nat /\ DOMAIN asked \subseteq Ids
    BY RequestsAreInDomain DEF Fit, RequestsFit
  <1>3. IsPending(r) /\ s \in Session /\ RecordFits(s)
    BY <1>1, <1>2 DEF IsPending, TypeOK, Fit, RecordsFit
  <1>4. k \in Slots /\ sessions[k] \in Session /\ sessions \in [Slots -> Session]
    BY <1>2 DEF SlotOf, Slots, Request, TypeOK
  <1>5. UpdatedFits(a, r, s, sessions[k], u)
    BY <1>2, <1>3, <1>4, UpdateOfRecord
  <1>6. u \in Session
    BY <1>5 DEF UpdatedFits
  <1>7. sessions'[k] = u /\ \A j \in Slots : j # k => sessions'[j] = sessions[j]
    BY <1>1, <1>4
  <1>8. /\ \A x \in Ids : x # r => handlers'[x] = handlers[x]
        /\ \A x \in Ids : IsPending(x)' <=> IsPending(x) /\ x # r
    BY <1>1, <1>2 DEF TypeOK, IsPending
  <1>9. /\ torn \subseteq torn' /\ torn' \subseteq Fields
        /\ Marks(sessions[1]) \subseteq Marks(sessions'[1]) \union torn'
    <2>1. Marks(sessions[1]) \subseteq Fields
      BY <1>4, PartsOfRecord DEF Slots, Options, Puts, Marks, Fields
    <2> QED
      BY <1>1, <1>2, <2>1 DEF Dropped, Marks, TypeOK
  <1>10. answers[r] = 0 /\ reply[r] = "none"
    <2>1. answers[r] \in 0 .. 2 /\ ~ (answers[r] > 0)
      BY <1>2, <1>3 DEF TypeOK, CountsFit
    <2> QED
      BY <1>2, <2>1 DEF CountsFit
  <1>11. a.kind = "updateMetadata" =>
            /\ k = 1 /\ r \notin assoc /\ a.item = NoItem /\ op' = op /\ told' = told
            /\ \A x \in Ids : reply'[x] = IF x = r THEN "resolve" ELSE reply[x]
            /\ \A x \in Ids : answers'[x] = 0 <=> answers[x] = 0 /\ x # r
    <2> SUFFICES ASSUME a.kind = "updateMetadata"
                 PROVE  /\ k = 1 /\ r \notin assoc /\ a.item = NoItem /\ op' = op /\ told' = told
                        /\ \A x \in Ids : reply'[x] = IF x = r THEN "resolve" ELSE reply[x]
                        /\ \A x \in Ids : answers'[x] = 0 <=> answers[x] = 0 /\ x # r
      OBVIOUS
    <2>1. Settle(r, "resolve", 0)
      BY <1>1
    <2>2. k = 1 /\ r \notin assoc /\ a.item = NoItem
      BY <1>2 DEF SlotOf, AskFits, IsField, Authentication, Fit, TabsFit
    <2>3. op' = op /\ told' = told
      BY <2>1 DEF Settle, IsField
    <2>4. /\ \A x \in Ids : reply'[x] = IF x = r /\ reply[r] = "none" THEN "resolve" ELSE reply[x]
          /\ \A x \in Ids : answers'[x] = 0 <=> answers[x] = 0 /\ x # r
      BY <2>1, SettledTypes
    <2> QED
      BY <1>10, <2>2, <2>3, <2>4
  <1>12. a.kind # "updateMetadata" => UNCHANGED <<op, told, known, busy, reply, answers>>
    BY <1>1 DEF browser
  <1>13. r # 1 => a.kind # "approveOperation" /\ op # "none" /\ ~ IsPending(1) /\ 1 \in Ids
                  /\ sessions[1].requests # <<>>
    <2> SUFFICES ASSUME r # 1
                 PROVE  a.kind # "approveOperation" /\ op # "none" /\ ~ IsPending(1) /\ 1 \in Ids
                        /\ sessions[1].requests # <<>>
      OBVIOUS
    <2>1. Len(asked) > 1 /\ 1 \in DOMAIN asked
      BY <1>2
    <2>2. op # "none" /\ asked # <<>> /\ ~ IsPending(1)
      BY <2>1, EmptySeq DEF Fit, OperationFits
    <2> QED
      BY <1>2, <2>1, <2>2 DEF AskFits, Fit, OperationFits
  <1>14. a.kind = "approveOperation" => r = 1 /\ k = 1 /\ Len(asked) = 1 /\ op = "none"
    <2> SUFFICES ASSUME a.kind = "approveOperation"
                 PROVE  r = 1 /\ k = 1 /\ Len(asked) = 1 /\ op = "none"
      OBVIOUS
    <2>1. r = 1
      BY <1>2 DEF AskFits
    <2>2. op = "none"
      BY <1>3, <2>1 DEF Fit, OperationFits
    <2>3. ~ (Len(asked) > 1) /\ ~ HasGot("approveTransitionToAuthOp")
      BY <2>2 DEF Fit, OperationFits
    <2>4. a.slot # 2 /\ a.slot \in Slots
      BY <1>2, <2>3 DEF AskFits, Request
    <2>5. k = 1
      BY <2>4 DEF SlotOf, Slots
    <2> QED
      BY <1>2, <2>1, <2>2, <2>3, <2>5
  <1>15. a.kind = "approveTransitionToAuthOp" => k = 2
    BY DEF SlotOf
  <1>16. /\ \A x \in Ids : reply'[x] = IF x = r /\ a.kind = "updateMetadata" THEN "resolve" ELSE reply[x]
         /\ \A x \in Ids : answers'[x] = 0 <=> answers[x] = 0 /\ ~ (x = r /\ a.kind = "updateMetadata")
         /\ op' = op /\ told' = told
    BY <1>11, <1>12
  <1> QED
    BY <1>1, <1>2, <1>3, <1>4, <1>5, <1>6, <1>7, <1>8, <1>9, <1>10, <1>11, <1>12, <1>13, <1>14,
       <1>15, <1>16
    DEF Written

LEMMA UpdateKeepsTypes ==
  ASSUME Fit, NEW r \in DOMAIN asked, Update(r), NEW s, NEW k, NEW u, Written(r, s, k, u)
  PROVE  TypeOK'
  <1> USE DEF popup, letters
  <1>1. op' \in {"none", "Registration", "Authentication"} /\ known' \subseteq Items
        /\ busy' \in BOOLEAN /\ reply' \in [Ids -> {"none", "resolve", "reject"}]
        /\ answers' \in [Ids -> 0 .. 2] /\ told' \in [Fields -> Ids \union {0}]
    <2>1. CASE asked[r].kind = "updateMetadata"
      <3>1. Settle(r, "resolve", 0)
        BY <2>1 DEF Update
      <3> QED
        BY <3>1, SettledTypes
    <2>2. CASE asked[r].kind # "updateMetadata"
      BY <2>2 DEF Written, Fit, TypeOK
    <2> QED
      BY <2>1, <2>2
  <1>2. account' \in [Fields -> Seq(Ids)] \union {NoAccount}
    <2>1. s.fields \in [Fields -> Seq(Ids)]
      BY PartsOfRecord DEF Written, Values
    <2> QED
      BY <2>1 DEF Update, Saved, Written, Fit, TypeOK
  <1>3. sessions' \in [Slots -> Session]
    BY DEF Written, Fit, TypeOK
  <1>4. handlers' \in [Ids -> Session \union {NoHandler}]
    BY DEF Written, Fit, TypeOK
  <1> QED
    BY <1>1, <1>2, <1>3, <1>4 DEF Written, Fit, TypeOK

\* The handler leaves a record that lists some request.
LEMMA UpdateListsSome ==
  ASSUME NEW r, NEW s, NEW k, NEW u, Written(r, s, k, u)
  PROVE  u.requests # <<>> /\ sessions'[1].requests # <<>>
  <1>1. s.requests \in Seq(Ids) /\ r \in Ids
    BY DEF Written, Session
  <1>2. <<r>> # <<>> /\ Append(s.requests, r) # <<>>
    BY <1>1, AppendsToList
  <1>3. CASE asked[r].kind = "updateMetadata"
    <2>1. r # 1 /\ k = 1
      BY <1>3 DEF Written, AskFits
    <2>2. u.requests = sessions[1].requests
      BY <1>3, <2>1 DEF Written, UpdatedFits, Approvals
    <2> QED
      BY <2>1, <2>2 DEF Written
  <1>4. CASE asked[r].kind # "updateMetadata"
    <2>1. u.requests = <<r>> \/ u.requests = Append(s.requests, r)
      BY <1>4 DEF Written, UpdatedFits
    <2>2. u.requests # <<>>
      BY <1>2, <2>1
    <2>3. CASE k = 1
      BY <2>2, <2>3 DEF Written
    <2>4. CASE k # 1
      <3>1. sessions'[1] = sessions[1] /\ r # 1
        BY <2>4 DEF Written, Slots, AskFits
      <3> QED
        BY <2>2, <3>1 DEF Written
    <2> QED
      BY <2>3, <2>4
  <1> QED
    BY <1>3, <1>4

LEMMA UpdateKeepsRequests ==
  ASSUME Fit, NEW r, NEW s, NEW k, NEW u, Written(r, s, k, u)
  PROVE  RequestsFit' /\ OperationFits'
  <1> USE DEF popup, letters
  <1> DEFINE a == asked[r]
  <1>0. DOMAIN asked = 1 .. Len(asked) /\ Len(asked) \in Nat /\ DOMAIN asked \subseteq Ids
        /\ asked' = asked /\ op' = op
    BY RequestsAreInDomain DEF Written, Fit
  <1>1. \A x \in Ids : reply'[x] = "resolve" <=> reply[x] = "resolve" \/ (x = r /\ a.kind = "updateMetadata")
    BY DEF Written
  <1>2. \A kind : HasGot(kind) => HasGot(kind)'
    BY <1>0, <1>1 DEF HasGot
  <1>3. HasGot("approveTransitionToAuthOp")' => HasGot("approveTransitionToAuthOp")
    BY <1>0, <1>1 DEF HasGot
  <1>4. \A x \in DOMAIN asked' : AskFits(x)'
    BY <1>0, <1>2 DEF Fit, RequestsFit, AskFits, IsField
  <1>5. ASSUME NEW x \in Ids
        PROVE  CountsFit(x)'
    <2>1. CountsFit(x)
      BY DEF Fit, RequestsFit
    <2>2. x > Len(asked) => x # r
      BY <1>0 DEF Written
    <2>3. answers[x] \in 0 .. 2 /\ IsPending(r) /\ assoc' = assoc /\ (IsPending(x)' <=> IsPending(x) /\ x # r)
      BY DEF Written, Fit, TypeOK
    <2>4. answers'[x] > 0 => answers'[x] # 0
      OBVIOUS
    <2>5. answers[x] # 0 => answers[x] > 0
      BY <2>3
    <2>6. reply'[x] = "none" <=> answers'[x] = 0
      BY <2>1 DEF Written, CountsFit
    <2>7. answers'[x] > 0 => answers[x] > 0 \/ x = r
      BY <2>4, <2>5 DEF Written
    <2>8. x > Len(asked) => reply'[x] = reply[x]
      BY <2>2 DEF Written
    <2> QED
      BY <1>0, <2>1, <2>2, <2>3, <2>6, <2>7, <2>8 DEF CountsFit
  <1>6. sessions'[1].requests # <<>>
    BY UpdateListsSome
  <1>7. OperationFits'
    <2>1. op # "none" => ~ IsPending(1)' /\ reply'[1] = "resolve"
      <3>1. op # "none" => asked # <<>> /\ ~ IsPending(1) /\ reply[1] = "resolve"
        BY DEF Fit, OperationFits
      <3>2. asked # <<>> => 1 \in Ids
        <4>1. r \in 1 .. Len(asked)
          BY <1>0 DEF Written
        <4>2. 1 \in 1 .. Len(asked)
          BY <1>0, <4>1
        <4> QED
          BY <1>0, <4>2
      <3> QED
        BY <1>1, <3>1, <3>2 DEF Written
    <2>3. reply[2] = "resolve" /\ Len(asked) > 1 => reply'[2] = "resolve"
      <3>1. Len(asked) > 1 => 2 \in Ids
        BY <1>0
      <3> QED
        BY <1>1, <3>1
    <2> QED
      BY <1>0, <1>3, <1>6, <2>1, <2>3 DEF Fit, OperationFits
  <1> QED
    BY <1>0, <1>4, <1>5, <1>7 DEF RequestsFit

\* What is listed had been, where the handler looked or where it writes, or is
\* the handler's own request.
LEMMA UpdateLists ==
  ASSUME NEW r, NEW s, NEW k, NEW u, Written(r, s, k, u), NEW j \in Slots, NEW x \in Ids
  PROVE  Lists(sessions'[j], x) => Lists(sessions[j], x) \/ Lists(s, x)
                                   \/ (x = r /\ asked[r].kind # "updateMetadata")
  <1>1. CASE j # k
    BY <1>1 DEF Written
  <1>2. CASE j = k
    <2>1. s.requests \in Seq(Ids) /\ sessions[k].requests \in Seq(Ids) /\ r \in Ids
      BY DEF Written, Session
    <2>2. sessions'[k] = u /\ UpdatedFits(asked[r], r, s, sessions[k], u)
      BY DEF Written
    <2>3. CASE asked[r].kind = "updateMetadata"
      <3>1. u.requests = sessions[k].requests
        BY <2>2, <2>3 DEF UpdatedFits, Approvals
      <3> QED
        BY <1>2, <2>1, <2>2, <3>1, ListsOfRecord
    <2>4. CASE asked[r].kind # "updateMetadata"
      <3>1. u.requests = <<r>> \/ u.requests = Append(s.requests, r)
        BY <2>2, <2>4 DEF UpdatedFits
      <3>2. Lists(u, x) => Lists(s, x) \/ x = r
        BY <2>1, <3>1, ListsOfRecord
      <3> QED
        BY <1>2, <2>2, <2>4, <3>2
    <2> QED
      BY <2>3, <2>4
  <1> QED
    BY <1>1, <1>2

LEMMA UpdateKeepsRecords ==
  ASSUME Fit, NEW r, NEW s, NEW k, NEW u, Written(r, s, k, u)
  PROVE  RecordsFit'
  <1> USE DEF popup, letters
  <1> DEFINE a == asked[r]
  <1>1. ASSUME NEW x \in Ids, Through(x)
        PROVE  Through(x)'
    BY <1>1 DEF Through, Written
  <1>2. a.kind # "updateMetadata" => Through(r)'
    <2>1. r \in assoc => reply[r] = "none"
      BY DEF Written
    <2> QED
      BY <2>1 DEF Through, Written
  <1>3. ASSUME NEW j \in Slots
        PROVE  RecordFits(sessions[j])'
    <2>1. \A x \in Ids : Lists(sessions'[j], x) => Through(x)'
      <3>1. \A x \in Ids : Lists(sessions[j], x) => Through(x)
        BY DEF Fit, RecordsFit, RecordFits
      <3>2. \A x \in Ids : Lists(s, x) => Through(x)
        BY DEF Written, RecordFits
      <3> QED
        BY <1>1, <1>2, <3>1, <3>2, UpdateLists
    <2>2. sessions'[j].requests = <<>> => IsBlank(sessions'[j])
      <3>1. CASE j # k
        BY <3>1 DEF Written, Fit, RecordsFit, RecordFits
      <3>2. CASE j = k
        <4>1. u.requests # <<>>
          BY UpdateListsSome
        <4> QED
          BY <3>2, <4>1 DEF Written
      <3> QED
        BY <3>1, <3>2
    <2> QED
      BY <2>1, <2>2 DEF RecordFits, Lists, IsBlank, Marks
  <1>4. ASSUME NEW x \in Ids, IsPending(x)'
        PROVE  RecordFits(handlers[x])'
    <2>1. IsPending(x) /\ x # r /\ handlers'[x] = handlers[x]
      BY <1>4 DEF Written
    <2>2. RecordFits(handlers[x])
      BY <2>1 DEF Fit, RecordsFit
    <2> QED
      BY <1>1, <2>1, <2>2 DEF RecordFits, Lists, IsBlank, Marks
  <1>5. page' # NoPage => RecordFits(page.seen)'
    <2>1. page' = page
      BY DEF Written
    <2> QED
      BY <1>1, <2>1 DEF Fit, RecordsFit, RecordFits, Lists, IsBlank, Marks
  <1> QED
    BY <1>3, <1>4, <1>5 DEF RecordsFit

\* The fields are as they were, but for the first request.
LEMMA UpdateKeepsValues ==
  ASSUME NEW r, NEW s, NEW k, NEW u, Written(r, s, k, u)
  PROVE  sessions'[1].fields = sessions[1].fields \/ (r = 1 /\ Len(asked) = 1)
  <1>1. CASE k = 1 /\ asked[r].kind \in Approvals
    BY <1>1 DEF Written, Approvals
  <1>2. CASE k = 1 /\ asked[r].kind \notin Approvals
    BY <1>2 DEF Written, UpdatedFits
  <1>3. CASE k # 1
    BY <1>3 DEF Written, Slots
  <1> QED
    BY <1>1, <1>2, <1>3

LEMMA UpdateKeepsPopup ==
  ASSUME Fit, NEW r, NEW s, NEW k, NEW u, Written(r, s, k, u)
  PROVE  UrlFits' /\ PageFits' /\ TabsFit' /\ LettersFit'
  <1> USE DEF popup, letters
  <1>0. DOMAIN asked = 1 .. Len(asked) /\ Len(asked) \in Nat /\ DOMAIN asked \subseteq Ids
    BY RequestsAreInDomain DEF Fit
  <1>1. UrlFits'
    BY DEF Written, Fit, UrlFits
  <1>2. PageFits'
    <2>1. page' = page /\ url' = url /\ asked' = asked /\ torn \subseteq torn'
      BY DEF Written
    <2>2. page # NoPage => page.req \in DOMAIN asked /\ page.req \in Ids /\ page.req = url
                           /\ asked[page.req].kind # "updateMetadata" /\ AskFits(page.req)
      BY PageHasRequest
    <2>3. page # NoPage /\ page.answer # 0 => page.answer \in DOMAIN asked /\ ~ IsPending(page.answer)'
      BY <1>0 DEF Fit, PageFits, Written
    <2>4. page # NoPage /\ page.answer = page.req => reply'[page.req] = "none"
      BY <2>2 DEF Fit, PageFits, Written
    <2>5. ASSUME page # NoPage, page.stage # "waiting", IsField(asked[page.req])
          PROVE  /\ sessions'[1].fields \in {page.seen.fields, Entered(asked[page.req])}
                 /\ asked[page.req].item \in Marks(sessions'[1]) \union torn'
      <3>1. /\ sessions[1].fields \in {page.seen.fields, Entered(asked[page.req])}
            /\ asked[page.req].item \in Marks(sessions[1]) \union torn
        BY <2>5 DEF Fit, PageFits
      <3>2. ~ (r = 1 /\ Len(asked) = 1)
        BY <1>0, <2>2, <2>5 DEF AskFits, IsField
      <3>3. sessions'[1].fields = sessions[1].fields
        BY <3>2, UpdateKeepsValues
      <3> QED
        BY <2>1, <3>1, <3>3 DEF Written
    <2> QED
      BY <2>1, <2>2, <2>3, <2>4, <2>5 DEF Fit, PageFits, IsField, Entered, Marks
  <1>3. TabsFit'
    BY DEF Written, Fit, TabsFit, TypeOK
  <1>4. LettersFit'
    BY <1>0 DEF Written, Fit, LettersFit
  <1> QED
    BY <1>1, <1>2, <1>3, <1>4

LEMMA UpdateKeepsFields ==
  ASSUME Fit, NEW r, NEW s, NEW k, NEW u, Written(r, s, k, u)
  PROVE  FieldsFit'
  <1> USE DEF popup, letters
  <1> DEFINE a == asked[r]
  <1>0. /\ DOMAIN asked = 1 .. Len(asked) /\ Len(asked) \in Nat /\ DOMAIN asked \subseteq Ids
        /\ UNCHANGED <<asked, op, told, page, url, mail, assoc>>
    BY RequestsAreInDomain DEF Fit, Written
  <1> SUFFICES ASSUME NEW f \in Fields, f \notin torn'
               PROVE  ToldFits(f)' /\ EntryFits(f)'
    BY DEF FieldsFit
  <1>1. ToldFits(f) /\ EntryFits(f) /\ f \notin torn
    BY DEF Fit, FieldsFit, Written
  <1>2. \A x \in Ids : About(x, f) => reply'[x] = reply[x]
    <2>1. a.kind = "updateMetadata" => ~ About(r, f)
      BY SecretStarAssumption DEF Written, About, Items
    <2> QED
      BY <2>1 DEF Written
  <1>3. ToldFits(f)'
    <2>1. told[f] # 0 => told[f] \in Ids
      BY DEF Fit, TypeOK
    <2> QED
      BY <1>0, <1>1, <1>2, <2>1 DEF ToldFits, About
  <1>4. \A x \in Ids : About(x, f)' /\ Resolves(x)' => About(x, f) /\ Resolves(x)
    BY <1>0, <1>2 DEF About, Resolves
  <1>5. CASE r = 1 /\ Len(asked) = 1
    <2>1. \A x \in Ids : ~ About(x, f)'
      <3>1. SUFFICES ASSUME NEW x \in DOMAIN asked
                     PROVE  asked[x].item # f
        BY <1>0 DEF About
      <3>2. x = 1 /\ AskFits(x)
        BY <1>0, <1>5, <3>1 DEF Fit, RequestsFit
      <3> QED
        BY <3>2 DEF AskFits, IsField
    <2>2. sessions'[1].fields[f] = <<>>
      <3>1. a.kind = "approveOperation"
        BY <1>5 DEF Written, AskFits
      <3>2. k = 1 /\ u.fields = NoFields
        BY <3>1 DEF Written, UpdatedFits, Approvals
      <3> QED
        BY <3>2, NoSessionIsBlank DEF Written
    <2>3. page' # NoPage => page.req' \in Ids
      BY <1>0, PageHasRequest
    <2> QED
      BY <1>3, <2>1, <2>2, <2>3 DEF EntryFits
  <1>6. CASE ~ (r = 1 /\ Len(asked) = 1)
    <2> DEFINE entry == sessions[1].fields[f]
               h == Head(entry)
    <2>1. entry' = entry /\ h' = h
      BY <1>6, UpdateKeepsValues
    <2>2. ASSUME entry # <<>>
          PROVE  /\ h \in Ids /\ About(h, f)' /\ Standing(h)' /\ f \in Marks(sessions[1])'
                 /\ url' # NoUrl => h <= url'
                 /\ url' # NoUrl /\ asked'[url'].kind = "addField" /\ asked'[url'].item = f /\ h # url'
                       => IsSpurious(url, f)'
      <3>1. h \in Ids /\ About(h, f) /\ Standing(h) /\ f \in Marks(sessions[1])
            /\ (url # NoUrl => h <= url)
        BY <1>1, <2>2 DEF EntryFits
      <3>2. f \in Marks(sessions[1])'
        <4>1. f \in Marks(sessions'[1])
          BY <3>1 DEF Written
        <4> QED
          BY <4>1 DEF Marks
      <3>3. Standing(h)'
        BY <1>0, <1>2, <2>1, <3>1 DEF Standing, Written
      <3>4. ASSUME url # NoUrl, asked[url].kind = "addField", asked[url].item = f, h # url
            PROVE  IsSpurious(url, f)'
        <4>1. IsSpurious(url, f) /\ url \in Ids
          BY <1>1, <2>2, <3>4 DEF EntryFits, Fit, TypeOK
        <4>2. r # url
          <5>1. SUFFICES ASSUME r = url
                         PROVE  FALSE
            OBVIOUS
          <5>2. f \in Marks(s)
            BY <4>1, <5>1 DEF IsSpurious, Written
          <5> QED
            BY <3>4, <5>1, <5>2 DEF Written, Refuses, Marks
        <4>3. ~ Lists(s, url)
          BY <4>1 DEF IsSpurious, Written
        <4>4. \A j \in Slots : ~ Lists(sessions'[j], url)
          BY <4>1, <4>2, <4>3, UpdateLists DEF IsSpurious
        <4>5. \A q \in Ids : IsPending(q)' => ~ Lists(handlers'[q], url)
          BY <4>1 DEF IsSpurious, Written
        <4>6. IsPending(url)' => IsPending(url) /\ handlers'[url] = handlers[url]
          BY <4>1, <4>2 DEF Written
        <4> QED
          BY <1>0, <4>1, <4>4, <4>5, <4>6 DEF IsSpurious, Lists, Marks
      <3> QED
        BY <1>0, <2>1, <3>1, <3>2, <3>3, <3>4 DEF About
    <2>3. \A x \in Ids : About(x, f)' /\ Resolves(x)' => entry' # <<>> /\ x <= h'
      BY <1>1, <1>4, <2>1 DEF EntryFits
    <2>4. page' # NoPage /\ page.stage' = "written" /\ page.answer' = page.req' /\ About(page.req, f)'
             => entry' # <<>> /\ h' = page.req'
      BY <1>0, <1>1, <2>1 DEF EntryFits, About
    <2> QED
      BY <1>3, <2>1, <2>2, <2>3, <2>4 DEF EntryFits
  <1> QED
    BY <1>5, <1>6

LEMMA UpdateKeepsFit ==
  ASSUME Fit, NEW r \in DOMAIN asked, Update(r)
  PROVE  Fit'
  <1>1. PICK s, k : s = handlers[r] /\ k = SlotOf(asked[r])
    OBVIOUS
  <1>2. PICK u : u = Updated(r, s, sessions[k])
    OBVIOUS
  <1>3. Written(r, s, k, u)
    BY <1>1, <1>2, UpdateFacts
  <1> QED
    BY <1>3, UpdateKeepsTypes, UpdateKeepsRequests, UpdateKeepsRecords, UpdateKeepsPopup,
       UpdateKeepsFields
    DEF Fit

-----------------------------------------------------------------------------
(* The fields the web app was told of                                      *)

LEMMA StepKeepsFit ==
  ASSUME Fit, [Next]_vars
  PROVE  Fit'
  <1>1. CASE UNCHANGED vars
    <2>1. OnlyPageChanges /\ page' = page
      BY <1>1 DEF vars, popup, OnlyPageChanges
    <2>2. PageFits'
      BY <2>1 DEF Fit, PageFits, OnlyPageChanges, browser, IsPending, IsField, Entered, Marks
    <2>3. page' # NoPage => RecordFits(page.seen)'
      BY <2>1 DEF Fit, RecordsFit, RecordFits, Through, Lists, IsBlank, Marks, IsPending,
                  OnlyPageChanges, browser, letters
    <2>4. FieldsFit'
      BY <2>1, FieldsKeptByThePage
    <2>5. page' \in Page \union {NoPage}
      BY <2>1 DEF Fit, TypeOK
    <2> QED
      BY <2>1, <2>2, <2>3, <2>4, <2>5, PartsKeptByThePage DEF Fit, RecordsFit
  <1>2. ASSUME NEW kind \in Creation \union Authentication \union Login,
               NEW item \in Items \union {NoItem}, Ask(kind, item)
        PROVE  Fit'
    BY <1>2, AskKeepsFit
  <1>3. ASSUME NEW r \in DOMAIN asked, Update(r) \/ Refuse(r)
        PROVE  Fit'
    BY <1>3, UpdateKeepsFit, RefuseKeepsFit
  <1>4. CASE Open
    BY <1>4, OpenKeepsFit
  <1>5. CASE Load
    BY <1>5, LoadKeepsFit
  <1>6. CASE Submit
    BY <1>6, SubmitKeepsFit
  <1>7. CASE GiveUp
    BY <1>7, GiveUpKeepsFit
  <1>8. CASE Send
    BY <1>8, SendKeepsFit
  <1>9. CASE Dismiss \/ Close
    BY <1>9, CloseKeepsFit
  <1>10. CASE LookTooEarly \/ Processed
    BY <1>10, OtherPageKeepsFit
  <1>11. ASSUME NEW m \in mail, Hide(m) \/ HandOn(m)
         PROVE  Fit'
    BY <1>11, HideKeepsFit, HandOnKeepsFit
  <1> QED
    BY <1>1, <1>2, <1>3, <1>4, <1>5, <1>6, <1>7, <1>8, <1>9, <1>10, <1>11
    DEF Next, Background, Popup, Letters

LEMMA InitIsFit ==
  ASSUME Init
  PROVE  Fit
  <1> USE DEF Init
  <1>0. asked = <<>> /\ DOMAIN asked = {} /\ Len(asked) = 0 /\ asked \in Seq(Request)
    BY EmptySeq
  <1>1. \A x \in Ids : ~ Lists(NoSession, x)
    BY NoSessionIsBlank, ListsOfRecord DEF Session
  <1>2. TypeOK
    <2>1. Len(asked) <= MaxRequests /\ closings \in 0 .. MaxClosings
      BY <1>0, SecretStarAssumption
    <2>2. /\ reply \in [Ids -> {"none", "resolve", "reject"}] /\ answers \in [Ids -> 0 .. 2]
          /\ told \in [Fields -> Ids \union {0}] /\ sessions \in [Slots -> Session]
          /\ handlers \in [Ids -> Session \union {NoHandler}]
      BY NoSessionIsBlank
    <2> QED
      BY <1>0, <2>1, <2>2 DEF TypeOK
  <1>3. RequestsFit
    <2>1. \A r \in Ids : ~ IsPending(r)
      BY DEF IsPending
    <2> QED
      BY <1>0, <2>1 DEF RequestsFit, CountsFit
  <1>4. OperationFits
    BY <1>0 DEF OperationFits, HasGot
  <1>5. RecordsFit
    BY <1>1, NoSessionIsBlank DEF RecordsFit, RecordFits, IsPending
  <1>6. UrlFits /\ PageFits /\ TabsFit /\ LettersFit
    BY DEF UrlFits, PageFits, TabsFit, LettersFit
  <1>7. FieldsFit
    <2> SUFFICES ASSUME NEW f \in Fields
                 PROVE  ToldFits(f) /\ EntryFits(f)
      BY DEF FieldsFit
    <2>1. \A r : ~ About(r, f)
      BY <1>0 DEF About
    <2>2. sessions[1].fields[f] = <<>> /\ told[f] = 0
      BY NoSessionIsBlank DEF Slots
    <2> QED
      BY <2>1, <2>2 DEF ToldFits, EntryFits
  <1> QED
    BY <1>2, <1>3, <1>4, <1>5, <1>6, <1>7 DEF Fit

\* What the inductive invariant says of a field nothing is under way for.
LEMMA FitFieldsAreAsTold ==
  ASSUME Fit
  PROVE  GrantedFieldsAreStored
  <1> SUFFICES ASSUME NEW f \in Fields, f \notin torn, ~ IsUnderWay(f)
               PROVE  IsAsTold(sessions[1].fields, f)
    BY DEF GrantedFieldsAreStored
  <1>1. ToldFits(f) /\ EntryFits(f) /\ (told[f] # 0 => told[f] \in Ids)
    BY DEF Fit, FieldsFit, TypeOK
  <1> DEFINE entry == sessions[1].fields[f]
             h == Head(entry)
  <1>2. entry # <<>> => h \in Ids /\ About(h, f) /\ reply[h] = "resolve"
    <2>1. SUFFICES ASSUME entry # <<>>
                   PROVE  h \in Ids /\ About(h, f) /\ reply[h] = "resolve"
      OBVIOUS
    <2>2. h \in Ids /\ About(h, f) /\ Standing(h)
      BY <1>1, <2>1 DEF EntryFits
    <2>3. ~ \E m \in mail : m.req = h
      BY <2>2 DEF IsUnderWay, About
    <2>4. ~ (page # NoPage /\ page.req = h /\ page.stage = "written")
      BY <2>2 DEF IsUnderWay, About
    <2> QED
      BY <2>2, <2>3, <2>4 DEF Standing
  <1>3. CASE told[f] = 0
    BY <1>1, <1>2, <1>3 DEF ToldFits, IsAsTold
  <1>4. CASE told[f] # 0
    <2>1. About(told[f], f) /\ reply[told[f]] = "resolve" /\ told[f] \in Ids
      BY <1>1, <1>4 DEF ToldFits
    <2>2. entry # <<>> /\ told[f] <= h
      BY <1>1, <2>1 DEF EntryFits, Resolves
    <2>3. h <= told[f]
      BY <1>1, <1>2, <1>4, <2>2 DEF ToldFits
    <2>4. h = told[f]
      BY <1>2, <2>1, <2>2, <2>3 DEF Ids
    <2> QED
      BY <1>4, <2>2, <2>4 DEF IsAsTold
  <1> QED
    BY <1>3, <1>4

LEMMA Fitness == Spec => []Fit
  <1>1. Init => Fit
    BY InitIsFit
  <1>2. Fit /\ [Next]_vars => Fit'
    BY StepKeepsFit
  <1> QED
    BY <1>1, <1>2, PTL DEF Spec

\* The record of a session has the fields the web app was told were granted, and
\* no others, with the values it was told, for any fields and any number of
\* requests, however often the user closes the popup and answers are sent
\* (workers/main.ts, ui/controlled).
THEOREM FieldsAreStored == Spec => []GrantedFieldsAreStored
  <1>1. Fit => GrantedFieldsAreStored
    BY FitFieldsAreAsTold
  <1> QED
    BY <1>1, Fitness, PTL

THEOREM SessionTypes == Spec => []TypeOK
  <1>1. Fit => TypeOK
    BY DEF Fit
  <1> QED
    BY <1>1, Fitness, PTL

-----------------------------------------------------------------------------
(* One thing at a time                                                     *)

LEMMA CausesLast ==
  ASSUME NEW s, NEW t, NEW kinds, NEW i, Cause(s, kinds, i),
         \A x \in Ids : Lists(s, x) => Lists(t, x)
  PROVE  Cause(t, kinds, i)
  BY DEF Cause

\* A record with the same lists and marks has them for the same causes.
LEMMA SameCauses ==
  ASSUME NEW s \in Session, NEW t \in Session, SameButFields(s, t)
  PROVE  /\ Increasing(t) <=> Increasing(s)
         /\ Caused(t) <=> Caused(s)
         /\ \A x : Lists(t, x) <=> Lists(s, x)
         /\ \A kinds, i : Cause(t, kinds, i) <=> Cause(s, kinds, i)
         /\ t.version = s.version /\ t.requests = s.requests
  <1>1. \A x : Lists(t, x) <=> Lists(s, x)
    BY DEF SameButFields, Lists
  <1>2. \A kinds, i : Cause(t, kinds, i) <=> Cause(s, kinds, i)
    BY <1>1 DEF Cause
  <1>3. Increasing(t) <=> Increasing(s)
    BY DEF SameButFields, Increasing
  <1>4. Caused(t) <=> Caused(s)
    BY <1>2 DEF SameButFields, Caused, Marks
  <1> QED
    BY <1>1, <1>2, <1>3, <1>4 DEF SameButFields

\* Steps that change records at most in their fields, and no request.
LEMMA SerialWithoutRequests ==
  ASSUME Fit, Serial, UNCHANGED <<asked, busy, reply, answers, handlers>>,
         sessions' \in [Slots -> Session],
         \A k \in Slots : SameButFields(sessions[k], sessions'[k]),
         \A r \in Ids : IsPending(r) /\ asked[r].kind = "closeOperation" =>
            sessions'[asked[r].slot].fields = sessions[asked[r].slot].fields
  PROVE  Serial'
  <1>1. InTurn'
    BY DEF Serial, InTurn
  <1>2. ReadsFit'
    <2>1. ASSUME NEW r \in Ids, IsPending(r)
          PROVE  asked[r].slot \in Slots
      <3>1. r \in DOMAIN asked
        <4>1. ~ (r > Len(asked))
          BY <2>1 DEF Fit, RequestsFit, CountsFit
        <4>2. DOMAIN asked = 1 .. Len(asked) /\ Len(asked) \in Nat
          BY RequestsAreInDomain DEF Fit
        <4> QED
          BY <4>1, <4>2 DEF Ids
      <3> QED
        BY <3>1, RequestsAreInDomain DEF Fit, Request
    <2> QED
      BY <2>1 DEF Serial, ReadsFit, IsPending, IsTransition, SameButFields
  <1>3. CausesFit'
    <2>1. ASSUME NEW k \in Slots
          PROVE  /\ Increasing(sessions[k])' <=> Increasing(sessions[k])
                 /\ Caused(sessions[k])' <=> Caused(sessions[k])
                 /\ \A x : Lists(sessions[k], x)' <=> Lists(sessions[k], x)
                 /\ \A kinds, i : Cause(sessions[k], kinds, i)' <=> Cause(sessions[k], kinds, i)
                 /\ sessions'[k].version = sessions[k].version
                 /\ sessions'[k].requests = sessions[k].requests
      <3>1. sessions[k] \in Session /\ sessions'[k] \in Session
        BY DEF Fit, TypeOK
      <3>2. /\ Increasing(sessions'[k]) <=> Increasing(sessions[k])
            /\ Caused(sessions'[k]) <=> Caused(sessions[k])
            /\ \A x : Lists(sessions'[k], x) <=> Lists(sessions[k], x)
            /\ \A kinds, i : Cause(sessions'[k], kinds, i) <=> Cause(sessions[k], kinds, i)
            /\ sessions'[k].version = sessions[k].version
            /\ sessions'[k].requests = sessions[k].requests
        BY <3>1, SameCauses
      <3>3. /\ Increasing(sessions[k])' <=> Increasing(sessions'[k])
            /\ \A x : Lists(sessions[k], x)' <=> Lists(sessions'[k], x)
        BY DEF Increasing, Lists
      <3>4. \A kinds, i : Cause(sessions[k], kinds, i)' <=> Cause(sessions'[k], kinds, i)
        BY <3>3 DEF Cause
      <3>5. Caused(sessions[k])' <=> Caused(sessions'[k])
        BY <3>4 DEF Caused, Marks
      <3> QED
        BY <3>2, <3>3, <3>4, <3>5
    <2> QED
      BY <2>1 DEF Serial, CausesFit, Slots
  <1>4. TransitionsFit'
    <2>1. \A x : Lists(sessions[2], x)' <=> Lists(sessions[2], x)
      BY DEF SameButFields, Lists, Slots
    <2> QED
      BY <2>1 DEF Serial, TransitionsFit, IsTransition, IsPending
  <1> QED
    BY <1>1, <1>2, <1>3, <1>4 DEF Serial

LEMMA SerialOfPopup ==
  ASSUME Fit, Serial, UNCHANGED <<asked, busy, reply, answers, sessions, handlers>>
  PROVE  Serial'
  <1>1. sessions' \in [Slots -> Session]
    BY DEF Fit, TypeOK
  <1>2. \A k \in Slots : SameButFields(sessions[k], sessions'[k])
    BY DEF SameButFields
  <1> QED
    BY <1>1, <1>2, SerialWithoutRequests

\* A request that is handled, or was never answered, is the last one.
LEMMA UnansweredIsLast ==
  ASSUME Fit, Serial, NEW r \in DOMAIN asked, answers[r] = 0
  PROVE  r = Len(asked) /\ busy
  <1>1. DOMAIN asked = 1 .. Len(asked) /\ Len(asked) \in Nat
    BY RequestsAreInDomain DEF Fit
  <1>2. ~ (r < Len(asked))
    BY DEF Serial, InTurn
  <1>3. r = Len(asked) /\ asked # <<>>
    BY <1>1, <1>2, EmptySeq
  <1> QED
    BY <1>3 DEF Serial, InTurn

LEMMA PendingIsLast ==
  ASSUME Fit, Serial, NEW r \in Ids, IsPending(r)
  PROVE  r \in DOMAIN asked /\ answers[r] = 0 /\ r = Len(asked)
  <1>1. DOMAIN asked = 1 .. Len(asked) /\ Len(asked) \in Nat
    BY RequestsAreInDomain DEF Fit
  <1>2. ~ (r > Len(asked)) /\ ~ (answers[r] > 0) /\ answers[r] \in 0 .. 2
    BY DEF Fit, RequestsFit, CountsFit, TypeOK
  <1>3. r \in DOMAIN asked /\ answers[r] = 0
    BY <1>1, <1>2 DEF Ids
  <1> QED
    BY <1>3, UnansweredIsLast

LEMMA SerialOfSubmit ==
  ASSUME Fit, Serial, Submit
  PROVE  Serial'
  <1>1. UNCHANGED <<asked, busy, reply, answers, handlers>> /\ sessions' \in [Slots -> Session]
    BY SubmitTypes DEF Submit, browser
  <1>2. \A k \in Slots : SameButFields(sessions[k], sessions'[k])
    <2>1. CASE ~ IsField(asked[page.req])
      BY <2>1, SubmitTypes DEF SameButFields
    <2>2. CASE IsField(asked[page.req])
      <3>1. sessions' = [sessions EXCEPT ![1].fields = Entered(asked[page.req])]
        BY <2>2, SubmitTypes
      <3>2. sessions \in [Slots -> Session]
        BY DEF Fit, TypeOK
      <3> QED
        BY <3>1, <3>2 DEF SameButFields, Slots, Session
    <2> QED
      BY <2>1, <2>2
  <1>3. ASSUME NEW r \in Ids, IsPending(r), asked[r].kind = "closeOperation"
        PROVE  sessions'[asked[r].slot].fields = sessions[asked[r].slot].fields
    <2>1. r = Len(asked) /\ r \in DOMAIN asked
      BY <1>3, PendingIsLast
    <2>2. page # NoPage /\ page.req = url /\ page.req \in DOMAIN asked
      BY SubmitTypes, PageHasRequest
    <2>3. ~ (r > url)
      BY <1>3, <2>1, <2>2 DEF Fit, UrlFits, PageFits
    <2>4. DOMAIN asked = 1 .. Len(asked) /\ Len(asked) \in Nat
      BY RequestsAreInDomain DEF Fit
    <2>5. r = page.req
      BY <2>1, <2>2, <2>3, <2>4
    <2>6. ~ IsField(asked[page.req])
      BY <1>3, <2>5 DEF IsField
    <2> QED
      BY <2>6, SubmitTypes
  <1> QED
    BY <1>1, <1>2, <1>3, SerialWithoutRequests

\* An answer that is the first to its request.
LEMMA SettledOnce ==
  ASSUME Fit, Serial, NEW r \in DOMAIN asked, NEW how \in {"resolve", "reject"},
         NEW value \in Ids \union {0}, Settle(r, how, value), ~ IsAnsweredTwice', asked' = asked
  PROVE  /\ r = Len(asked) /\ reply[r] = "none" /\ InTurn'
  <1>1. DOMAIN asked = 1 .. Len(asked) /\ Len(asked) \in Nat /\ r \in Ids
    BY RequestsAreInDomain DEF Fit
  <1>2. /\ answers \in [Ids -> 0 .. 2] /\ busy' = FALSE
        /\ answers' = [answers EXCEPT ![r] = IF @ = 2 THEN 2 ELSE @ + 1]
    BY DEF Settle, Fit, TypeOK
  <1>3. answers'[r] = (IF answers[r] = 2 THEN 2 ELSE answers[r] + 1) /\ answers[r] \in 0 .. 2
    BY <1>1, <1>2
  <1>4. answers'[r] # 2
    BY <1>1 DEF IsAnsweredTwice
  <1>5. answers[r] = 0
    BY <1>3, <1>4
  <1>6. r = Len(asked)
    BY <1>5, UnansweredIsLast
  <1>7. reply[r] = "none"
    BY <1>1, <1>5 DEF Fit, RequestsFit, CountsFit
  <1>8. \A q \in DOMAIN asked : q < Len(asked) => answers'[q] = 1
    <2> SUFFICES ASSUME NEW q \in DOMAIN asked, q < Len(asked) PROVE answers'[q] = 1
      OBVIOUS
    <2>1. answers[q] = 1 /\ q # r /\ q \in Ids
      BY <1>1, <1>6, RequestsAreInDomain DEF Serial, InTurn, Fit
    <2> QED
      BY <1>2, <2>1
  <1>9. answers'[Len(asked)] = 1
    BY <1>3, <1>5, <1>6
  <1> QED
    BY <1>2, <1>6, <1>7, <1>8, <1>9 DEF InTurn

LEMMA SerialOfAnswer ==
  ASSUME Fit, Serial, NEW r \in DOMAIN asked, NEW how \in {"resolve", "reject"},
         NEW value \in Ids \union {0}, Settle(r, how, value), ~ IsAnsweredTwice',
         UNCHANGED <<asked, sessions>>,
         \A x \in Ids : IsPending(x)' => IsPending(x) /\ handlers'[x] = handlers[x],
         \A x \in Ids : IsPending(x) => IsPending(x)' \/ (x = r /\ how = "reject")
  PROVE  Serial'
  <1>1. InTurn' /\ reply[r] = "none"
    BY SettledOnce
  <1>2. ReadsFit'
    BY DEF Serial, ReadsFit, IsTransition, SameButFields
  <1>3. CausesFit'
    BY DEF Serial, CausesFit, Caused, Cause, Increasing, Marks, Lists
  <1>4. \A x \in Ids : reply'[x] = IF x = r THEN how ELSE reply[x]
    BY <1>1, SettledTypes
  <1>5. TransitionsFit'
    <2> SUFFICES ASSUME NEW x \in DOMAIN asked, IsTransition(x)
                 PROVE  /\ ~ IsPending(x)' /\ reply'[x] # "reject" => Lists(sessions[2], x)
                        /\ \A q \in 1 .. x - 1 : IsTransition(q) => reply'[q] = "reject"
      BY DEF TransitionsFit, IsTransition, Lists
    <2>1. /\ ~ IsPending(x) /\ reply[x] # "reject" => Lists(sessions[2], x)
          /\ \A q \in 1 .. x - 1 : IsTransition(q) => reply[q] = "reject"
      BY DEF Serial, TransitionsFit
    <2>2. DOMAIN asked = 1 .. Len(asked) /\ Len(asked) \in Nat /\ x \in Ids
          /\ 1 .. x - 1 \subseteq Ids
      <3>1. DOMAIN asked = 1 .. Len(asked) /\ Len(asked) \in Nat /\ x \in Ids
        BY RequestsAreInDomain DEF Fit
      <3> QED
        BY <3>1, SecretStarAssumption DEF Ids
    <2>3. ~ IsPending(x)' /\ reply'[x] # "reject" => ~ IsPending(x) /\ reply[x] # "reject"
      BY <1>1, <1>4, <2>2
    <2>4. \A q \in 1 .. x - 1 : IsTransition(q) => reply'[q] = "reject"
      BY <1>1, <1>4, <2>1, <2>2
    <2> QED
      BY <2>1, <2>3, <2>4
  <1> QED
    BY <1>1, <1>2, <1>3, <1>5 DEF Serial

LEMMA SerialOfRefuse ==
  ASSUME Fit, Serial, NEW r \in DOMAIN asked, Refuse(r), ~ IsAnsweredTwice'
  PROVE  Serial'
  <1>1. Settle(r, "reject", 0) /\ UNCHANGED <<asked, sessions>>
        /\ handlers' = [handlers EXCEPT ![r] = NoHandler]
    BY DEF Refuse, Handled
  <1>2. /\ \A x \in Ids : IsPending(x)' => IsPending(x) /\ handlers'[x] = handlers[x]
        /\ \A x \in Ids : IsPending(x) => IsPending(x)' \/ x = r
    BY <1>1 DEF IsPending, Fit, TypeOK
  <1> QED
    BY <1>1, <1>2, SerialOfAnswer

LEMMA SerialOfHandOn ==
  ASSUME Fit, Serial, NEW m \in mail, HandOn(m), ~ IsAnsweredTwice'
  PROVE  Serial'
  <1>1. /\ m.req \in DOMAIN asked /\ m.how \in {"resolve", "reject"} /\ m.value \in Ids \union {0}
    BY DEF Fit, LettersFit, TypeOK, Letter
  <1>2. Settle(m.req, m.how, m.value) /\ UNCHANGED <<asked, sessions, handlers>>
    BY DEF HandOn
  <1>3. /\ \A x \in Ids : IsPending(x)' => IsPending(x) /\ handlers'[x] = handlers[x]
        /\ \A x \in Ids : IsPending(x) => IsPending(x)'
    BY <1>2 DEF IsPending
  <1> QED
    BY <1>1, <1>2, <1>3, SerialOfAnswer

-----------------------------------------------------------------------------
(* One handler writes at a time                                            *)

\* What the handler of r finds is what it has read.
LEMMA WrittenInTurn ==
  ASSUME Fit, Serial, NEW r, NEW s, NEW k, NEW u, Written(r, s, k, u)
  PROVE  LET a == asked[r] IN
         /\ r = Len(asked) /\ \A x \in Ids : ~ IsPending(x)'
         /\ a.kind \notin Approvals => SameButFields(s, sessions[k]) /\ k = a.slot
         /\ \A x \in Ids : Lists(sessions[k], x) => x < r
         /\ a.kind \notin Approvals => \A x \in Ids : Lists(sessions[k], x) => Lists(u, x)
         /\ a.kind # "updateMetadata" => Lists(u, r)
  <1>1. r \in Ids /\ IsPending(r) /\ r \in DOMAIN asked
    BY DEF Written
  <1>2. r = Len(asked)
    BY <1>1, PendingIsLast
  <1>3. ASSUME NEW x \in Ids PROVE ~ IsPending(x)'
    <2>1. IsPending(x) => x = r
      BY <1>2, PendingIsLast
    <2> QED
      BY <2>1 DEF Written
  <1>4. asked[r].kind \notin Approvals => SameButFields(s, sessions[k]) /\ k = asked[r].slot
    BY <1>1 DEF Written, Serial, ReadsFit, IsTransition, Approvals, SlotOf
  <1>5. \A x \in Ids : Lists(sessions[k], x) => x < r
    <2> SUFFICES ASSUME NEW x \in Ids, Lists(sessions[k], x) PROVE x < r
      OBVIOUS
    <2>1. Through(x)
      BY DEF Fit, RecordsFit, RecordFits, Written
    <2>2. x \in DOMAIN asked /\ x # r
      BY <1>1, <2>1 DEF Through
    <2>3. DOMAIN asked = 1 .. Len(asked) /\ Len(asked) \in Nat
      BY RequestsAreInDomain DEF Fit
    <2> QED
      BY <1>2, <2>2, <2>3
  <1>6. /\ s.requests \in Seq(Ids) /\ sessions[k].requests \in Seq(Ids)
        /\ u.requests = IF asked[r].kind \in Approvals THEN <<r>>
                        ELSE IF asked[r].kind = "updateMetadata" THEN sessions[k].requests
                        ELSE Append(s.requests, r)
    BY DEF Written, Session, UpdatedFits
  <1>7. asked[r].kind \notin Approvals => \A x \in Ids : Lists(sessions[k], x) => Lists(u, x)
    <2> SUFFICES ASSUME asked[r].kind \notin Approvals, NEW x \in Ids, Lists(sessions[k], x)
                 PROVE  Lists(u, x)
      OBVIOUS
    <2>1. Lists(s, x)
      BY <1>4 DEF SameButFields, Lists
    <2>2. CASE asked[r].kind = "updateMetadata"
      BY <1>6, <2>2 DEF Lists
    <2>3. CASE asked[r].kind # "updateMetadata"
      BY <1>1, <1>6, <2>1, <2>3, ListsOfRecord
    <2> QED
      BY <2>2, <2>3
  <1>8. asked[r].kind # "updateMetadata" => Lists(u, r)
    BY <1>1, <1>6, ListsOfRecord
  <1> QED
    BY <1>2, <1>3, <1>4, <1>5, <1>7, <1>8

LEMMA WrittenIncreases ==
  ASSUME Fit, Serial, NEW r, NEW s, NEW k, NEW u, Written(r, s, k, u)
  PROVE  Increasing(u)
  <1> DEFINE now == sessions[k]
  <1>1. /\ r \in Ids /\ s.requests \in Seq(Ids) /\ now.requests \in Seq(Ids)
        /\ u.requests = IF asked[r].kind \in Approvals THEN <<r>>
                        ELSE IF asked[r].kind = "updateMetadata" THEN now.requests
                        ELSE Append(s.requests, r)
        /\ Increasing(now)
    BY DEF Written, Session, UpdatedFits, Serial, CausesFit
  <1>2. asked[r].kind \notin Approvals => s.requests = now.requests
    BY WrittenInTurn DEF SameButFields
  <1>3. CASE asked[r].kind \in Approvals
    BY <1>1, <1>3 DEF Increasing
  <1>4. CASE asked[r].kind = "updateMetadata"
    BY <1>1, <1>4 DEF Increasing, Approvals
  <1>5. CASE asked[r].kind \notin Approvals /\ asked[r].kind # "updateMetadata"
    <2> DEFINE n == Len(now.requests)
    <2>1. u.requests = Append(now.requests, r)
      BY <1>1, <1>2, <1>5
    <2>2. /\ DOMAIN u.requests = 1 .. n + 1 /\ n \in Nat /\ DOMAIN now.requests = 1 .. n
          /\ \A i \in 1 .. n : u.requests[i] = now.requests[i]
          /\ u.requests[n + 1] = r
      <3>1. now.requests \in Seq(Ids) /\ r \in Ids
        BY <1>1
      <3>2. /\ DOMAIN Append(now.requests, r) = 1 .. n + 1
            /\ n \in Nat /\ DOMAIN now.requests = 1 .. n
            /\ \A i \in 1 .. n : Append(now.requests, r)[i] = now.requests[i]
            /\ Append(now.requests, r)[n + 1] = r
        BY <3>1, AppendsToList
      <3> QED
        BY <2>1, <3>2, Zenon
    <2>3. \A i \in 1 .. n : now.requests[i] < r
      <3> SUFFICES ASSUME NEW i \in 1 .. n PROVE now.requests[i] < r
        OBVIOUS
      <3>1. now.requests[i] \in Ids /\ Lists(now, now.requests[i])
        BY <1>1, <2>2 DEF Lists
      <3> QED
        BY <3>1, WrittenInTurn
    <2>4. \A i, j \in 1 .. n : i < j => now.requests[i] < now.requests[j]
      BY <1>1, <2>2 DEF Increasing
    <2> SUFFICES ASSUME NEW i \in 1 .. n + 1, NEW j \in 1 .. n + 1, i < j
                 PROVE  u.requests[i] < u.requests[j]
      BY <2>2 DEF Increasing
    <2>5. i \in 1 .. n /\ (j \in 1 .. n \/ j = n + 1)
      BY <2>2
    <2> QED
      BY <2>2, <2>3, <2>4, <2>5
  <1> QED
    BY <1>3, <1>4, <1>5

LEMMA WrittenIsCaused ==
  ASSUME Fit, Serial, NEW r, NEW s, NEW k, NEW u, Written(r, s, k, u)
  PROVE  Caused(u)
  <1> DEFINE a == asked[r]
             now == sessions[k]
  <1>1. /\ r \in Ids /\ UpdatedFits(a, r, s, now, u) /\ Caused(now) /\ now \in Session /\ AskFits(r)
        /\ s \in Session /\ u \in Session
    BY DEF Written, Serial, CausesFit
  <1>2. CASE a.kind \in Approvals
    BY <1>1, <1>2 DEF UpdatedFits, Caused, Marks
  <1>3. CASE a.kind \notin Approvals
    <2>1. /\ SameButFields(s, now)
          /\ \A x \in Ids : Lists(now, x) => Lists(u, x)
          /\ a.kind # "updateMetadata" => Lists(u, r)
      BY <1>3, WrittenInTurn
    <2>2. ASSUME NEW kinds, NEW i, Cause(now, kinds, i)
          PROVE  Cause(u, kinds, i)
      BY <2>1, <2>2, CausesLast
    <2>3. ASSUME NEW kinds, a.kind \in kinds, a.kind # "updateMetadata"
          PROVE  Cause(u, kinds, a.item)
      BY <1>1, <2>1, <2>3 DEF Cause
    <2>4. ASSUME NEW f \in Marks(u) PROVE Cause(u, {"addField"}, f)
      <3>1. f \in Marks(now) \/ (a.kind = "addField" /\ f = a.item)
        BY <1>1, <1>3, <2>1 DEF UpdatedFits, SameButFields, Marks
      <3> QED
        BY <1>1, <2>2, <2>3, <3>1 DEF Caused
    <2>5. ASSUME NEW f \in u.rejected PROVE Cause(u, {"rejectFieldValue"}, f)
      <3>1. f \in now.rejected \/ (a.kind = "rejectFieldValue" /\ f = a.item)
        BY <1>1, <1>3, <2>1 DEF UpdatedFits, SameButFields
      <3> QED
        BY <1>1, <2>2, <2>3, <3>1 DEF Caused
    <2>6. ASSUME u.closed PROVE Cause(u, {"closeOperation"}, NoItem)
      <3>1. now.closed \/ a.kind = "closeOperation"
        BY <1>1, <1>3, <2>6 DEF UpdatedFits
      <3>2. a.kind = "closeOperation" => a.item = NoItem
        BY <1>1 DEF AskFits, Authentication, IsField
      <3>3. CASE now.closed
        BY <1>1, <2>2, <3>3 DEF Caused
      <3>4. CASE a.kind = "closeOperation"
        <4>1. Cause(u, {"closeOperation"}, a.item)
          BY <2>3, <3>4
        <4> QED
          BY <3>2, <3>4, <4>1
      <3> QED
        BY <3>1, <3>3, <3>4
    <2>7. ASSUME NEW c \in u.messages PROVE Cause(u, {"respondToChallengeMessage"}, c)
      <3>1. c \in now.messages \/ (a.kind = "respondToChallengeMessage" /\ c = a.item)
        BY <1>1, <1>3, <2>1 DEF UpdatedFits, SameButFields
      <3> QED
        BY <1>1, <2>2, <2>3, <3>1 DEF Caused
    <2>8. ASSUME NEW c \in Challenges
          PROVE  /\ u.challenges[c] = "aborted" => Cause(u, {"abortChallenge"}, c)
                 /\ u.challenges[c] = "sealed" => Cause(u, {"abortChallenge", "closeChallenge"}, c)
                 /\ u.challenges[c] # "none"
                      => Cause(u, {"approveChallengeRequest", "abortChallenge", "closeChallenge"}, c)
      <3>1. now.challenges \in States /\ s.challenges = now.challenges
        BY <1>1, <2>1, PartsOfRecord DEF SameButFields
      <3>2. /\ u.challenges[c] = "aborted"
                 => now.challenges[c] = "aborted" \/ (a.kind = "abortChallenge" /\ c = a.item)
            /\ u.challenges[c] = "sealed"
                 => now.challenges[c] = "sealed" \/ (a.kind = "closeChallenge" /\ c = a.item)
            /\ u.challenges[c] # "none"
                 => \/ now.challenges[c] # "none"
                    \/ c = a.item /\ a.kind \in {"approveChallengeRequest", "abortChallenge", "closeChallenge"}
        BY <1>1, <1>3, <3>1 DEF UpdatedFits, States
      <3>3. u.challenges[c] = "aborted" => Cause(u, {"abortChallenge"}, c)
        BY <1>1, <2>2, <2>3, <3>2 DEF Caused
      <3>4. u.challenges[c] = "sealed" => Cause(u, {"abortChallenge", "closeChallenge"}, c)
        BY <1>1, <2>2, <2>3, <3>2 DEF Caused
      <3>5. u.challenges[c] # "none"
              => Cause(u, {"approveChallengeRequest", "abortChallenge", "closeChallenge"}, c)
        BY <1>1, <2>2, <2>3, <3>2 DEF Caused
      <3> QED
        BY <3>3, <3>4, <3>5
    <2> QED
      BY <2>4, <2>5, <2>6, <2>7, <2>8 DEF Caused
  <1> QED
    BY <1>2, <1>3

LEMMA WrittenVersion ==
  ASSUME Fit, Serial, NEW r, NEW s, NEW k, NEW u, Written(r, s, k, u)
  PROVE  /\ k = 2 => Cause(u, {"approveTransitionToAuthOp"}, NoItem)
         /\ k = 1 /\ Len(asked) < 3 => u.version <= Len(u.requests)
  <1> DEFINE a == asked[r]
             now == sessions[k]
  <1>1. /\ r \in Ids /\ r \in DOMAIN asked /\ UpdatedFits(a, r, s, now, u) /\ AskFits(r)
        /\ s \in Session /\ now \in Session /\ k \in Slots /\ a \in Request /\ k = SlotOf(a)
    BY DEF Written
  <1>2. /\ r = Len(asked)
        /\ a.kind \notin Approvals => SameButFields(s, now) /\ k = a.slot
        /\ a.kind \notin Approvals => \A x \in Ids : Lists(now, x) => Lists(u, x)
        /\ a.kind # "updateMetadata" => Lists(u, r)
    BY WrittenInTurn
  <1>3. ASSUME k = 2 PROVE Cause(u, {"approveTransitionToAuthOp"}, NoItem)
    <2>1. CASE IsTransition(r)
      <3>1. a.item = NoItem
        BY <1>1, <2>1 DEF IsTransition, AskFits, Authentication, IsField
      <3> QED
        BY <1>1, <1>2, <2>1, <3>1 DEF Cause, IsTransition
    <2>2. CASE ~ IsTransition(r)
      <3>1. a.slot = 2 /\ HasGot("approveTransitionToAuthOp")
        BY <1>1, <1>3, <2>2 DEF SlotOf, IsTransition, AskFits
      <3>2. PICK q \in DOMAIN asked : asked[q].kind = "approveTransitionToAuthOp" /\ reply[q] = "resolve"
        BY <3>1 DEF HasGot
      <3>3. q \in Ids /\ AskFits(q) /\ CountsFit(q) /\ answers[q] \in 0 .. 2
        BY RequestsAreInDomain DEF Fit, RequestsFit, TypeOK
      <3>4. answers[q] > 0
        BY <3>2, <3>3 DEF CountsFit
      <3>5. ~ IsPending(q)
        BY <3>3, <3>4 DEF CountsFit
      <3>6. Lists(sessions[2], q)
        BY <3>2, <3>5 DEF Serial, TransitionsFit, IsTransition
      <3>7. a.kind \notin Approvals
        BY <1>3, <2>2 DEF IsTransition, Approvals, Written
      <3>8. asked[q].item = NoItem
        BY <3>2, <3>3 DEF AskFits, Authentication, IsField
      <3> QED
        BY <1>2, <1>3, <3>2, <3>3, <3>6, <3>7, <3>8 DEF Cause
    <2> QED
      BY <2>1, <2>2
  <1>4. ASSUME k = 1, Len(asked) < 3 PROVE u.version <= Len(u.requests)
    <2>1. /\ now.requests \in Seq(Ids) /\ Len(now.requests) \in Nat /\ s.requests \in Seq(Ids)
          /\ s.version \in 0 .. 2 /\ now.version \in 0 .. 2
      BY <1>1, LenProperties DEF Session
    <2>2. now.version <= Len(now.requests)
      BY <1>4 DEF Serial, CausesFit
    <2>3. CASE a.kind \in Approvals
      <3>1. u.requests = <<r>> /\ u.version = 1
        BY <1>1, <2>3 DEF UpdatedFits
      <3>2. Len(<<r>>) = 1
        BY <1>1, <2>1, AppendsToList
      <3> QED
        BY <3>1, <3>2
    <2>4. a.kind # "updateMetadata"
      BY <1>1, <1>2, <1>4 DEF AskFits, Ids
    <2>5. CASE a.kind \notin Approvals
      <3>1. s.requests = now.requests /\ s.version = now.version
        BY <1>2, <2>5 DEF SameButFields
      <3>2. u.requests = Append(now.requests, r)
        BY <1>1, <2>4, <2>5, <3>1 DEF UpdatedFits
      <3>3. Len(Append(now.requests, r)) = Len(now.requests) + 1
        BY <1>1, <2>1, AppendsToList
      <3>4. Bumped(s) <= now.version + 1 /\ Bumped(s) \in 0 .. 2
        BY <1>1, <3>1, VersionIsBumped
      <3>5. u.version \in {2, now.version, Bumped(s)}
            /\ (a.kind # "getUserAttributes" => u.version \in {now.version, Bumped(s)})
        BY <1>1, <2>5 DEF UpdatedFits
      <3>6. CASE a.kind = "getUserAttributes"
        <4>1. r # 1
          BY <1>1, <3>6 DEF AskFits
        <4>2. now.requests # <<>>
          BY <1>4, <4>1 DEF Written
        <4>3. Len(now.requests) > 0
          BY <2>1, <4>2, EmptySeq
        <4>4. u.version <= Len(now.requests) + 1
          BY <2>1, <2>2, <3>4, <3>5, <4>3
        <4> QED
          BY <3>2, <3>3, <4>4
      <3>7. CASE a.kind # "getUserAttributes"
        <4>1. u.version <= Len(now.requests) + 1
          BY <2>1, <2>2, <3>4, <3>5, <3>7
        <4> QED
          BY <3>2, <3>3, <4>1
      <3> QED
        BY <3>6, <3>7
    <2> QED
      BY <2>3, <2>5
  <1> QED
    BY <1>3, <1>4

LEMMA SerialOfUpdate ==
  ASSUME Fit, Serial, NEW r \in DOMAIN asked, Update(r), ~ IsAnsweredTwice'
  PROVE  Serial'
  <1>1. PICK s, k, u : Written(r, s, k, u)
    BY UpdateFacts
  <1>2. /\ r = Len(asked) /\ r \in Ids /\ \A x \in Ids : ~ IsPending(x)'
        /\ asked[r].kind \notin Approvals => \A x \in Ids : Lists(sessions[k], x) => Lists(u, x)
        /\ asked[r].kind # "updateMetadata" => Lists(u, r)
    <2>1. r \in Ids
      BY <1>1 DEF Written
    <2> QED
      BY <1>1, <2>1, WrittenInTurn
  <1>3. /\ asked' = asked /\ sessions'[k] = u /\ k \in Slots /\ reply[r] = "none"
        /\ \A j \in Slots : j # k => sessions'[j] = sessions[j]
        /\ \A x \in Ids : IsPending(x)' <=> IsPending(x) /\ x # r
        /\ \A x \in Ids : reply'[x] = IF x = r /\ asked[r].kind = "updateMetadata"
                                      THEN "resolve" ELSE reply[x]
    BY <1>1 DEF Written
  <1>4. InTurn'
    <2>1. CASE asked[r].kind = "updateMetadata"
      <3>1. Settle(r, "resolve", 0)
        BY <2>1 DEF Update
      <3> QED
        BY <1>3, <3>1, SettledOnce
    <2>2. CASE asked[r].kind # "updateMetadata"
      BY <1>1, <2>2 DEF Written, Serial, InTurn
    <2> QED
      BY <2>1, <2>2
  <1>5. ReadsFit'
    BY <1>2 DEF ReadsFit
  <1>6. CausesFit'
    <2>1. ASSUME NEW j \in Slots
          PROVE  /\ Increasing(sessions[j])' /\ Caused(sessions[j])'
                 /\ j = 2 /\ sessions'[2].version > 0
                       => Cause(sessions[2], {"approveTransitionToAuthOp"}, NoItem)'
                 /\ j = 1 /\ Len(asked) < 3 => sessions'[1].version <= Len(sessions'[1].requests)
      <3>1. CASE j # k
        <4>1. sessions'[j] = sessions[j]
          BY <1>3, <3>1
        <4> QED
          BY <1>3, <4>1 DEF Serial, CausesFit, Caused, Cause, Increasing, Marks, Lists
      <3>2. CASE j = k
        <4>1. Increasing(u) /\ Caused(u)
          BY <1>1, WrittenIncreases, WrittenIsCaused
        <4>2. /\ k = 2 => Cause(u, {"approveTransitionToAuthOp"}, NoItem)
              /\ k = 1 /\ Len(asked) < 3 => u.version <= Len(u.requests)
          BY <1>1, WrittenVersion
        <4>3. sessions'[j] = u
          BY <1>3, <3>2
        <4> QED
          BY <1>3, <3>2, <4>1, <4>2, <4>3 DEF Caused, Cause, Increasing, Marks, Lists
      <3> QED
        BY <3>1, <3>2
    <2> QED
      BY <1>3, <2>1 DEF CausesFit, Slots
  <1>7. TransitionsFit'
    <2> SUFFICES ASSUME NEW x \in DOMAIN asked, IsTransition(x)
                 PROVE  /\ ~ IsPending(x)' /\ reply'[x] # "reject" => Lists(sessions'[2], x)
                        /\ \A q \in 1 .. x - 1 : IsTransition(q) => reply'[q] = "reject"
      BY <1>3 DEF TransitionsFit, IsTransition, Lists
    <2>1. DOMAIN asked = 1 .. Len(asked) /\ Len(asked) \in Nat /\ x \in Ids
      BY RequestsAreInDomain DEF Fit
    <2>2. /\ ~ IsPending(x) /\ reply[x] # "reject" => Lists(sessions[2], x)
          /\ \A q \in 1 .. x - 1 : IsTransition(q) => reply[q] = "reject"
      BY DEF Serial, TransitionsFit
    <2>3. ASSUME NEW q \in 1 .. x - 1, IsTransition(q)
          PROVE  reply'[q] = "reject"
      <3>1. reply[q] = "reject" /\ q \in Ids
        BY <2>1, <2>2, <2>3, SecretStarAssumption DEF Ids
      <3> QED
        BY <1>3, <3>1
    <2>4. ASSUME ~ IsPending(x)', reply'[x] # "reject"
          PROVE  Lists(sessions'[2], x)
      <3>1. CASE x = r
        <4>1. k = 2 /\ asked[r].kind # "updateMetadata"
          BY <1>1, <3>1 DEF IsTransition, Written
        <4> QED
          BY <1>2, <1>3, <3>1, <4>1
      <3>2. CASE x # r
        <4>1. ~ IsPending(x) /\ reply[x] # "reject"
          BY <1>3, <2>1, <2>4, <3>2
        <4>2. Lists(sessions[2], x)
          BY <2>2, <4>1
        <4>3. ~ IsTransition(r)
          <5>1. IsTransition(r) /\ x \in 1 .. r - 1 => reply[x] = "reject"
            BY DEF Serial, TransitionsFit
          <5>2. x \in 1 .. r - 1
            BY <1>2, <2>1, <3>2
          <5> QED
            BY <4>1, <5>1, <5>2
        <4>4. CASE k = 2
          <5>1. asked[r].kind \notin Approvals
            BY <1>1, <4>3, <4>4 DEF Written, Approvals, IsTransition
          <5> QED
            BY <1>2, <1>3, <2>1, <4>2, <4>4, <5>1
        <4>5. CASE k # 2
          <5>1. sessions'[2] = sessions[2]
            BY <1>3, <4>5 DEF Slots
          <5> QED
            BY <4>2, <5>1
        <4> QED
          BY <4>4, <4>5
      <3> QED
        BY <3>1, <3>2
    <2> QED
      BY <2>3, <2>4
  <1> QED
    BY <1>4, <1>5, <1>6, <1>7 DEF Serial

-----------------------------------------------------------------------------
(* A request is let in when the one before it is answered                  *)

LEMMA SerialOfAsk ==
  ASSUME Fit, Serial, ~ IsAnsweredTwice, NEW kind \in Creation \union Authentication \union Login,
         NEW item \in Items \union {NoItem}, Ask(kind, item), NEW r, Asked(r, kind, item)
  PROVE  Serial'
  <1>2. /\ DOMAIN asked = 1 .. Len(asked) /\ Len(asked) \in Nat /\ DOMAIN asked \subseteq Ids
        /\ \A q \in DOMAIN asked : q \in Ids
    BY RequestsAreInDomain DEF Fit
  <1>3. /\ ~ busy /\ r = Len(asked) + 1 /\ Len(asked') = r /\ DOMAIN asked' = 1 .. r /\ r \in Ids
        /\ asked'[r] = [kind |-> kind, item |-> item, slot |-> CurrentSlot]
        /\ \A q \in DOMAIN asked : q \in DOMAIN asked' /\ asked'[q] = asked[q] /\ q < r
        /\ \A q \in DOMAIN asked' : q \in DOMAIN asked \/ q = r
        /\ handlers'[r] = sessions[CurrentSlot] /\ IsPending(r)'
        /\ \A q \in Ids : q # r => handlers'[q] = handlers[q] /\ (IsPending(q)' <=> IsPending(q))
        /\ sessions' = IF kind = "approveTransitionToAuthOp"
                       THEN [sessions EXCEPT ![2] = NoSession] ELSE sessions
        /\ answers[r] = 0 /\ reply' = reply /\ answers' = answers /\ sessions'[1] = sessions[1]
        /\ CurrentSlot \in Slots
    BY DEF Asked
  <1>4. busy'
    BY DEF Ask
  <1>5. \A q \in DOMAIN asked : answers[q] = 1
    <2> SUFFICES ASSUME NEW q \in DOMAIN asked PROVE answers[q] = 1
      OBVIOUS
    <2>1. answers[q] # 0
      BY <1>3, UnansweredIsLast
    <2>2. answers[q] # 2 /\ answers[q] \in 0 .. 2
      BY <1>2 DEF IsAnsweredTwice, Fit, TypeOK
    <2> QED
      BY <2>1, <2>2
  <1>6. InTurn'
    <2>1. \A q \in DOMAIN asked' : q < r => answers'[q] = 1
      BY <1>3, <1>5
    <2>2. asked' # <<>>
      BY <1>3, EmptySeq DEF Asked
    <2> QED
      BY <1>3, <1>4, <2>1, <2>2 DEF InTurn
  <1>7. \A q \in Ids : IsPending(q)' => q = r
    <2>1. \A q \in Ids : ~ IsPending(q)
      BY <1>3, PendingIsLast, UnansweredIsLast
    <2> QED
      BY <1>3, <2>1
  <1>8. ReadsFit'
    <2>1. ~ IsTransition(r)' => sessions' = sessions
      BY <1>3 DEF IsTransition
    <2>2. asked'[r].kind = "closeOperation" => ~ IsTransition(r)'
      BY DEF IsTransition
    <2>3. asked'[r].slot = CurrentSlot
      BY <1>3
    <2>4. ~ IsTransition(r)' => SameButFields(handlers[r], sessions[asked[r].slot])'
                                /\ handlers'[r].fields = sessions'[asked'[r].slot].fields
      BY <1>3, <2>1, <2>3 DEF SameButFields
    <2> QED
      BY <1>7, <2>2, <2>4 DEF ReadsFit
  <1>9. ASSUME NEW k \in Slots
        PROVE  sessions'[k] = sessions[k] \/ (k = 2 /\ sessions'[k] = NoSession)
    BY <1>3 DEF Fit, TypeOK, Slots
  <1>10. CausesFit'
    <2>1. ASSUME NEW k \in Slots, NEW x \in Ids, Lists(sessions[k], x)
          PROVE  x \in DOMAIN asked /\ asked'[x] = asked[x]
      <3>1. Through(x)
        BY <2>1 DEF Fit, RecordsFit, RecordFits
      <3> QED
        BY <1>3, <3>1 DEF Through
    <2>2. ASSUME NEW k \in Slots, sessions'[k] = sessions[k], NEW kinds, NEW i, Cause(sessions[k], kinds, i)
          PROVE  Cause(sessions[k], kinds, i)'
      <3>1. PICK x \in Ids : Lists(sessions[k], x) /\ asked[x].kind \in kinds /\ asked[x].item = i
        BY <2>2 DEF Cause
      <3>2. asked'[x] = asked[x]
        BY <2>1, <3>1
      <3>3. Lists(sessions[k], x)'
        BY <2>2, <3>1 DEF Lists
      <3> QED
        BY <3>1, <3>2, <3>3 DEF Cause
    <2>3. ASSUME NEW k \in Slots
          PROVE  Increasing(sessions[k])' /\ Caused(sessions[k])'
      <3>1. CASE sessions'[k] = sessions[k]
        <4>1. Increasing(sessions[k]) /\ Caused(sessions[k])
          BY DEF Serial, CausesFit
        <4>2. Increasing(sessions[k])'
          BY <3>1, <4>1 DEF Increasing
        <4>3. \A kinds, i : Cause(sessions[k], kinds, i) => Cause(sessions[k], kinds, i)'
          BY <2>2, <3>1
        <4>4. Caused(sessions[k])'
          BY <3>1, <4>1, <4>3 DEF Caused, Marks
        <4> QED
          BY <4>2, <4>4
      <3>2. CASE sessions'[k] = NoSession
        BY <3>2 DEF NoSession, Increasing, Caused, Marks
      <3> QED
        BY <1>9, <3>1, <3>2
    <2>4. sessions'[2].version > 0 => Cause(sessions[2], {"approveTransitionToAuthOp"}, NoItem)'
      <3>1. CASE sessions'[2] = sessions[2]
        BY <2>2, <3>1 DEF Serial, CausesFit, Slots
      <3>2. CASE sessions'[2] = NoSession
        BY <3>2 DEF NoSession
      <3> QED
        BY <1>9, <3>1, <3>2 DEF Slots
    <2>5. Len(asked') < 3 => sessions'[1].version <= Len(sessions'[1].requests)
      <3>1. Len(asked') = Len(asked) + 1
        BY <1>3
      <3>2. Len(asked') < 3 => Len(asked) < 3
        BY <1>2, <3>1
      <3> QED
        BY <1>3, <3>2 DEF Serial, CausesFit
    <2> QED
      BY <2>3, <2>4, <2>5 DEF CausesFit
  <1>11. ASSUME kind = "approveTransitionToAuthOp", NEW q \in DOMAIN asked, IsTransition(q)
         PROVE  reply[q] = "reject"
    <2>1. op = "Registration"
      BY <1>11, WhatMayBeAsked DEF Ask
    <2>2. ~ HasGot("approveTransitionToAuthOp")
      BY <2>1 DEF Fit, OperationFits
    <2>3. reply[q] # "resolve"
      BY <1>11, <2>2 DEF HasGot, IsTransition
    <2>4. reply[q] # "none" /\ reply[q] \in {"none", "resolve", "reject"}
      BY <1>2, <1>5 DEF Fit, RequestsFit, CountsFit, TypeOK
    <2> QED
      BY <2>3, <2>4
  <1>12. TransitionsFit'
    <2> SUFFICES ASSUME NEW x \in DOMAIN asked', IsTransition(x)'
                 PROVE  /\ ~ IsPending(x)' /\ reply'[x] # "reject" => Lists(sessions[2], x)'
                        /\ \A q \in 1 .. x - 1 : IsTransition(q)' => reply'[q] = "reject"
      BY DEF TransitionsFit
    <2>1. CASE x = r
      <3>1. kind = "approveTransitionToAuthOp"
        BY <1>3, <2>1 DEF IsTransition
      <3>2. ASSUME NEW q \in 1 .. x - 1, IsTransition(q)'
            PROVE  reply'[q] = "reject"
        <4>1. q \in DOMAIN asked
          BY <1>2, <1>3, <2>1, <3>2
        <4>2. IsTransition(q)
          BY <1>3, <3>2, <4>1 DEF IsTransition
        <4> QED
          BY <1>3, <1>11, <3>1, <4>1, <4>2
      <3> QED
        BY <1>3, <2>1, <3>2
    <2>2. CASE x \in DOMAIN asked
      <3>1. IsTransition(x) /\ x \in Ids /\ x # r /\ x \in 1 .. Len(asked)
        BY <1>2, <1>3, <2>2 DEF IsTransition
      <3>2. /\ ~ IsPending(x) /\ reply[x] # "reject" => Lists(sessions[2], x)
            /\ \A q \in 1 .. x - 1 : IsTransition(q) => reply[q] = "reject"
        BY <2>2, <3>1 DEF Serial, TransitionsFit
      <3>3. ASSUME NEW q \in 1 .. x - 1, IsTransition(q)'
            PROVE  reply'[q] = "reject"
        <4>1. q \in DOMAIN asked
          BY <1>2, <3>1, <3>3
        <4>2. IsTransition(q)
          BY <1>3, <3>3, <4>1 DEF IsTransition
        <4> QED
          BY <1>3, <3>2, <4>2
      <3>4. ASSUME ~ IsPending(x)', reply'[x] # "reject"
            PROVE  Lists(sessions[2], x)'
        <4>1. ~ IsPending(x) /\ reply[x] # "reject"
          BY <1>3, <3>1, <3>4
        <4>2. kind # "approveTransitionToAuthOp"
          BY <1>11, <2>2, <3>1, <4>1
        <4> QED
          BY <1>3, <3>2, <4>1, <4>2 DEF Lists
      <3> QED
        BY <3>3, <3>4
    <2> QED
      BY <1>3, <2>1, <2>2
  <1> QED
    BY <1>6, <1>8, <1>10, <1>12 DEF Serial

-----------------------------------------------------------------------------
(* A page finds what it waits for                                          *)

LEMMA LastIsListed ==
  ASSUME NEW s, s.requests \in Seq(Ids), Increasing(s), NEW r \in Ids, Lists(s, r),
         \A x \in Ids : Lists(s, x) => x <= r
  PROVE  Last(s.requests) = r
  <1> DEFINE n == Len(s.requests)
  <1>1. n \in Nat /\ DOMAIN s.requests = 1 .. n /\ \A i \in 1 .. n : s.requests[i] \in Ids
    BY LenProperties
  <1>2. PICK i \in 1 .. n : s.requests[i] = r
    BY <1>1 DEF Lists
  <1>3. n \in 1 .. n
    BY <1>1, <1>2
  <1>4. s.requests[n] <= r
    BY <1>1, <1>3 DEF Lists
  <1>5. i < n => r < s.requests[n]
    BY <1>1, <1>2, <1>3 DEF Increasing
  <1>6. s.requests[n] \in Nat /\ r \in Nat
    BY <1>1, <1>3 DEF Ids
  <1>7. i = n
    BY <1>1, <1>2, <1>4, <1>5, <1>6
  <1> QED
    BY <1>2, <1>7 DEF Last

\* What the page of r finds in the record, nobody but r has asked for.
LEMMA CauseIsOwn ==
  ASSUME Fit, NEW s \in Session, Increasing(s), NEW r \in DOMAIN asked, ~ Repeats(r),
         \A x \in Ids : Lists(s, x) => x <= r,
         NEW kinds, Cause(s, kinds, asked[r].item),
         \A q \in Ids : asked[q].kind \in kinds =>
            \/ asked[q].kind = asked[r].kind
            \/ {asked[q].kind, asked[r].kind} = {"abortChallenge", "closeChallenge"}
            \/ asked[r].kind = "approveChallengeRequest"
               /\ asked[q].kind \in {"abortChallenge", "closeChallenge"}
  PROVE  Last(s.requests) = r
  <1>1. PICK q \in Ids : Lists(s, q) /\ asked[q].kind \in kinds /\ asked[q].item = asked[r].item
    BY DEF Cause
  <1>2. q <= r /\ r \in Ids /\ s.requests \in Seq(Ids) /\ DOMAIN asked = 1 .. Len(asked)
        /\ Len(asked) \in Nat
    BY <1>1, RequestsAreInDomain, PartsOfRecord DEF Fit, Queues
  <1>3. q \in DOMAIN asked
    BY <1>2 DEF Ids
  <1>4. CASE /\ asked[r].kind = "approveChallengeRequest"
             /\ asked[q].kind \in {"abortChallenge", "closeChallenge"}
    <2>1. AskFits(q)
      BY <1>3 DEF Fit, RequestsFit
    <2>2. PICK p \in 1 .. q - 1 : asked[p].kind = "approveChallengeRequest"
                                  /\ asked[p].item = asked[q].item
      BY <1>4, <2>1 DEF AskFits, Authentication
    <2>3. p \in 1 .. r - 1
      BY <1>2 DEF Ids
    <2>4. AskSame(asked[p], asked[r])
      BY <1>1, <1>4, <2>2 DEF AskSame
    <2> QED
      BY <2>3, <2>4 DEF Repeats
  <1>5. CASE AskSame(asked[q], asked[r])
    <2>1. ~ (q \in 1 .. r - 1)
      BY <1>5 DEF Repeats
    <2>2. q = r
      BY <1>2, <2>1 DEF Ids
    <2> QED
      BY <1>1, <1>2, <2>2, LastIsListed
  <1> QED
    BY <1>1, <1>4, <1>5 DEF AskSame

LEMMA LoadedIsOwn ==
  ASSUME Fit, Serial, Load, ~ Repeats(page.req),
         asked[page.req].kind = "rejectFieldValue" => asked[page.req].item \in Watched.rejected
  PROVE  IF asked[page.req].kind = "approveOperation" THEN Head(Watched.requests) = page.req
         ELSE Last(Watched.requests) = page.req
  <1> SUFFICES ASSUME NEW r, r = page.req, NEW a, a = asked[r], NEW s, s = Watched
               PROVE  IF a.kind = "approveOperation" THEN Head(s.requests) = r
                      ELSE Last(s.requests) = r
    OBVIOUS
  <1>1. /\ r = url /\ url # NoUrl /\ r \in DOMAIN asked /\ r \in Ids /\ a \in Request /\ AskFits(r)
        /\ s \in Session /\ RecordFits(s) /\ SlotOf(a) \in Slots /\ s = sessions[SlotOf(a)]
        /\ a.kind # "updateMetadata" /\ IsMarked(a, s)
        /\ a.kind \in Authentication => a.item \in Challenges
        /\ IsField(a) => a.item \in Fields
    BY PageHasRequest, NothingAssumption DEF Load, IsLoaded, Watched
  <1>2. s.requests # <<>> /\ (IsField(a) => a.item \in Marks(s)) /\ s.requests \in Seq(Ids)
    BY <1>1, MarkedRecordLists, PartsOfRecord DEF Queues
  <1>3. Increasing(s) /\ Caused(s)
    BY <1>1 DEF Serial, CausesFit
  <1>4. DOMAIN asked = 1 .. Len(asked) /\ Len(asked) \in Nat /\ r \in 1 .. Len(asked)
    BY <1>1, RequestsAreInDomain DEF Fit
  <1>5. \A x \in Ids : Lists(s, x) => x <= r
    <2> SUFFICES ASSUME NEW x \in Ids, Lists(s, x) PROVE x <= r
      OBVIOUS
    <2>1. x \in DOMAIN asked /\ asked[x].kind # "updateMetadata"
      BY <1>1 DEF RecordFits, Through
    <2>2. ~ (x > r)
      BY <1>1, <2>1 DEF Fit, UrlFits
    <2> QED
      BY <1>4, <2>1, <2>2
  <1>6. reply[r] # "resolve"
    BY <1>1 DEF Fit, UrlFits, TabsFit
  <1>7. ASSUME NEW kinds, Cause(s, kinds, a.item),
               \A q \in Ids : asked[q].kind \in kinds =>
                  \/ asked[q].kind = a.kind
                  \/ {asked[q].kind, a.kind} = {"abortChallenge", "closeChallenge"}
                  \/ a.kind = "approveChallengeRequest"
                     /\ asked[q].kind \in {"abortChallenge", "closeChallenge"}
        PROVE  Last(s.requests) = r
    BY <1>1, <1>3, <1>5, <1>7, CauseIsOwn
  <1>8. CASE a.kind = "approveOperation"
    <2>1. r = 1
      BY <1>1, <1>8 DEF AskFits
    <2>2. 1 \in DOMAIN s.requests /\ s.requests[1] \in Ids /\ Head(s.requests) = s.requests[1]
      BY <1>2, EmptySeq, LenProperties, HeadTailProperties
    <2>3. s.requests[1] <= 1
      BY <1>5, <2>1, <2>2 DEF Lists
    <2> QED
      BY <1>8, <2>1, <2>2, <2>3 DEF Ids
  <1>9. CASE a.kind = "getUserAttributes"
    <2>1. r = 2 /\ Len(asked) > 1 /\ asked[2].kind = "getUserAttributes"
      BY <1>1, <1>4, <1>9 DEF AskFits
    <2>2. ~ (Len(asked) > 2) /\ op # "Authentication"
      BY <1>6, <2>1 DEF Fit, OperationFits
    <2>3. a.slot # 2 /\ a.slot \in Slots
      BY <1>1, <2>2 DEF AskFits, Fit, OperationFits, Request
    <2>4. s = sessions[1]
      BY <1>1, <1>9, <2>3 DEF SlotOf, Slots
    <2>5. s.version > 1
      BY <1>1, <1>9 DEF IsMarked, UserAttributes
    <2>6. s.version <= Len(s.requests) /\ Len(s.requests) \in Nat /\ s.version \in 0 .. 2
      <3>1. Len(asked) < 3
        BY <1>4, <2>2
      <3> QED
        BY <1>1, <1>2, <2>4, <3>1, LenProperties DEF Serial, CausesFit, Session
    <2> DEFINE n == Len(s.requests)
    <2>7. n > 1 /\ n \in Nat
      BY <2>5, <2>6
    <2>8. s.requests[1] \in Ids /\ s.requests[n] \in Ids /\ {1, n} \subseteq DOMAIN s.requests
      BY <1>2, <2>7, LenProperties
    <2>9. s.requests[1] < s.requests[n]
      BY <1>3, <2>7, <2>8 DEF Increasing
    <2>10. s.requests[n] <= 2
      BY <1>5, <2>1, <2>8 DEF Lists
    <2>11. s.requests[n] = 2
      BY <2>8, <2>9, <2>10 DEF Ids
    <2> QED
      BY <1>9, <2>1, <2>11 DEF Last
  <1>10. CASE a.kind = "approveTransitionToAuthOp"
    <2>1. s = sessions[2] /\ s.version > 0 /\ a.item = NoItem
      BY <1>1, <1>10 DEF SlotOf, IsMarked, TransitionToAuth, AskFits, Authentication, IsField
    <2>2. Cause(s, {"approveTransitionToAuthOp"}, a.item)
      BY <2>1 DEF Serial, CausesFit
    <2> QED
      BY <1>7, <1>10, <2>2
  <1>11. CASE a.kind = "addField"
    <2>1. Cause(s, {"addField"}, a.item)
      BY <1>2, <1>3, <1>11 DEF IsField, Caused
    <2> QED
      BY <1>7, <1>11, <2>1
  <1>12. CASE a.kind = "rejectFieldValue"
    <2>1. Cause(s, {"rejectFieldValue"}, a.item)
      BY <1>3, <1>12 DEF Caused
    <2> QED
      BY <1>7, <1>12, <2>1
  <1>13. CASE a.kind = "closeOperation"
    <2>1. s.closed /\ a.item = NoItem
      BY <1>1, <1>13 DEF IsMarked, Save, AuthFinished, AskFits, Authentication, IsField
    <2>2. Cause(s, {"closeOperation"}, a.item)
      BY <1>3, <2>1 DEF Caused
    <2> QED
      BY <1>7, <1>13, <2>2
  <1>14. CASE a.kind = "approveChallengeRequest"
    <2>1. a.item \in Challenges /\ s.challenges[a.item] # "none"
      BY <1>1, <1>14 DEF IsMarked, ApproveChallenge, Authentication
    <2>2. Cause(s, {"approveChallengeRequest", "abortChallenge", "closeChallenge"}, a.item)
      BY <1>3, <2>1 DEF Caused
    <2> QED
      BY <1>7, <1>14, <2>2
  <1>15. CASE a.kind = "respondToChallengeMessage"
    <2>1. a.item \in s.messages
      BY <1>1, <1>15 DEF IsMarked, RespondToMessage
    <2>2. Cause(s, {"respondToChallengeMessage"}, a.item)
      BY <1>3, <2>1 DEF Caused
    <2> QED
      BY <1>7, <1>15, <2>2
  <1>16. CASE a.kind = "abortChallenge"
    <2>1. a.item \in Challenges /\ s.challenges[a.item] = "aborted"
      BY <1>1, <1>16 DEF IsMarked, AbortedChallenge, Authentication
    <2>2. Cause(s, {"abortChallenge"}, a.item)
      BY <1>3, <2>1 DEF Caused
    <2> QED
      BY <1>7, <1>16, <2>2
  <1>17. CASE a.kind = "closeChallenge"
    <2>1. a.item \in Challenges /\ s.challenges[a.item] \in {"sealed", "aborted"}
      BY <1>1, <1>17 DEF IsMarked, SealedChallenge, Authentication
    <2>2. Cause(s, {"abortChallenge", "closeChallenge"}, a.item)
      BY <1>3, <2>1 DEF Caused, Cause
    <2> QED
      BY <1>7, <1>17, <2>2
  <1> QED
    BY <1>1, <1>8, <1>9, <1>10, <1>11, <1>12, <1>13, <1>14, <1>15, <1>16, <1>17
    DEF Request, Creation, Authentication, Login

-----------------------------------------------------------------------------
(* Pages answer their own requests                                         *)

\* Steps that leave the page its request and its record, or close it.
LEMMA OwnKept ==
  ASSUME Fit, Serial, OwnRequest, OwnAnswer, asked' = asked,
         page' = NoPage \/
            /\ page # NoPage /\ page.req' = page.req /\ page.seen' = page.seen
            /\ page.stage' # "waiting" => page.stage # "waiting"
            /\ page.answer' = page.answer
               \/ (CanSubmit /\ page.stage # "waiting" /\ page.answer' = LastRequest(page))
  PROVE  OwnRequest' /\ OwnAnswer'
  <1>1. CASE page' = NoPage
    BY <1>1 DEF OwnRequest, OwnAnswer
  <1>2. CASE page' # NoPage
    <2>1. /\ page # NoPage /\ page.req' = page.req /\ page.seen' = page.seen
          /\ page.stage' # "waiting" => page.stage # "waiting"
      BY <1>2
    <2>2. Repeats(page.req)' <=> Repeats(page.req)
      BY <2>1 DEF Repeats
    <2>3. LastRequest(page)' = LastRequest(page)
      BY <2>1 DEF LastRequest
    <2>4. OwnRequest'
      BY <2>1, <2>2, <2>3 DEF OwnRequest
    <2>5. OwnAnswer'
      <3>1. CASE page.answer' = page.answer
        BY <2>1, <2>2, <3>1 DEF OwnAnswer
      <3>2. CASE CanSubmit /\ page.stage # "waiting" /\ page.answer' = LastRequest(page)
        <4>1. ~ Repeats(page.req) => LastRequest(page) = page.req
          BY <2>1, <3>2 DEF OwnRequest, CanSubmit
        <4> QED
          BY <2>1, <2>2, <3>2, <4>1 DEF OwnAnswer
      <3> QED
        BY <1>2, <3>1, <3>2
    <2> QED
      BY <2>4, <2>5
  <1> QED
    BY <1>1, <1>2

LEMMA OwnOfLoad ==
  ASSUME Fit, Serial, OwnRequest, OwnAnswer, Load
  PROVE  OwnRequest' /\ OwnAnswer'
  <1>1. /\ page # NoPage /\ page \in Page /\ asked' = asked
        /\ page' = [page EXCEPT !.stage = IF @ = "waiting" THEN "ready" ELSE @, !.seen = Watched]
    BY PageHasRequest DEF Load
  <1>2. page.req' = page.req /\ page.seen' = Watched /\ page.answer' = page.answer
    BY <1>1 DEF Page
  <1>3. Repeats(page.req)' <=> Repeats(page.req)
    BY <1>1, <1>2 DEF Repeats
  <1>4. OwnAnswer'
    BY <1>1, <1>2, <1>3 DEF OwnAnswer
  <1>5. OwnRequest'
    <2> SUFFICES ASSUME ~ Repeats(page.req),
                        asked[page.req].kind = "rejectFieldValue"
                           => asked[page.req].item \in Watched.rejected
                 PROVE  LastRequest(page)' = page.req
      BY <1>1, <1>2, <1>3 DEF OwnRequest
    <2>1. IF asked[page.req].kind = "approveOperation" THEN Head(Watched.requests) = page.req
          ELSE Last(Watched.requests) = page.req
      BY LoadedIsOwn
    <2>2. Watched.requests # <<>>
      <3>1. LET a == asked[page.req] IN
            /\ Watched \in Session /\ RecordFits(Watched) /\ a \in Request /\ a.kind # "updateMetadata"
            /\ a.kind \in Authentication => a.item \in Challenges
            /\ IsField(a) => a.item \in Fields
        BY <1>1, PageHasRequest
      <3>2. IsMarked(asked[page.req], Watched)
        BY DEF Load, IsLoaded
      <3> QED
        BY <3>1, <3>2, MarkedRecordLists
    <2> QED
      BY <1>1, <1>2, <2>1, <2>2 DEF LastRequest
  <1> QED
    BY <1>4, <1>5

LEMMA OwnOfAsk ==
  ASSUME Fit, OwnRequest, OwnAnswer, NEW kind \in Creation \union Authentication \union Login,
         NEW item \in Items \union {NoItem}, Ask(kind, item)
  PROVE  OwnRequest' /\ OwnAnswer'
  <1>1. CASE kind # "updateMetadata"
    BY <1>1 DEF Ask, ClosePage, OwnRequest, OwnAnswer
  <1>2. CASE kind = "updateMetadata"
    <2>1. page' = page
      BY <1>2 DEF Ask, popup
    <2>2. CASE page = NoPage
      BY <2>1, <2>2 DEF OwnRequest, OwnAnswer
    <2>3. CASE page # NoPage
      <3>1. PICK r : Asked(r, kind, item)
        BY AskFacts
      <3>2. page.req \in DOMAIN asked /\ DOMAIN asked = 1 .. Len(asked) /\ Len(asked) \in Nat
        BY <2>3, PageHasRequest, RequestsAreInDomain DEF Fit
      <3>3. \A q \in DOMAIN asked : asked'[q] = asked[q]
        BY <3>1 DEF Asked
      <3>4. 1 .. page.req - 1 \subseteq DOMAIN asked
        BY <3>2
      <3>5. Repeats(page.req)' <=> Repeats(page.req)
        BY <2>1, <3>2, <3>3, <3>4 DEF Repeats
      <3>6. LastRequest(page)' = LastRequest(page) /\ asked'[page.req] = asked[page.req]
        BY <2>1, <3>2, <3>3 DEF LastRequest
      <3> QED
        BY <2>1, <3>5, <3>6 DEF OwnRequest, OwnAnswer
    <2> QED
      BY <2>2, <2>3
  <1> QED
    BY <1>1, <1>2

-----------------------------------------------------------------------------
(* The session is sound                                                    *)

LEMMA AnsweredTwiceForGood ==
  ASSUME Fit, [Next]_vars, IsAnsweredTwice
  PROVE  IsAnsweredTwice'
  <1>1. PICK x \in Ids : answers[x] = 2
    BY DEF IsAnsweredTwice
  <1>2. answers' = answers \/ \E r : answers' = [answers EXCEPT ![r] = IF @ = 2 THEN 2 ELSE @ + 1]
    BY DEF Next, vars, browser, Ask, Background, Popup, Letters, Update, Refuse, Open, Load, Submit,
           GiveUp, Send, Dismiss, LookTooEarly, Processed, Close, Leave, Hide, HandOn, Settle
  <1>3. answers'[x] = 2
    BY <1>1, <1>2 DEF Fit, TypeOK
  <1> QED
    BY <1>3 DEF IsAnsweredTwice

LEMMA StepKeepsOrder ==
  ASSUME Fit, Orderly, [Next]_vars
  PROVE  Orderly'
  <1> SUFFICES ASSUME ~ IsAnsweredTwice', ~ IsAnsweredTwice, Serial, OwnRequest, OwnAnswer
               PROVE  Serial' /\ OwnRequest' /\ OwnAnswer'
    BY AnsweredTwiceForGood DEF Orderly
  <1> USE DEF browser, popup, letters
  <1>1. ASSUME NEW kind \in Creation \union Authentication \union Login,
               NEW item \in Items \union {NoItem}, Ask(kind, item)
        PROVE  Serial' /\ OwnRequest' /\ OwnAnswer'
    <2>1. PICK r : Asked(r, kind, item)
      BY <1>1, AskFacts
    <2>2. Serial'
      BY <1>1, <2>1, SerialOfAsk
    <2> QED
      BY <1>1, <2>2, OwnOfAsk
  <1>2. ASSUME NEW r \in DOMAIN asked, Update(r)
        PROVE  Serial' /\ OwnRequest' /\ OwnAnswer'
    <2>1. asked' = asked /\ page' = page
      BY <1>2 DEF Update
    <2>2. OwnRequest' /\ OwnAnswer'
      BY <2>1, OwnKept
    <2> QED
      BY <1>2, <2>2, SerialOfUpdate
  <1>3. ASSUME NEW r \in DOMAIN asked, Refuse(r)
        PROVE  Serial' /\ OwnRequest' /\ OwnAnswer'
    <2>1. asked' = asked /\ page' = page
      BY <1>3 DEF Refuse
    <2>2. OwnRequest' /\ OwnAnswer'
      BY <2>1, OwnKept
    <2> QED
      BY <1>3, <2>2, SerialOfRefuse
  <1>4. CASE Open
    <2>1. page.stage' = "waiting" /\ page.answer' = 0
      BY <1>4 DEF Open
    <2>2. OwnRequest' /\ OwnAnswer'
      BY <2>1 DEF OwnRequest, OwnAnswer
    <2>3. Serial'
      BY <1>4, SerialOfPopup DEF Open
    <2> QED
      BY <2>2, <2>3
  <1>5. CASE Load
    <2>1. Serial'
      BY <1>5, SerialOfPopup DEF Load
    <2> QED
      BY <1>5, <2>1, OwnOfLoad
  <1>6. CASE Submit
    <2>1. OwnRequest' /\ OwnAnswer'
      <3>1. /\ asked' = asked /\ page # NoPage /\ page.stage # "waiting"
            /\ page.req' = page.req /\ page.seen' = page.seen
            /\ CanSubmit /\ page.answer' = LastRequest(page)
        BY <1>6, SubmitTypes DEF Submit
      <3> QED
        BY <3>1, OwnKept
    <2> QED
      BY <1>6, <2>1, SerialOfSubmit
  <1>7. CASE GiveUp
    <2>1. OwnRequest' /\ OwnAnswer'
      <3>1. /\ asked' = asked /\ page # NoPage /\ page.stage # "waiting" /\ CanSubmit
            /\ page' = [page EXCEPT !.stage = "sent", !.answer = LastRequest(page), !.submits = @ + 1]
        BY <1>7 DEF GiveUp, CanSubmit
      <3>2. page \in Page
        BY <3>1, PageHasRequest
      <3>3. /\ page.req' = page.req /\ page.seen' = page.seen /\ page.answer' = LastRequest(page)
        BY <3>1, <3>2 DEF Page
      <3> QED
        BY <3>1, <3>3, OwnKept
    <2>2. Serial'
      BY <1>7, SerialOfPopup DEF GiveUp
    <2> QED
      BY <2>1, <2>2
  <1>8. CASE Send \/ LookTooEarly \/ Processed
    <2>1. OwnRequest' /\ OwnAnswer'
      <3>1. /\ asked' = asked /\ page # NoPage
            /\ \/ \E v : page' = [page EXCEPT !.stage = v] /\ page.stage # "waiting"
               \/ page' = [page EXCEPT !.broken = TRUE]
               \/ \E v : page' = [page EXCEPT !.processed = TRUE, !.stage = v]
                         /\ page.stage # "waiting"
        BY <1>8 DEF Send, LookTooEarly, Processed
      <3>2. page \in Page
        BY <3>1, PageHasRequest
      <3>3. /\ page.req' = page.req /\ page.seen' = page.seen /\ page.answer' = page.answer
            /\ page.stage' # "waiting" => page.stage # "waiting"
        BY <3>1, <3>2 DEF Page
      <3> QED
        BY <3>1, <3>3, OwnKept
    <2>2. Serial'
      BY <1>8, SerialOfPopup DEF Send, LookTooEarly, Processed
    <2> QED
      BY <2>1, <2>2
  <1>9. CASE Close \/ Dismiss
    <2>1. asked' = asked /\ page' = NoPage
      BY <1>9 DEF Close, Dismiss, Leave, ClosePage
    <2>2. OwnRequest' /\ OwnAnswer'
      BY <2>1, OwnKept
    <2>3. Serial'
      BY <1>9, SerialOfPopup DEF Close, Dismiss, Leave
    <2> QED
      BY <2>2, <2>3
  <1>10. ASSUME NEW m \in mail, Hide(m)
         PROVE  Serial' /\ OwnRequest' /\ OwnAnswer'
    <2>1. asked' = asked /\ (page' = NoPage \/ page' = page)
      BY <1>10 DEF Hide, ClosePage
    <2>2. OwnRequest' /\ OwnAnswer'
      BY <2>1, OwnKept
    <2>3. Serial'
      BY <1>10, SerialOfPopup DEF Hide
    <2> QED
      BY <2>2, <2>3
  <1>11. ASSUME NEW m \in mail, HandOn(m)
         PROVE  Serial' /\ OwnRequest' /\ OwnAnswer'
    <2>1. asked' = asked /\ page' = page
      BY <1>11 DEF HandOn
    <2>2. OwnRequest' /\ OwnAnswer'
      BY <2>1, OwnKept
    <2> QED
      BY <1>11, <2>2, SerialOfHandOn
  <1>12. CASE UNCHANGED vars
    <2>1. UNCHANGED <<asked, busy, reply, answers, sessions, handlers, page>>
      BY <1>12 DEF vars
    <2>2. OwnRequest' /\ OwnAnswer'
      BY <2>1, OwnKept
    <2> QED
      BY <2>1, <2>2, SerialOfPopup
  <1> QED
    BY <1>1, <1>2, <1>3, <1>4, <1>5, <1>6, <1>7, <1>8, <1>9, <1>10, <1>11, <1>12
    DEF Next, Background, Popup, Letters

LEMMA InitIsOrderly ==
  ASSUME Init
  PROVE  Orderly
  <1>1. InTurn /\ ReadsFit /\ TransitionsFit
    BY DEF Init, InTurn, ReadsFit, TransitionsFit, IsPending
  <1>2. CausesFit
    <2>1. \A k \in Slots : sessions[k] = NoSession
      BY DEF Init
    <2>2. Increasing(NoSession) /\ Caused(NoSession) /\ NoSession.version = 0
      BY DEF NoSession, Increasing, Caused, Marks
    <2>3. NoSession.version <= Len(NoSession.requests)
      BY DEF NoSession
    <2> QED
      BY <2>1, <2>2, <2>3 DEF CausesFit, Slots
  <1>3. page = NoPage
    BY DEF Init
  <1> QED
    BY <1>1, <1>2, <1>3 DEF Orderly, Serial, OwnRequest, OwnAnswer

LEMMA Orderliness == Spec => [](Fit /\ Orderly)
  <1>1. Init => Fit /\ Orderly
    BY InitIsFit, InitIsOrderly
  <1>2. Fit /\ Orderly /\ [Next]_vars => (Fit /\ Orderly)'
    BY StepKeepsFit, StepKeepsOrder
  <1> QED
    BY <1>1, <1>2, PTL DEF Spec

\* The record of a session keeps its shape; it holds the fields the web app was
\* granted, with the values it was told, but for fields torn between a page's write
\* and its answer or dropped by a handler that had read the record before; and a
\* page of the popup answers another request than its own only if the same thing
\* had been asked for before or some request was answered twice: whatever the
\* background, the pages and the user do in between (workers/main.ts, hooks.ts and
\* ui/controlled of Secret*).
THEOREM SessionsAreSound == Spec => []SessionInv
  <1>1. Fit /\ Orderly => SessionInv
    <2> SUFFICES ASSUME Fit, Orderly PROVE SessionInv
      OBVIOUS
    <2>1. TypeOK /\ GrantedFieldsAreStored
      BY FitFieldsAreAsTold DEF Fit
    <2>2. StraysAreRepeats
      BY DEF Orderly, OwnAnswer, StraysAreRepeats, Repeats
    <2> QED
      BY <2>1, <2>2 DEF SessionInv
  <1> QED
    BY <1>1, Orderliness, PTL

\* When closeOperation saves the account, it gets the fields the web app was told,
\* although it is made from the record as the handler read it before: unless a
\* request was answered twice, nothing was written to the fields in between.
THEOREM SavedAccountsHoldFields == Spec => AccountHoldsFields
  <1> DEFINE Saving ==
        account' # account /\ ~ IsAnsweredTwice =>
           \A f \in Fields \ torn : ~ IsUnderWay(f) => IsAsTold(account', f)
  <1>1. Fit /\ Orderly /\ [Next]_vars => [Saving]_vars
    <2> SUFFICES ASSUME Fit, Orderly, [Next]_vars, account' # account, ~ IsAnsweredTwice,
                        NEW f \in Fields \ torn, ~ IsUnderWay(f)
                 PROVE  IsAsTold(account', f)
      OBVIOUS
    <2>1. PICK r \in DOMAIN asked : Update(r)
      BY DEF Next, vars, Background, Popup, Letters, Ask, Refuse, Open, Load, Submit, GiveUp, Send,
             Dismiss, LookTooEarly, Processed, Close, Leave, Hide, HandOn
    <2>2. account' = handlers[r].fields /\ asked[r].kind = "closeOperation" /\ op = "Registration"
          /\ handlers[r] # NoHandler
      BY <2>1 DEF Update, Saved
    <2>3. r \in Ids /\ AskFits(r) /\ asked[r] \in Request
      BY RequestsAreInDomain DEF Fit, RequestsFit
    <2>4. asked[r].slot = 1
      <3>1. asked[r].slot # 2
        BY <2>2, <2>3 DEF AskFits, Fit, OperationFits
      <3> QED
        BY <2>3, <3>1 DEF Request, Slots
    <2>5. handlers[r].fields = sessions[1].fields
      BY <2>2, <2>3, <2>4 DEF Orderly, Serial, ReadsFit, IsPending
    <2>6. IsAsTold(sessions[1].fields, f)
      BY FitFieldsAreAsTold DEF GrantedFieldsAreStored
    <2> QED
      BY <2>2, <2>5, <2>6
  <1> QED
    BY <1>1, Orderliness, PTL DEF Spec, AccountHoldsFields
=============================================================================
