--------------------------- MODULE ResponderProofs ---------------------------
(***************************************************************************)
(* Proofs about how Secret* answers the messages of a challenge (module    *)
(* Responder): the client's proof and the signature that the web app gets  *)
(* fit what it was told and sent before, the manager takes the server for  *)
(* authentic only after a right proof, and a later message's page finds    *)
(* what the earlier ones left.                                             *)
(*                                                                         *)
(* A page may answer with what it has from an earlier request for the same *)
(* message, and a request may be answered twice.  The invariant follows    *)
(* the answers to the last message: what a page has begun with it (runs),  *)
(* what is in the mail, what the web app was told; the first of them to be *)
(* written is the last to write, unless the message is answered again.     *)
(***************************************************************************)
EXTENDS Responder, SequenceTheorems, WellFoundedInduction, TLAPS

Now == Len(asks)
Current == asks[Len(asks)].name
Named == Range(Names(type))

\* Where a message is in its conversation.
Place(name) ==
    CASE name \in {"SignNonce", "ExchangePublicKeys"} -> 2
      [] name = "ComputeClientProof" -> 3
      [] name = "VerifyServerProof" -> 4
      [] OTHER -> 1

\* The conversation goes on after a message that was granted, and back after one
\* that was rejected.
Conversation ==
    /\ \A r \in DOMAIN asks : asks[r].name \in Named
    /\ asks = <<>> => count <= 0
    /\ asks # <<>> => /\ count <= Place(Current)
                      /\ count = Place(Current) => reply[Now] # "reject"
    /\ \A r \in Asks : r < Now => reply[r] # "none"
    /\ \A r \in Asks : r > Now => reply[r] = "none" /\ submits[r] = 0
    /\ handler \in {0, Now} /\ url \in {0, Now}

\* What the web app was told is what it was granted.
Tellings ==
    /\ \A nm \in AllNames : told[nm].ask # 0 =>
            /\ told[nm].ask \in DOMAIN asks
            /\ asks[told[nm].ask].name = nm
            /\ reply[told[nm].ask] = "resolve"
    /\ \A r \in Asks : reply[r] = "resolve" => submits[r] # 0
    /\ asks # <<>> /\ reply[Now] = "resolve" => told[Current].ask = Now

\* A record's last request is one for a message that it has.
RecordFits(rec) ==
    /\ \A nm \in AllNames : rec.messages[nm] # 0 =>
            /\ rec.messages[nm] \in DOMAIN asks
            /\ asks[rec.messages[nm]].name = nm
            /\ rec.last # 0
    /\ rec.last # 0 => /\ rec.last \in DOMAIN asks
                       /\ rec.messages[asks[rec.last].name] = rec.last

Records ==
    /\ RecordFits(record)
    /\ \A l \in mail : l.ask \in DOMAIN asks
    /\ asks # <<>> /\ record.last # Now => submits[Now] = 0

FitsAsked == \E r \in DOMAIN asks : asks[r].name = "VerifyServerProof" /\ asks[r].kind = "fits"

Authentic == record.secret.valid = "yes" => FitsAsked

\* The granted message of this name was answered once.
Once(name) == told[name].ask # 0 /\ submits[told[name].ask] = 1

\* What an answer to the last message is made of.
Answer(name, value) ==
    /\ name = "ComputeClientProof" /\ Once("SelectSecurePassword") /\ Once("ExchangePublicKeys")
       => value = <<told["SelectSecurePassword"].value[1], told["ExchangePublicKeys"].value[1],
                    told["ExchangePublicKeys"].ask, Now>>
    /\ name = "SignNonce" /\ Once("SelectKey")
       => value = <<told["SelectKey"].value[1], Now>>

\* A run that has its value.
ValueFits(run) ==
    /\ run.name \in {"SelectSecurePassword", "SelectKey"} => run.value[1] \in Inputs
    /\ run.name = "ExchangePublicKeys" => run.value[1] \in Nat \ {0}
    /\ run.name = "VerifyServerProof" => (run.value[1] = 1 => FitsAsked)
    /\ run.ask = Now => Answer(run.name, run.value)

RunFits(p, run) ==
    /\ run.name = p.name /\ run.ask \in DOMAIN asks
    /\ run.ask = Now => p.seen.last = Now /\ run.payload = Now
    /\ run.stage = "computing" => run.name = "ExchangePublicKeys"
    /\ run.stage # "computing" => ValueFits(run)

\* What a page has seen of the record.
SeenFits(p) ==
    /\ RecordFits(p.seen)
    /\ p.seen.messages[p.name] # 0 /\ p.form = p.seen.messages[p.name]
    /\ p.seen.last = Now => record.last = Now
    /\ p.name \in {"ComputeClientProof", "VerifyServerProof"} =>
            p.seen.secret.fields # 0 /\ p.seen.secret.a # 0 /\ p.seen.secret.B # 0
    /\ p.name = "SignNonce" /\ Once("SelectKey") => p.key = told["SelectKey"].value[1]

PageFits(p) ==
    /\ asks # <<>> /\ url = Now /\ p.name = Current
    /\ p.stage = "waiting" => p.seen = NoRecord /\ p.form = 0 /\ p.runs = <<>>
    /\ p.stage # "waiting" => SeenFits(p)
    /\ p.name \in Entered => p.runs = <<>>
    /\ p.verdict = "yes" => FitsAsked
    /\ \A i \in DOMAIN p.runs : RunFits(p, p.runs[i])

\* Runs get on in the order in which they were begun, those for the last message
\* after the others.
Rank(run) ==
    CASE run.stage = "computing" -> 1 [] run.stage = "writing" -> 2 [] run.stage = "written" -> 3

InOrder(runs) ==
    \A i, j \in DOMAIN runs : i <= j =>
        /\ runs[i].ask = Now => runs[j].ask = Now
        /\ Rank(runs[i]) >= Rank(runs[j])

\* An answer to the last message that is on its way, or has come.
IsGrant(l) == l.ask = Now /\ l.how = "resolve"
Heard == reply[Now] = "resolve" \/ \E l \in mail : IsGrant(l)

\* Once there is one, the page has nothing older.
Settled(p) ==
    Heard /\ p.stage # "waiting" =>
        p.seen.last = Now /\ \A i \in DOMAIN p.runs : p.runs[i].ask = Now

PageSound ==
    page # <<>> => PageFits(page[1]) /\ InOrder(page[1].runs) /\ Settled(page[1])

\* The runs of the page for the last message.
InHand == IF page = <<>> THEN {} ELSE {i \in DOMAIN page[1].runs : page[1].runs[i].ask = Now}

\* A message that was answered once has one answer, wherever it is.
Tokens ==
    asks # <<>> =>
    /\ submits[Now] = 0 => ~ Heard /\ InHand = {}
    /\ submits[Now] = 1 =>
        /\ \A i, j \in InHand : i = j
        /\ InHand # {} => ~ Heard
        /\ \A l, m \in mail : IsGrant(l) /\ IsGrant(m) => l = m
        /\ \A l \in mail : IsGrant(l) => reply[Now] # "resolve"

\* What the answer to a message leaves in the secret for a later one.
Made(s, name) ==
    /\ name = "SelectSecurePassword" => s.fields # 0
    /\ name = "ExchangePublicKeys" => s.a # 0 /\ s.B # 0

Left(s, name, r, value) ==
    /\ name = "SelectSecurePassword" => s.fields = value[1]
    /\ name = "ExchangePublicKeys" => s.a = value[1] /\ s.B = r
    /\ name = "SelectKey" => s.key = value[1]

Holds(s, name, r, value) ==
    Made(s, name) /\ (submits[r] = 1 => Left(s, name, r, value))

\* The secret holds what was granted before the last message, and what is on its
\* way for that.
KeptBefore ==
    asks # <<>> => \A nm \in Named : Place(nm) < Place(Current) =>
        told[nm].ask # 0 /\ Holds(record.secret, nm, told[nm].ask, told[nm].value)

KeptNow ==
    asks # <<>> =>
    /\ reply[Now] = "resolve" => Holds(record.secret, Current, Now, told[Current].value)
    /\ \A l \in mail : IsGrant(l) =>
            Holds(record.secret, Current, Now, l.value) /\ Answer(Current, l.value)
    /\ \A i \in InHand : page[1].runs[i].stage = "written" =>
            Holds(record.secret, Current, Now, page[1].runs[i].value)

IInv ==
    /\ TypeOK /\ Conversation /\ Tellings /\ Records /\ PageSound /\ Tokens
    /\ KeptBefore /\ KeptNow /\ ProofFits /\ Authentic

-----------------------------------------------------------------------------
(* Names, lists and parts of the state                                     *)

LEMMA TypesAre ==
  type \in Types => type \in {"Identification", "Password", "OffChannelOtp", "DigitalSignature",
                              "SecureRemotePassword"}
  BY ResponderAssumption

\* The names of a challenge are in their places, one to each.
LEMMA NamesAre ==
  ASSUME type \in Types
  PROVE  /\ Named \subseteq AllNames
         /\ Named \subseteq {"GetIdentityFields", "GetPasswordFields", "GetOtp", "SelectKey", "SignNonce",
                             "SelectSecurePassword", "ExchangePublicKeys", "ComputeClientProof",
                             "VerifyServerProof"}
         /\ Len(Names(type)) \in 1 .. 4
         /\ \A c \in 1 .. Len(Names(type)) :
                Names(type)[c] \in Named /\ Place(Names(type)[c]) = c
         /\ \A nm \in Named : \A om \in Named : Place(nm) = Place(om) => nm = om
         /\ \A nm \in Named : Place(nm) \in 1 .. 4
         /\ "SignNonce" \in Named => "SelectKey" \in Named
         /\ "ExchangePublicKeys" \in Named \/ "ComputeClientProof" \in Named
                \/ "VerifyServerProof" \in Named \/ "SelectSecurePassword" \in Named
            => {"SelectSecurePassword", "ExchangePublicKeys", "ComputeClientProof"} \subseteq Named
         /\ "SelectSecurePassword" \in Named => "SelectKey" \notin Named /\ "SignNonce" \notin Named
  <1>1. Named \subseteq AllNames
    BY DEF Named, AllNames
  <1>2. Len(Names(type)) \in 1 .. 4 /\ DOMAIN Names(type) = 1 .. Len(Names(type))
    <2>1. /\ type = "Identification" => Names(type) = <<"GetIdentityFields">>
          /\ type = "Password" => Names(type) = <<"GetPasswordFields">>
          /\ type = "OffChannelOtp" => Names(type) = <<"GetOtp">>
          /\ type = "DigitalSignature" => Names(type) = <<"SelectKey", "SignNonce">>
          /\ type = "SecureRemotePassword" =>
                Names(type) = <<"SelectSecurePassword", "ExchangePublicKeys", "ComputeClientProof",
                                "VerifyServerProof">>
      BY DEF Names
    <2>2. \A x1, x2, x3, x4 :
             /\ Len(<<x1>>) = 1 /\ DOMAIN <<x1>> = 1 .. 1
             /\ Len(<<x1, x2>>) = 2 /\ DOMAIN <<x1, x2>> = 1 .. 2
             /\ Len(<<x1, x2, x3, x4>>) = 4 /\ DOMAIN <<x1, x2, x3, x4>> = 1 .. 4
      OBVIOUS
    <2>3. CASE type = "SecureRemotePassword"
      BY <2>1, <2>2, <2>3
    <2>4. CASE type = "DigitalSignature"
      BY <2>1, <2>2, <2>4
    <2>5. CASE type \in {"Identification", "Password", "OffChannelOtp"}
      BY <2>1, <2>2, <2>5
    <2> QED
      BY <2>3, <2>4, <2>5, TypesAre
  <1>3. /\ type = "Identification" => Named = {"GetIdentityFields"}
        /\ type = "Password" => Named = {"GetPasswordFields"}
        /\ type = "OffChannelOtp" => Named = {"GetOtp"}
        /\ type = "DigitalSignature" => Named = {"SelectKey", "SignNonce"}
        /\ type = "SecureRemotePassword" =>
              Named = {"SelectSecurePassword", "ExchangePublicKeys", "ComputeClientProof",
                       "VerifyServerProof"}
    BY TypesAre DEF Named, Names, Range
  <1>4. \A c \in 1 .. Len(Names(type)) : Names(type)[c] \in Named
    BY <1>2 DEF Named, Range
  <1>5. \A c \in 1 .. Len(Names(type)) : Place(Names(type)[c]) = c
    BY TypesAre DEF Names, Place
  <1>6. \A nm \in Named : Place(nm) \in 1 .. 4
    BY DEF Place
  <1>7. \A nm \in Named : \A om \in Named : Place(nm) = Place(om) => nm = om
    BY <1>3, TypesAre DEF Place
  <1>8. /\ "SignNonce" \in Named => "SelectKey" \in Named
        /\ "ExchangePublicKeys" \in Named \/ "ComputeClientProof" \in Named
                \/ "VerifyServerProof" \in Named \/ "SelectSecurePassword" \in Named
            => {"SelectSecurePassword", "ExchangePublicKeys", "ComputeClientProof"} \subseteq Named
        /\ "SelectSecurePassword" \in Named => "SelectKey" \notin Named /\ "SignNonce" \notin Named
    BY <1>3, TypesAre
  <1>9. Named \subseteq {"GetIdentityFields", "GetPasswordFields", "GetOtp", "SelectKey", "SignNonce",
                             "SelectSecurePassword", "ExchangePublicKeys", "ComputeClientProof",
                             "VerifyServerProof"}
    BY <1>3, TypesAre
  <1> QED
    BY <1>1, <1>2, <1>4, <1>5, <1>6, <1>7, <1>8, <1>9

\* Where a name is considered, so are those before it.
LEMMA NamesTogether ==
  /\ "ComputeClientProof" \in AllNames =>
        {"SelectSecurePassword", "ExchangePublicKeys", "ComputeClientProof"} \subseteq AllNames
  /\ "SignNonce" \in AllNames => {"SelectKey", "SignNonce"} \subseteq AllNames
  <1>1. ASSUME "ComputeClientProof" \in AllNames
        PROVE  {"SelectSecurePassword", "ExchangePublicKeys", "ComputeClientProof"} \subseteq AllNames
    BY <1>1, ResponderAssumption DEF AllNames, Names, Range
  <1>2. ASSUME "SignNonce" \in AllNames
        PROVE  {"SelectKey", "SignNonce"} \subseteq AllNames
    BY <1>2, ResponderAssumption DEF AllNames, Names, Range
  <1> QED
    BY <1>1, <1>2

LEMMA AsksAre ==
  /\ MaxAsks \in Nat \ {0} /\ Asks = 1 .. MaxAsks /\ 0 \notin Asks /\ Asks \subseteq Nat
  /\ 0 \notin Inputs /\ Inputs \subseteq Nat /\ MaxSubmits \in Nat /\ MaxTroubles \in Nat
  BY ResponderAssumption DEF MaxAsks, Asks

\* The messages that were sent.
LEMMA AsksInDomain ==
  ASSUME TypeOK
  PROVE  /\ Now \in 0 .. MaxAsks /\ DOMAIN asks = 1 .. Now /\ DOMAIN asks \subseteq Asks
         /\ \A r \in DOMAIN asks : asks[r].name \in AllNames
                /\ asks[r] \in [name : AllNames, kind : {"fits", "wrong", "unfit", "view"}]
         /\ asks = <<>> <=> Now = 0
         /\ asks # <<>> => Now \in DOMAIN asks /\ Now \in Asks /\ Now # 0 /\ Current \in AllNames
                            /\ Current = asks[Now].name
  <1> DEFINE S == [name : AllNames, kind : {"fits", "wrong", "unfit", "view"}]
  <1>1. asks \in Seq(S) /\ Len(asks) <= MaxAsks
    BY DEF TypeOK
  <1>2. Len(asks) \in Nat /\ DOMAIN asks = 1 .. Len(asks)
    BY <1>1, LenProperties
  <1>3. \A r \in DOMAIN asks : asks[r] \in S
    BY <1>1, <1>2, ElementOfSeq
  <1>4. asks = <<>> <=> Len(asks) = 0
    BY <1>1, <1>2, EmptySeq
  <1> HIDE DEF S
  <1>5. DOMAIN asks \subseteq Asks
    BY <1>1, <1>2, AsksAre
  <1>6. \A r \in DOMAIN asks : asks[r].name \in AllNames
    BY <1>3 DEF S
  <1>7. asks # <<>> => Len(asks) \in DOMAIN asks
    BY <1>2, <1>4
  <1> QED
    BY <1>1, <1>2, <1>3, <1>4, <1>5, <1>6, <1>7, AsksAre DEF Now, Current, S

\* The page, if there is one.
LEMMA PageIs ==
  ASSUME TypeOK
  PROVE  /\ page = <<>> => Range(page) = {}
         /\ page # <<>> => /\ page[1] \in Page /\ page = <<page[1]>> /\ Range(page) = {page[1]}
                           /\ page[1].runs \in Seq(Run)
                           /\ Len(page[1].runs) \in Nat /\ DOMAIN page[1].runs = 1 .. Len(page[1].runs)
                           /\ \A i \in DOMAIN page[1].runs : page[1].runs[i] \in Run
  <1>1. page \in Seq(Page) /\ Len(page) <= 1
    BY DEF TypeOK
  <1>2. Len(page) \in Nat /\ DOMAIN page = 1 .. Len(page)
    BY <1>1, LenProperties
  <1>3. ASSUME page # <<>>
        PROVE  page[1] \in Page /\ page = <<page[1]>> /\ DOMAIN page = {1}
    <2>1. Len(page) = 1
      BY <1>1, <1>2, <1>3, EmptySeq
    <2>2. page[1] \in Page
      BY <1>1, <2>1, ElementOfSeq
    <2> QED
      BY <1>1, <1>2, <2>1, <2>2
  <1>4. page = <<>> => Range(page) = {}
    BY DEF Range
  <1>5. page # <<>> => Range(page) = {page[1]}
    BY <1>3 DEF Range
  <1>6. page # <<>> => page[1].runs \in Seq(Run)
    BY <1>3 DEF Page
  <1>7. page # <<>> => Len(page[1].runs) \in Nat /\ DOMAIN page[1].runs = 1 .. Len(page[1].runs)
    BY <1>6, LenProperties
  <1>8. page # <<>> => \A i \in DOMAIN page[1].runs : page[1].runs[i] \in Run
    BY <1>6, <1>7, ElementOfSeq
  <1> QED
    BY <1>3, <1>4, <1>5, <1>6, <1>7, <1>8

\* A page shown is the sequence of it.
LEMMA PageBecomes ==
  ASSUME NEW q \in Page, page' = <<q>>
  PROVE  page' # <<>> /\ page'[1] = q /\ page' \in Seq(Page) /\ Len(page') <= 1
  OBVIOUS

\* A list of runs that gets one more, or loses one.
LEMMA RunsGrow ==
  ASSUME NEW s \in Seq(Run), NEW run \in Run
  PROVE  /\ Append(s, run) \in Seq(Run) /\ DOMAIN Append(s, run) = 1 .. Len(s) + 1
         /\ Len(s) \in Nat /\ DOMAIN s = 1 .. Len(s) /\ Len(Append(s, run)) = Len(s) + 1
         /\ \A i \in 1 .. Len(s) : Append(s, run)[i] = s[i]
         /\ Append(s, run)[Len(s) + 1] = run
  BY AppendProperties, LenProperties

LEMMA RunsShrink ==
  ASSUME NEW s \in Seq(Run), NEW i \in DOMAIN s
  PROVE  /\ RemoveAt(s, i) \in Seq(Run)
         /\ Len(RemoveAt(s, i)) = Len(s) - 1 /\ DOMAIN RemoveAt(s, i) = 1 .. Len(s) - 1
         /\ Len(s) \in Nat /\ DOMAIN s = 1 .. Len(s)
         /\ \A j \in 1 .. Len(s) - 1 : RemoveAt(s, i)[j] = IF j < i THEN s[j] ELSE s[j + 1]
  <1> DEFINE a == SubSeq(s, 1, i - 1)
             b == SubSeq(s, i + 1, Len(s))
  <1>1. Len(s) \in Nat /\ DOMAIN s = 1 .. Len(s) /\ i \in 1 .. Len(s)
    BY LenProperties
  <1>2. \A j \in 1 .. Len(s) : s[j] \in Run
    BY <1>1, ElementOfSeq
  <1>3. a \in Seq(Run) /\ Len(a) = i - 1 /\ \A j \in 1 .. i - 1 : a[j] = s[j]
    <2>1. \A j \in 1 .. i - 1 : s[j] \in Run
      BY <1>1, <1>2
    <2>2. /\ a \in Seq(Run) /\ Len(a) = IF 1 <= i - 1 THEN i - 1 - 1 + 1 ELSE 0
          /\ \A j \in 1 .. i - 1 - 1 + 1 : a[j] = s[1 + j - 1]
      <3>1. 1 \in Int /\ i - 1 \in Int
        BY <1>1
      <3> HIDE DEF a
      <3>2. a = SubSeq(s, 1, i - 1)
        BY DEF a
      <3> QED
        BY <2>1, <3>1, <3>2, SubSeqProperties
    <2> HIDE DEF a
    <2> QED
      BY <1>1, <2>2
  <1>4. b \in Seq(Run) /\ Len(b) = Len(s) - i /\ \A j \in 1 .. Len(s) - i : b[j] = s[i + j]
    <2>1. \A j \in i + 1 .. Len(s) : s[j] \in Run
      BY <1>1, <1>2
    <2>2. /\ b \in Seq(Run) /\ Len(b) = IF i + 1 <= Len(s) THEN Len(s) - (i + 1) + 1 ELSE 0
          /\ \A j \in 1 .. Len(s) - (i + 1) + 1 : b[j] = s[i + 1 + j - 1]
      <3>1. i + 1 \in Int /\ Len(s) \in Int
        BY <1>1
      <3> HIDE DEF b
      <3>2. b = SubSeq(s, i + 1, Len(s))
        BY DEF b
      <3> QED
        BY <2>1, <3>1, <3>2, SubSeqProperties
    <2> HIDE DEF b
    <2>3. \A j \in 1 .. Len(s) - i : j \in 1 .. Len(s) - (i + 1) + 1 /\ i + 1 + j - 1 = i + j
      BY <1>1
    <2>4. \A j \in 1 .. Len(s) - i : b[j] = s[i + j]
      BY <2>2, <2>3
    <2>5. Len(b) = Len(s) - i
      BY <1>1, <2>2
    <2> QED
      BY <2>2, <2>4, <2>5
  <1> HIDE DEF a, b
  <1>5. RemoveAt(s, i) = a \o b
    BY DEF RemoveAt, a, b
  <1>6. /\ a \o b \in Seq(Run) /\ Len(a \o b) = Len(s) - 1
        /\ \A j \in 1 .. Len(s) - 1 : (a \o b)[j] = IF j <= i - 1 THEN a[j] ELSE b[j - (i - 1)]
    <2>1. Len(a) + Len(b) = Len(s) - 1 /\ Len(a) = i - 1
      BY <1>1, <1>3, <1>4
    <2>2. /\ a \o b \in Seq(Run) /\ Len(a \o b) = Len(a) + Len(b)
          /\ \A j \in 1 .. Len(a) + Len(b) : (a \o b)[j] = IF j <= Len(a) THEN a[j] ELSE b[j - Len(a)]
      BY <1>3, <1>4, ConcatProperties
    <2> QED
      BY <2>1, <2>2
  <1>7. \A j \in 1 .. Len(s) - 1 : (a \o b)[j] = IF j < i THEN s[j] ELSE s[j + 1]
    <2> TAKE j \in 1 .. Len(s) - 1
    <2>1. CASE j < i
      BY <1>1, <1>3, <1>6, <2>1
    <2>2. CASE ~ (j < i)
      <3>1. j - (i - 1) \in 1 .. Len(s) - i /\ i + (j - (i - 1)) = j + 1
        BY <1>1, <2>2
      <3>2. (a \o b)[j] = b[j - (i - 1)]
        BY <1>1, <1>6, <2>2
      <3> QED
        BY <1>4, <2>2, <3>1, <3>2
    <2> QED
      BY <2>1, <2>2
  <1>8. DOMAIN (a \o b) = 1 .. Len(s) - 1
    BY <1>6, LenProperties
  <1> QED
    BY <1>1, <1>5, <1>6, <1>7, <1>8

\* A run that gets on.
LEMMA RunGetsOn ==
  ASSUME NEW s \in Seq(Run), NEW i \in DOMAIN s, NEW run \in Run
  PROVE  /\ [s EXCEPT ![i] = run] \in Seq(Run)
         /\ DOMAIN [s EXCEPT ![i] = run] = DOMAIN s /\ DOMAIN s = 1 .. Len(s) /\ Len(s) \in Nat
         /\ [s EXCEPT ![i] = run][i] = run
         /\ \A j \in DOMAIN s : j # i => [s EXCEPT ![i] = run][j] = s[j]
  <1>1. Len(s) \in Nat /\ DOMAIN s = 1 .. Len(s)
    BY LenProperties
  <1> QED
    BY <1>1

-----------------------------------------------------------------------------
(* What lasts while the conversation stays where it is                     *)

\* Answers are counted, up to two.
SubmitsGrow ==
    /\ submits' \in [Asks -> 0 .. 2]
    /\ \A r \in Asks :
        /\ submits[r] # 0 => submits'[r] # 0 /\ (submits'[r] = 1 => submits[r] = 1)
        /\ r \notin DOMAIN asks => submits'[r] = submits[r]

LEMMA SubmitsStay ==
  ASSUME TypeOK, submits' = submits
  PROVE  SubmitsGrow
  BY DEF TypeOK, SubmitsGrow

LEMMA AnsweredGrows ==
  ASSUME TypeOK, NEW r \in DOMAIN asks, Answered(r)
  PROVE  /\ SubmitsGrow
         /\ submits'[r] # 0 /\ (submits'[r] = 1 => submits[r] = 0)
         /\ \A x \in Asks : x # r => submits'[x] = submits[x]
  <1>1. r \in Asks /\ submits \in [Asks -> 0 .. 2] /\ DOMAIN asks \subseteq Asks
    BY AsksInDomain DEF TypeOK
  <1>2. submits' = [submits EXCEPT ![r] = IF submits[r] = 2 THEN 2 ELSE submits[r] + 1]
    BY DEF Answered
  <1>3. submits'[r] = (IF submits[r] = 2 THEN 2 ELSE submits[r] + 1) /\ submits[r] \in 0 .. 2
    BY <1>1, <1>2
  <1>4. \A x \in Asks : x # r => submits'[x] = submits[x]
    BY <1>1, <1>2
  <1>5. submits' \in [Asks -> 0 .. 2]
    BY <1>1, <1>2, <1>3
  <1>6. submits'[r] # 0 /\ (submits'[r] = 1 => submits[r] = 0)
    BY <1>3
  <1>7. \A x \in Asks : /\ submits[x] # 0 => submits'[x] # 0 /\ (submits'[x] = 1 => submits[x] = 1)
                        /\ x \notin DOMAIN asks => submits'[x] = submits[x]
    BY <1>1, <1>4, <1>6
  <1> QED
    BY <1>4, <1>5, <1>6, <1>7 DEF SubmitsGrow

LEMMA ConversationStays ==
  ASSUME UNCHANGED web
  PROVE  /\ UNCHANGED <<type, asks, count, reply, told>>
         /\ Now' = Now /\ Current' = Current /\ Named' = Named /\ FitsAsked' = FitsAsked
         /\ \A rec : RecordFits(rec)' <=> RecordFits(rec)
         /\ \A l : IsGrant(l)' <=> IsGrant(l)
         /\ mail' = mail => Heard' = Heard
  <1>1. UNCHANGED <<type, asks, count, reply, told>>
    BY DEF web
  <1>2. Now' = Now /\ Current' = Current /\ Named' = Named
    BY <1>1 DEF Now, Current, Named
  <1> QED
    BY <1>1, <1>2 DEF FitsAsked, RecordFits, IsGrant, Heard

LEMMA OncePersists ==
  ASSUME TypeOK, Tellings, UNCHANGED web, SubmitsGrow, NEW nm \in AllNames, Once(nm)'
  PROVE  Once(nm)
  <1>1. told' = told /\ told[nm].ask # 0 /\ submits'[told[nm].ask] = 1
    BY ConversationStays DEF Once
  <1>2. told[nm].ask \in Asks /\ submits[told[nm].ask] # 0
    BY <1>1, AsksInDomain DEF Tellings
  <1> QED
    BY <1>1, <1>2 DEF Once, SubmitsGrow

LEMMA AnswerPersists ==
  ASSUME TypeOK, Tellings, UNCHANGED web, SubmitsGrow, NEW nm \in Named, NEW v, Answer(nm, v)
  PROVE  Answer(nm, v)'
  <1>1. told' = told /\ Now' = Now /\ type \in Types
    BY ConversationStays DEF TypeOK
  <1>2. CASE nm = "ComputeClientProof"
    <2>1. "SelectSecurePassword" \in AllNames /\ "ExchangePublicKeys" \in AllNames
      BY <1>1, <1>2, NamesAre
    <2>2. /\ Once("SelectSecurePassword")' => Once("SelectSecurePassword")
          /\ Once("ExchangePublicKeys")' => Once("ExchangePublicKeys")
      BY <2>1, OncePersists
    <2> QED
      BY <1>1, <1>2, <2>2 DEF Answer
  <1>3. CASE nm = "SignNonce"
    <2>1. "SelectKey" \in AllNames
      BY <1>1, <1>3, NamesAre
    <2>2. Once("SelectKey")' => Once("SelectKey")
      BY <2>1, OncePersists
    <2> QED
      BY <1>1, <1>3, <2>2 DEF Answer
  <1> QED
    BY <1>2, <1>3 DEF Answer

\* A run stays good, whatever the page sees next.
LEMMA RunPersists ==
  ASSUME TypeOK, Tellings, UNCHANGED web, SubmitsGrow, NEW p, NEW q, NEW run,
         p.name \in Named, q.name = p.name, p.seen.last = Now => q.seen.last = Now,
         RunFits(p, run)
  PROVE  RunFits(q, run)' /\ (ValueFits(run) => ValueFits(run)')
  <1>1. asks' = asks /\ Now' = Now /\ FitsAsked' = FitsAsked
    BY ConversationStays
  <1>2. run.name \in Named
    BY DEF RunFits
  <1>3. Answer(run.name, run.value) => Answer(run.name, run.value)'
    BY <1>2, AnswerPersists
  <1>4. ValueFits(run) => ValueFits(run)'
    BY <1>1, <1>3 DEF ValueFits
  <1> QED
    BY <1>1, <1>4 DEF RunFits

\* What a page knows stays true.
LEMMA SeenPersists ==
  ASSUME TypeOK, Tellings, UNCHANGED web, SubmitsGrow, NEW p, NEW q, record'.last = record.last,
         p.name \in Named, q.name = p.name, q.seen = p.seen, q.form = p.form, q.key = p.key,
         SeenFits(p)
  PROVE  SeenFits(q)'
  <1>1. told' = told /\ Now' = Now /\ (RecordFits(p.seen)' <=> RecordFits(p.seen))
    BY ConversationStays
  <1>2. p.name = "SignNonce" /\ Once("SelectKey")' => Once("SelectKey")
    BY OncePersists, NamesAre DEF TypeOK
  <1> QED
    BY <1>1, <1>2 DEF SeenFits

LEMMA ProofStands ==
  ASSUME TypeOK, Tellings, UNCHANGED web, SubmitsGrow, ProofFits
  PROVE  ProofFits'
  <1>1. told' = told
    BY ConversationStays
  <1>2. \A r \in Asks : submits[r] # 0 /\ submits'[r] = 1 => submits[r] = 1
    BY DEF SubmitsGrow
  <1>3. \A nm \in AllNames : told[nm].ask # 0 => told[nm].ask \in Asks /\ submits[told[nm].ask] # 0
    BY AsksInDomain DEF Tellings
  <1>4. ASSUME "ComputeClientProof" \in AllNames,
               Undisturbed(<<"SelectSecurePassword", "ExchangePublicKeys", "ComputeClientProof">>)'
        PROVE  Undisturbed(<<"SelectSecurePassword", "ExchangePublicKeys", "ComputeClientProof">>)
    <2>1. {"SelectSecurePassword", "ExchangePublicKeys", "ComputeClientProof"} \subseteq AllNames
      BY <1>4, NamesTogether
    <2> DEFINE ns == <<"SelectSecurePassword", "ExchangePublicKeys", "ComputeClientProof">>
    <2>2. \A i \in DOMAIN ns : ns[i] \in AllNames
      BY <2>1
    <2> HIDE DEF ns
    <2>3. Undisturbed(ns)'
      BY <1>4 DEF ns
    <2>4. \A i \in DOMAIN ns : told[ns[i]].ask # 0 /\ submits'[told[ns[i]].ask] = 1
             /\ (i > 1 => told[ns[i - 1]].ask < told[ns[i]].ask)
      BY <1>1, <2>3 DEF Undisturbed
    <2>5. \A i \in DOMAIN ns : submits[told[ns[i]].ask] = 1
      BY <1>2, <1>3, <2>2, <2>4
    <2>6. Undisturbed(ns)
      BY <2>4, <2>5 DEF Undisturbed
    <2> QED
      BY <2>6 DEF ns
  <1>5. ASSUME "SignNonce" \in AllNames, Undisturbed(<<"SelectKey", "SignNonce">>)'
        PROVE  Undisturbed(<<"SelectKey", "SignNonce">>)
    <2>1. {"SelectKey", "SignNonce"} \subseteq AllNames
      BY <1>5, NamesTogether
    <2> DEFINE ns == <<"SelectKey", "SignNonce">>
    <2>2. \A i \in DOMAIN ns : ns[i] \in AllNames
      BY <2>1
    <2> HIDE DEF ns
    <2>3. Undisturbed(ns)'
      BY <1>5 DEF ns
    <2>4. \A i \in DOMAIN ns : told[ns[i]].ask # 0 /\ submits'[told[ns[i]].ask] = 1
             /\ (i > 1 => told[ns[i - 1]].ask < told[ns[i]].ask)
      BY <1>1, <2>3 DEF Undisturbed
    <2>5. \A i \in DOMAIN ns : submits[told[ns[i]].ask] = 1
      BY <1>2, <1>3, <2>2, <2>4
    <2>6. Undisturbed(ns)
      BY <2>4, <2>5 DEF Undisturbed
    <2> QED
      BY <2>6 DEF ns
  <1> QED
    BY <1>1, <1>4, <1>5 DEF ProofFits

\* The popup and its pages leave alone what the browser and the web app hold.
LEMMA WebStands ==
  ASSUME IInv, UNCHANGED web, SubmitsGrow, handler' \in {0, Now}, url' \in {0, Now},
         record'.messages = record.messages, record'.last = record.last,
         \A l \in mail' : l.ask \in DOMAIN asks,
         asks # <<>> /\ record.last # Now => submits'[Now] = 0
  PROVE  Conversation' /\ Tellings' /\ Records' /\ ProofFits'
  <1>1. /\ UNCHANGED <<type, asks, count, reply, told>>
        /\ Now' = Now /\ Current' = Current /\ Named' = Named
        /\ Conversation /\ Tellings /\ Records /\ TypeOK
    BY ConversationStays DEF IInv
  <1>2. \A r \in Asks : r > Now => r \notin DOMAIN asks
    BY AsksInDomain, AsksAre, <1>1
  <1>3. Conversation'
    BY <1>1, <1>2 DEF Conversation, SubmitsGrow
  <1>4. Tellings'
    BY <1>1 DEF Tellings, SubmitsGrow
  <1>5. RecordFits(record)'
    BY <1>1 DEF Records, RecordFits
  <1>6. Records'
    BY <1>1, <1>5 DEF Records
  <1>7. ProofFits'
    BY <1>1, ProofStands DEF IInv
  <1> QED
    BY <1>3, <1>4, <1>6, <1>7

\* What was granted before is in a secret that stays as it was.
LEMMA KeptBeforeStands ==
  ASSUME IInv, UNCHANGED web, SubmitsGrow,
         \A nm \in Named, r \in Asks : \A v :
            Place(nm) < Place(Current) /\ Holds(record.secret, nm, r, v)
            => Made(record'.secret, nm)
               /\ (Left(record.secret, nm, r, v) => Left(record'.secret, nm, r, v))
  PROVE  KeptBefore'
  <1>1. told' = told /\ asks' = asks /\ Current' = Current /\ Named' = Named /\ Tellings /\ TypeOK
    BY ConversationStays DEF IInv
  <1> SUFFICES ASSUME asks # <<>>, NEW nm \in Named, Place(nm) < Place(Current)
               PROVE  /\ told[nm].ask # 0
                      /\ Holds(record.secret, nm, told[nm].ask, told[nm].value)'
    BY <1>1 DEF KeptBefore
  <1>2. told[nm].ask # 0 /\ Holds(record.secret, nm, told[nm].ask, told[nm].value)
    BY DEF IInv, KeptBefore
  <1>3. nm \in AllNames
    BY <1>1, NamesAre DEF TypeOK
  <1>4. told[nm].ask \in Asks /\ submits[told[nm].ask] # 0
    BY <1>1, <1>2, <1>3, AsksInDomain DEF Tellings
  <1>5. submits'[told[nm].ask] = 1 => submits[told[nm].ask] = 1
    BY <1>4 DEF SubmitsGrow
  <1>6. Made(record'.secret, nm)
    BY <1>2, <1>4
  <1>7. submits'[told[nm].ask] = 1 => Left(record'.secret, nm, told[nm].ask, told[nm].value)
    BY <1>2, <1>4, <1>5 DEF Holds
  <1>8. Holds(record.secret, nm, told[nm].ask, told[nm].value)'
    BY <1>1, <1>6, <1>7 DEF Holds, Made, Left
  <1> QED
    BY <1>2, <1>8

-----------------------------------------------------------------------------
(* The page gets on                                                        *)

\* The invariant without the types.
Sound ==
    /\ Conversation /\ Tellings /\ Records /\ PageSound /\ Tokens
    /\ KeptBefore /\ KeptNow /\ ProofFits /\ Authentic

\* A page whose runs and letters are sound keeps the invariant.
LEMMA PageMoves ==
  ASSUME IInv, asks # <<>>, UNCHANGED <<web, record, handler, url>>, SubmitsGrow,
         NEW q \in Page, page' = <<q>>, mail \subseteq mail',
         \A l \in mail' : l.ask \in DOMAIN asks,
         record.last # Now => submits'[Now] = 0,
         PageFits(q)', InOrder(q.runs)', Settled(q)', Tokens',
         \A l \in mail' \ mail : IsGrant(l) =>
            Holds(record.secret, Current, Now, l.value)' /\ Answer(Current, l.value),
         \A i \in DOMAIN q.runs : q.runs[i].ask = Now /\ q.runs[i].stage = "written" =>
            \E j \in InHand : page[1].runs[j].stage = "written"
                                /\ page[1].runs[j].value = q.runs[i].value
  PROVE  Sound'
  <1>1. /\ UNCHANGED <<type, asks, count, reply, told>>
        /\ Now' = Now /\ Current' = Current /\ Named' = Named /\ FitsAsked' = FitsAsked
        /\ \A l : IsGrant(l)' <=> IsGrant(l)
    BY ConversationStays
  <1>2. Conversation' /\ Tellings' /\ Records' /\ ProofFits'
    BY WebStands DEF IInv, Conversation
  <1>3. PageSound'
    BY PageBecomes DEF PageSound
  <1>4. KeptBefore'
    BY KeptBeforeStands DEF Holds
  <1>5. Now \in Asks /\ TypeOK /\ Current \in Named
    BY AsksInDomain DEF IInv, Conversation, Current, Now
  <1>6. KeptNow'
    <2>1. ASSUME NEW v, Holds(record.secret, Current, Now, v), submits[Now] # 0
          PROVE  Holds(record.secret, Current, Now, v)'
      BY <1>1, <1>5, <2>1 DEF SubmitsGrow, Holds, Made, Left
    <2>2. reply[Now] = "resolve" => Holds(record.secret, Current, Now, told[Current].value)'
      <3>1. SUFFICES ASSUME reply[Now] = "resolve"
                     PROVE  Holds(record.secret, Current, Now, told[Current].value)'
        OBVIOUS
      <3>2. KeptNow /\ Tokens
        BY DEF IInv
      <3>3. Holds(record.secret, Current, Now, told[Current].value)
        BY <3>1, <3>2 DEF KeptNow
      <3>4. submits[Now] # 0
        BY <3>1, <3>2 DEF Tokens, Heard
      <3> QED
        BY <1>1, <2>1, <3>3, <3>4
    <2>3. ASSUME NEW l \in mail', IsGrant(l)
          PROVE  Holds(record.secret, Current, Now, l.value)' /\ Answer(Current, l.value)'
      <3>1. CASE l \in mail
        <4>1. Heard /\ Holds(record.secret, Current, Now, l.value) /\ Answer(Current, l.value)
          BY <2>3, <3>1 DEF IInv, KeptNow, Heard
        <4>2. Answer(Current, l.value)'
          <5> DEFINE c == Current
          <5>1. c \in Named /\ Answer(c, l.value)
            BY <1>5, <4>1
          <5> HIDE DEF c
          <5>2. \A nm \in Named : \A v : Answer(nm, v) => Answer(nm, v)'
            BY AnswerPersists DEF IInv
          <5> QED
            BY <1>1, <1>5, <4>1, <5>2 DEF Answer
        <4> QED
          BY <2>1, <4>1, <4>2 DEF IInv, Tokens
      <3>2. CASE l \notin mail
        <4>1. Holds(record.secret, Current, Now, l.value)' /\ Answer(Current, l.value)
          BY <2>3, <3>2
        <4>2. \A nm \in Named : \A v : Answer(nm, v) => Answer(nm, v)'
          BY AnswerPersists DEF IInv
        <4> QED
          BY <1>1, <1>5, <4>1, <4>2 DEF Answer
      <3> QED
        BY <3>1, <3>2
    <2>4. ASSUME NEW i \in DOMAIN q.runs, q.runs[i].ask = Now, q.runs[i].stage = "written"
          PROVE  Holds(record.secret, Current, Now, q.runs[i].value)'
      <3>1. PICK j \in InHand : page[1].runs[j].stage = "written"
                                /\ page[1].runs[j].value = q.runs[i].value
        BY <2>4
      <3>2. Holds(record.secret, Current, Now, q.runs[i].value)
        BY <3>1 DEF IInv, KeptNow
      <3>3. submits[Now] # 0
        BY <3>1 DEF IInv, Tokens
      <3> QED
        BY <2>1, <3>2, <3>3
    <2>5. InHand' = {i \in DOMAIN q.runs : q.runs[i].ask = Now}
      BY <1>1, PageBecomes DEF InHand
    <2>6. page'[1] = q
      OBVIOUS
    <2> QED
      BY <1>1, <2>2, <2>3, <2>4, <2>5, <2>6 DEF KeptNow
  <1>7. Authentic'
    BY <1>1 DEF IInv, Authentic
  <1> QED
    BY <1>2, <1>3, <1>4, <1>6, <1>7 DEF Sound

\* Runs that are only carried on, or dropped, are no new answers.
LEMMA TokensStay ==
  ASSUME IInv, UNCHANGED <<web, mail, submits>>, NEW q \in Page, page' = <<q>>,
         \A i, j \in DOMAIN q.runs : q.runs[i].ask = Now /\ q.runs[j].ask = Now =>
            \E a, b \in InHand : a = b => i = j
  PROVE  Tokens'
  <1>1. Now' = Now /\ asks' = asks /\ reply' = reply /\ Heard' = Heard
        /\ \A l : IsGrant(l)' <=> IsGrant(l)
    BY ConversationStays
  <1>2. InHand' = {i \in DOMAIN q.runs : q.runs[i].ask = Now}
    BY <1>1, PageBecomes DEF InHand
  <1>3. InHand = {} => InHand' = {}
    BY <1>2
  <1>4. (\A a, b \in InHand : a = b) => \A i, j \in InHand' : i = j
    BY <1>2
  <1> QED
    BY <1>1, <1>3, <1>4 DEF IInv, Tokens

\* A message that is answered has one more answer: a run or a letter.
LEMMA TokensGrow ==
  ASSUME IInv, UNCHANGED web, NEW r \in DOMAIN asks, Answered(r), NEW q \in Page, page' = <<q>>,
         page # <<>>,
         \/ \E run \in Run : run.ask = r /\ q.runs = Append(page[1].runs, run) /\ mail' = mail
         \/ \E l : l.ask = r /\ mail' = mail \union {l} /\ q.runs = page[1].runs
  PROVE  Tokens'
  <1>1. Now' = Now /\ asks' = asks /\ reply' = reply
        /\ (\A l : IsGrant(l)' <=> IsGrant(l)) /\ (mail' = mail => Heard' = Heard)
    BY ConversationStays
  <1>2. InHand' = {i \in DOMAIN q.runs : q.runs[i].ask = Now}
    BY <1>1, PageBecomes DEF InHand
  <1>3. InHand = {i \in DOMAIN page[1].runs : page[1].runs[i].ask = Now}
    BY DEF InHand
  <1>4. TypeOK /\ Tokens
    BY DEF IInv
  <1>5. /\ submits'[r] # 0 /\ (submits'[r] = 1 => submits[r] = 0)
        /\ \A x \in Asks : x # r => submits'[x] = submits[x]
    BY <1>4, AnsweredGrows
  <1>6. Now \in Asks /\ asks # <<>>
    BY <1>4, AsksInDomain, AsksAre
  <1>7. CASE r = Now
    <2> SUFFICES ASSUME submits[Now] = 0
                 PROVE  /\ \A i, j \in InHand' : i = j
                        /\ InHand' # {} => ~ Heard'
                        /\ \A l, m \in mail' : IsGrant(l) /\ IsGrant(m) => l = m
                        /\ \A l \in mail' : IsGrant(l) => reply[Now] # "resolve"
      BY <1>1, <1>5, <1>6, <1>7 DEF Tokens
    <2>1. ~ Heard /\ InHand = {}
      BY <1>4, <1>6 DEF Tokens
    <2>2. ASSUME NEW run \in Run, q.runs = Append(page[1].runs, run), mail' = mail
          PROVE  \A i, j \in InHand' : i = j
      <3>1. DOMAIN q.runs = 1 .. Len(page[1].runs) + 1 /\ DOMAIN page[1].runs = 1 .. Len(page[1].runs)
            /\ Len(page[1].runs) \in Nat
            /\ \A i \in 1 .. Len(page[1].runs) : q.runs[i] = page[1].runs[i]
        BY <1>4, <2>2, PageIs, RunsGrow
      <3>2. \A i \in InHand' : i = Len(page[1].runs) + 1
        BY <1>2, <1>3, <2>1, <3>1
      <3> QED
        BY <3>2
    <2>3. CASE \E run \in Run : run.ask = r /\ q.runs = Append(page[1].runs, run) /\ mail' = mail
      BY <1>1, <2>1, <2>2, <2>3 DEF Heard
    <2>4. CASE \E l : l.ask = r /\ mail' = mail \union {l} /\ q.runs = page[1].runs
      <3>1. InHand' = {}
        BY <1>2, <1>3, <2>1, <2>4
      <3>2. \A m \in mail : ~ IsGrant(m)
        BY <2>1 DEF Heard
      <3>3. reply[Now] # "resolve"
        BY <2>1 DEF Heard
      <3> QED
        BY <2>4, <3>1, <3>2, <3>3
    <2> QED
      BY <2>3, <2>4
  <1>8. CASE r # Now
    <2>1. submits'[Now] = submits[Now]
      BY <1>5, <1>6, <1>8
    <2>2. CASE \E run \in Run : run.ask = r /\ q.runs = Append(page[1].runs, run) /\ mail' = mail
      <3>1. PICK run \in Run : run.ask = r /\ q.runs = Append(page[1].runs, run) /\ mail' = mail
        BY <2>2
      <3>2. DOMAIN q.runs = 1 .. Len(page[1].runs) + 1 /\ DOMAIN page[1].runs = 1 .. Len(page[1].runs)
            /\ Len(page[1].runs) \in Nat
            /\ (\A i \in 1 .. Len(page[1].runs) : q.runs[i] = page[1].runs[i])
            /\ q.runs[Len(page[1].runs) + 1] = run
        BY <1>4, <3>1, PageIs, RunsGrow
      <3>3. InHand' = InHand
        <4>1. \A i \in InHand' : i \in InHand
          BY <1>2, <1>3, <1>8, <3>1, <3>2
        <4>2. \A i \in InHand : i \in InHand'
          BY <1>2, <1>3, <3>2
        <4> QED
          BY <4>1, <4>2
      <3> QED
        BY <1>1, <1>4, <2>1, <3>1, <3>3 DEF Tokens
    <2>3. CASE \E l : l.ask = r /\ mail' = mail \union {l} /\ q.runs = page[1].runs
      <3>1. InHand' = InHand
        BY <1>2, <1>3, <2>3
      <3>2. \A m \in mail' : IsGrant(m) => m \in mail
        BY <1>8, <2>3 DEF IsGrant
      <3>3. Heard' = Heard
        BY <1>1, <2>3, <3>2 DEF Heard
      <3> QED
        BY <1>1, <1>4, <2>1, <2>3, <3>1, <3>2, <3>3 DEF Tokens
    <2> QED
      BY <2>2, <2>3
  <1> QED
    BY <1>7, <1>8

LEMMA SoundTypes == TypeOK /\ Sound <=> IInv
  BY DEF Sound, IInv

LEMMA BlankRecord ==
  NoRecord \in Record /\ NoRecord.last = 0 /\ NoSecret \in Secret
  <1>1. NoSecret \in Secret
    BY DEF NoSecret, Secret
  <1>2. [n \in AllNames |-> 0] \in [AllNames -> Asks \union {0}]
    OBVIOUS
  <1> QED
    BY <1>1, <1>2 DEF NoRecord, Record

\* The page turns: no variable but it, the mail and what is counted of the answers
\* has changed.
LEMMA PageTypes ==
  ASSUME TypeOK, UNCHANGED <<web, record, handler, url, assoc, hidden, lost, troubles>>,
         SubmitsGrow, NEW q \in Page, page' = <<q>>, mail \subseteq mail', mail' \subseteq Letter
  PROVE  TypeOK'
  <1>1. page' \in Seq(Page) /\ Len(page') <= 1
    BY PageBecomes
  <1> QED
    BY <1>1 DEF TypeOK, SubmitsGrow, web

LEMMA OpenInv ==
  ASSUME IInv, Open
  PROVE  IInv'
  <1>1. /\ page = <<>> /\ url # 0 /\ url = Now
        /\ UNCHANGED <<web, record, handler, url, letters, history, troubles>>
    BY DEF Open, IInv, Conversation
  <1>2. asks # <<>> /\ Now \in DOMAIN asks /\ Current \in AllNames /\ Current = asks[Now].name /\ TypeOK
    BY <1>1, AsksInDomain DEF IInv
  <1>3. PICK q \in Page :
             /\ page' = <<q>> /\ q.name = Current /\ q.stage = "waiting" /\ q.seen = NoRecord
             /\ q.form = 0 /\ q.runs = <<>> /\ q.verdict = "unset"
    <2> DEFINE o == [name |-> asks[url].name, stage |-> "waiting", seen |-> NoRecord, form |-> 0,
                     key |-> 0, ran |-> FALSE, verdict |-> "unset", sent |-> FALSE,
                     runs |-> <<>>, tries |-> 0]
    <2>1. <<>> \in Seq(Run) /\ 0 \in 0 .. MaxSubmits
      BY AsksAre
    <2>2. o \in Page
      BY <1>1, <1>2, <2>1, BlankRecord DEF Page
    <2>3. page' = <<o>>
      BY DEF Open
    <2>4. /\ o.name = Current /\ o.stage = "waiting" /\ o.seen = NoRecord /\ o.form = 0
          /\ o.runs = <<>> /\ o.verdict = "unset"
      BY <1>1, <1>2
    <2> HIDE DEF o
    <2> QED
      BY <2>2, <2>3, <2>4
  <1>6. SubmitsGrow /\ mail' = mail /\ url' = url /\ submits' = submits /\ record' = record
    BY <1>1, <1>2, SubmitsStay DEF letters, history
  <1>7. asks' = asks /\ Now' = Now /\ Current' = Current
    BY <1>1, ConversationStays
  <1>8. DOMAIN q.runs = {}
    BY <1>3
  <1>9. PageFits(q)'
    BY <1>1, <1>2, <1>3, <1>6, <1>7, <1>8 DEF PageFits
  <1>10. InOrder(q.runs)' /\ Settled(q)'
    BY <1>3, <1>8 DEF InOrder, Settled
  <1>11. Tokens'
    BY <1>1, <1>3, <1>6, <1>8, TokensStay
  <1>12. Sound'
    BY <1>1, <1>2, <1>3, <1>6, <1>8, <1>9, <1>10, <1>11, PageMoves DEF IInv, Records
  <1>13. TypeOK'
    BY <1>1, <1>2, <1>3, <1>6, PageTypes DEF letters, history, TypeOK
  <1> QED
    BY <1>12, <1>13, SoundTypes DEF IInv, Sound

LEMMA ProcessedInv ==
  ASSUME IInv, Processed
  PROVE  IInv'
  <1>1. /\ page # <<>> /\ page[1].stage = "ready" /\ page' = <<[page[1] EXCEPT !.stage = "done"]>>
        /\ UNCHANGED <<web, record, handler, url, letters, history, troubles>>
    BY DEF Processed
  <1>2. PICK p \in Page : /\ p = page[1] /\ TypeOK /\ PageFits(p) /\ InOrder(p.runs) /\ Settled(p)
                          /\ p.stage = "ready"
    BY <1>1, PageIs DEF IInv, PageSound
  <1>3. PICK q \in Page :
             /\ page' = <<q>> /\ q.name = p.name /\ q.seen = p.seen /\ q.form = p.form /\ q.key = p.key
             /\ q.runs = p.runs /\ q.verdict = p.verdict /\ q.stage = "done"
    <2> DEFINE o == [p EXCEPT !.stage = "done"]
    <2>1. o \in Page /\ page' = <<o>>
      BY <1>1, <1>2 DEF Page
    <2>2. /\ o.name = p.name /\ o.seen = p.seen /\ o.form = p.form /\ o.key = p.key
          /\ o.runs = p.runs /\ o.verdict = p.verdict /\ o.stage = "done"
      BY DEF Page
    <2> HIDE DEF o
    <2> QED
      BY <2>1, <2>2
  <1>4. SubmitsGrow /\ mail' = mail /\ url' = url /\ submits' = submits /\ record' = record
    BY <1>1, <1>2, SubmitsStay DEF letters, history
  <1>5. asks' = asks /\ Now' = Now /\ Current' = Current /\ FitsAsked' = FitsAsked /\ Heard' = Heard
    BY <1>1, <1>4, ConversationStays
  <1>6. p.name \in Named /\ asks # <<>>
    BY <1>2, AsksInDomain DEF PageFits, IInv, Conversation
  <1>7. PageFits(q)'
    <2>1. SeenFits(q)'
      BY <1>1, <1>2, <1>3, <1>4, <1>6, SeenPersists DEF PageFits, IInv
    <2>2. \A i \in DOMAIN q.runs : RunFits(q, q.runs[i])'
      BY <1>1, <1>2, <1>3, <1>4, <1>6, RunPersists DEF PageFits, IInv
    <2> QED
      BY <1>2, <1>3, <1>4, <1>5, <2>1, <2>2 DEF PageFits
  <1>8. InOrder(q.runs)' /\ Settled(q)'
    BY <1>1, <1>2, <1>3, <1>5 DEF InOrder, Settled
  <1>9. InHand = {i \in DOMAIN q.runs : q.runs[i].ask = Now}
    BY <1>1, <1>2, <1>3 DEF InHand
  <1>10. Tokens'
    BY <1>1, <1>3, <1>4, <1>9, TokensStay
  <1>11. Sound'
    BY <1>1, <1>3, <1>4, <1>6, <1>7, <1>8, <1>9, <1>10, <1>2, PageMoves DEF IInv, Records
  <1>12. TypeOK'
    BY <1>1, <1>2, <1>3, <1>4, PageTypes DEF letters, history, TypeOK
  <1> QED
    BY <1>11, <1>12 DEF IInv, Sound

\* What a page makes of the record that it finds: it may begin a run.
LEMMA LoadedPage ==
  ASSUME IInv, Load
  PROVE  \E p \in Page, q \in Page :
            /\ page = <<p>> /\ page' = <<q>> /\ p.stage # "done" /\ record.messages[p.name] # 0
            /\ q.name = p.name /\ q.stage = "ready" /\ q.seen = record
            /\ q.form = record.messages[p.name]
            /\ q.key = IF p.stage = "waiting" THEN record.secret.key ELSE p.key
            /\ q.verdict = "yes" => p.verdict = "yes" \/ FitsAsked
            /\ \/ q.runs = p.runs /\ submits' = submits
               \/ \E run \in Run :
                    /\ q.runs = Append(p.runs, run) /\ Answered(record.last)
                    /\ run.ask = record.last /\ run.name = p.name
                    /\ run.payload = record.messages[p.name]
                    /\ \/ run.name = "ExchangePublicKeys" /\ run.stage = "computing"
                       \/ /\ run.name = "ComputeClientProof" /\ run.stage = "writing"
                          /\ run.value = <<record.secret.fields, record.secret.a, record.secret.B,
                                           run.payload>>
  <1>1. page # <<>> /\ TypeOK
    BY DEF Load, IInv
  <1>2. PICK p \in Page : page = <<p>> /\ p = page[1] /\ PageFits(p) /\ p.runs \in Seq(Run)
    BY <1>1, PageIs DEF IInv, PageSound
  <1> DEFINE payload == record.messages[p.name]
             s == record.secret
             loaded == [p EXCEPT !.stage = "ready", !.seen = record,
                            !.form = Mounted(p, payload),
                            !.tries = IF Mounted(p, payload) = p.form THEN @ ELSE 0,
                            !.key = IF p.stage = "waiting" THEN record.secret.key ELSE @]
             starts == p.name \in Automatic /\ payload # p.seen.messages[p.name]
             o == IF starts THEN Started(loaded, record) ELSE loaded
  <1>3. /\ p.stage # "done" /\ payload # 0 /\ page' = <<o>>
        /\ IF Len(o.runs) > Len(p.runs) THEN Answered(record.last) ELSE UNCHANGED submits
    BY <1>2 DEF Load
  <1>4. record \in Record /\ s \in Secret /\ p.name \in AllNames /\ payload \in Asks
    BY <1>1, <1>2, <1>3 DEF TypeOK, Record, Page
  <1>5. /\ record.last \in Asks /\ record.last \in DOMAIN asks
        /\ payload \in DOMAIN asks /\ asks[payload].name = p.name
    BY <1>1, <1>3, <1>4, AsksInDomain DEF IInv, Records, RecordFits
  <1>6. /\ loaded \in Page /\ loaded.name = p.name /\ loaded.stage = "ready" /\ loaded.seen = record
        /\ loaded.form = payload /\ loaded.runs = p.runs /\ loaded.verdict = p.verdict
        /\ loaded.key = IF p.stage = "waiting" THEN s.key ELSE p.key
    <2>1. (IF Mounted(p, payload) = p.form THEN p.tries ELSE 0) \in 0 .. MaxSubmits
      BY <1>2, AsksAre DEF Page
    <2>2. (IF p.stage = "waiting" THEN record.secret.key ELSE p.key) \in Inputs \union {0}
      BY <1>2, <1>4 DEF Page, Secret
    <2> HIDE DEF s
    <2>3. loaded = [p EXCEPT !.stage = "ready", !.seen = record, !.form = payload,
                             !.tries = IF Mounted(p, payload) = p.form THEN p.tries ELSE 0,
                             !.key = IF p.stage = "waiting" THEN record.secret.key ELSE p.key]
      BY DEF Mounted
    <2>4. loaded \in Page
      BY <1>2, <1>4, <2>1, <2>2, <2>3 DEF Page
    <2> QED
      BY <1>2, <2>3, <2>4 DEF Page, s
  <1> HIDE DEF loaded
  <1> DEFINE run == [ask |-> record.last, name |-> p.name, payload |-> payload,
                     value |-> <<>>, stage |-> "writing"]
  <1>7. run \in Run
    <2>1. <<>> \in Seq(Nat)
      OBVIOUS
    <2> QED
      BY <1>4, <1>5, <2>1 DEF Run
  <1>8. SUFFICES
          /\ o \in Page /\ o.name = p.name /\ o.stage = "ready" /\ o.seen = record
          /\ o.form = payload /\ o.key = loaded.key
          /\ o.verdict = "yes" => p.verdict = "yes" \/ FitsAsked
          /\ \/ o.runs = p.runs
             \/ \E r \in Run :
                    /\ o.runs = Append(p.runs, r)
                    /\ r.ask = record.last /\ r.name = p.name /\ r.payload = payload
                    /\ \/ r.name = "ExchangePublicKeys" /\ r.stage = "computing"
                       \/ /\ r.name = "ComputeClientProof" /\ r.stage = "writing"
                          /\ r.value = <<s.fields, s.a, s.B, r.payload>>
    <2> HIDE DEF o, run
    <2>1. CASE o.runs = p.runs
      <3>1. submits' = submits
        BY <1>2, <1>3, <2>1, LenProperties
      <3> QED
        BY <1>2, <1>3, <1>6, <1>8, <2>1, <3>1
    <2>2. ASSUME NEW r \in Run, o.runs = Append(p.runs, r)
          PROVE  Answered(record.last)
      <3>1. Len(o.runs) > Len(p.runs)
        BY <1>2, <2>2, RunsGrow
      <3> QED
        BY <1>3, <3>1
    <2> QED
      BY <1>2, <1>3, <1>6, <1>8, <2>1, <2>2
  <1>9. CASE ~ starts \/ loaded.ran \/ asks[payload].kind = "unfit"
    <2>1. o = loaded
      BY <1>6, <1>9 DEF Started
    <2> QED
      BY <1>6, <2>1
  <1>10. CASE starts /\ ~ (loaded.ran \/ asks[payload].kind = "unfit")
    <2>1. o = CASE p.name = "ExchangePublicKeys" -> ExchangePublicKeys(loaded, run)
                [] p.name = "ComputeClientProof" -> ComputeClientProof(loaded, run, s)
                [] p.name = "VerifyServerProof" -> VerifyServerProof(loaded, run, s)
      BY <1>6, <1>10 DEF Started
    <2>2. p.name \in {"ExchangePublicKeys", "ComputeClientProof", "VerifyServerProof"}
      BY <1>10 DEF Automatic
    <2> HIDE DEF starts, o
    <2>3. CASE p.name = "ExchangePublicKeys"
      <3> DEFINE r == [run EXCEPT !.stage = "computing"]
      <3>1. o = [loaded EXCEPT !.runs = Append(p.runs, r)]
        BY <1>6, <2>1, <2>3 DEF ExchangePublicKeys
      <3>2. r \in Run /\ r.ask = record.last /\ r.name = p.name /\ r.payload = payload
            /\ r.stage = "computing"
        BY <1>7 DEF Run
      <3> HIDE DEF r, run
      <3>3. Append(p.runs, r) \in Seq(Run)
        BY <1>2, <3>2, RunsGrow
      <3>4. /\ o \in Page /\ o.runs = Append(p.runs, r)
            /\ o.name = loaded.name /\ o.stage = loaded.stage /\ o.seen = loaded.seen
            /\ o.form = loaded.form /\ o.key = loaded.key /\ o.verdict = loaded.verdict
        BY <1>6, <3>1, <3>3 DEF Page
      <3> QED
        BY <1>6, <2>3, <3>2, <3>4
    <2>4. CASE p.name = "ComputeClientProof"
      <3> DEFINE r == [run EXCEPT !.value = <<s.fields, s.a, s.B, run.payload>>]
      <3>1. o = [loaded EXCEPT !.ran = TRUE,
                               !.runs = IF s.a = 0 \/ s.B = 0 THEN p.runs ELSE Append(p.runs, r)]
        BY <1>6, <2>1, <2>4 DEF ComputeClientProof
      <3>2. r \in Run /\ r.ask = record.last /\ r.name = p.name /\ r.payload = payload
            /\ r.stage = "writing" /\ r.value = <<s.fields, s.a, s.B, r.payload>>
        <4>1. s.fields \in Nat /\ s.a \in Nat /\ s.B \in Nat /\ payload \in Nat
          <5> HIDE DEF s, payload
          <5>1. s.fields \in Inputs \union {0} /\ s.a \in Nat /\ s.B \in Asks \union {0}
            BY <1>4 DEF Secret
          <5>2. Inputs \subseteq Nat /\ Asks \subseteq Nat
            BY AsksAre
          <5> QED
            <6>1. 0 \in Nat /\ payload \in Asks
              BY <1>4
            <6> QED
              BY <5>1, <5>2, <6>1, Zenon
        <4>2. \A x1, x2, x3, x4 \in Nat : <<x1, x2, x3, x4>> \in Seq(Nat)
          OBVIOUS
        <4>3. <<s.fields, s.a, s.B, run.payload>> \in Seq(Nat)
          BY <4>1, <4>2
        <4> QED
          BY <1>7, <4>3 DEF Run
      <3> HIDE DEF r, run
      <3>3. Append(p.runs, r) \in Seq(Run)
        BY <1>2, <3>2, RunsGrow
      <3>4. /\ o \in Page
            /\ o.runs = IF s.a = 0 \/ s.B = 0 THEN p.runs ELSE Append(p.runs, r)
            /\ o.name = loaded.name /\ o.stage = loaded.stage /\ o.seen = loaded.seen
            /\ o.form = loaded.form /\ o.key = loaded.key /\ o.verdict = loaded.verdict
        BY <1>2, <1>6, <3>1, <3>3 DEF Page
      <3> QED
        BY <1>6, <2>4, <3>2, <3>4
    <2>5. CASE p.name = "VerifyServerProof"
      <3>1. o = [loaded EXCEPT !.ran = TRUE,
                    !.verdict = IF s.a = 0 \/ s.B = 0 \/ s.salt = 0 THEN loaded.verdict
                                ELSE IF ProofIsValid(run.payload, s) THEN "yes" ELSE "no"]
        BY <2>1, <2>5 DEF VerifyServerProof
      <3>2. ProofIsValid(run.payload, s) => FitsAsked
        BY <1>5, <2>5 DEF ProofIsValid, FitsAsked
      <3> HIDE DEF run
      <3>3. /\ o \in Page /\ o.runs = loaded.runs
            /\ o.verdict = "yes" => loaded.verdict = "yes" \/ FitsAsked
            /\ o.name = loaded.name /\ o.stage = loaded.stage /\ o.seen = loaded.seen
            /\ o.form = loaded.form /\ o.key = loaded.key
        BY <1>6, <3>1, <3>2 DEF Page
      <3> QED
        BY <1>6, <3>3
    <2> QED
      BY <2>2, <2>3, <2>4, <2>5
  <1> QED
    BY <1>9, <1>10

LEMMA LoadInv ==
  ASSUME IInv, Load
  PROVE  IInv'
  <1>1. UNCHANGED <<web, record, handler, url, assoc, mail, hidden, lost, troubles>>
    BY DEF Load, letters
  <1>2. PICK p \in Page, q \in Page :
            /\ page = <<p>> /\ page' = <<q>> /\ p.stage # "done" /\ record.messages[p.name] # 0
            /\ q.name = p.name /\ q.stage = "ready" /\ q.seen = record
            /\ q.form = record.messages[p.name]
            /\ q.key = IF p.stage = "waiting" THEN record.secret.key ELSE p.key
            /\ q.verdict = "yes" => p.verdict = "yes" \/ FitsAsked
            /\ \/ q.runs = p.runs /\ submits' = submits
               \/ \E run \in Run :
                    /\ q.runs = Append(p.runs, run) /\ Answered(record.last)
                    /\ run.ask = record.last /\ run.name = p.name
                    /\ run.payload = record.messages[p.name]
                    /\ \/ run.name = "ExchangePublicKeys" /\ run.stage = "computing"
                       \/ /\ run.name = "ComputeClientProof" /\ run.stage = "writing"
                          /\ run.value = <<record.secret.fields, record.secret.a, record.secret.B,
                                           run.payload>>
    BY LoadedPage
  <1>3. page # <<>> /\ page[1] = p /\ TypeOK
    BY <1>2 DEF IInv
  <1>4. PageFits(p) /\ InOrder(p.runs) /\ Settled(p)
    BY <1>3 DEF IInv, PageSound
  <1>5. /\ p.runs \in Seq(Run) /\ Len(p.runs) \in Nat /\ DOMAIN p.runs = 1 .. Len(p.runs)
        /\ \A i \in DOMAIN p.runs : p.runs[i] \in Run
    BY <1>3, PageIs
  <1>6. /\ asks # <<>> /\ Now \in DOMAIN asks /\ Now \in Asks /\ Now # 0 /\ p.name = Current
        /\ Current = asks[Now].name /\ p.name \in Named /\ p.name \in AllNames /\ type \in Types
    BY <1>3, <1>4, AsksInDomain DEF PageFits, IInv, Conversation, TypeOK
  <1>7. /\ record \in Record /\ RecordFits(record)
        /\ record.last \in DOMAIN asks /\ record.last \in Asks
        /\ record.last = Now => record.messages[p.name] = Now
    BY <1>2, <1>3, <1>6, AsksInDomain DEF IInv, Records, RecordFits, TypeOK
  <1>8. /\ Now' = Now /\ Current' = Current /\ FitsAsked' = FitsAsked /\ asks' = asks /\ told' = told
        /\ Heard' = Heard /\ record' = record /\ url' = url /\ mail' = mail
    BY <1>1, ConversationStays
  <1>9. /\ SubmitsGrow
        /\ submits' = submits \/ \A x \in Asks : x # record.last => submits'[x] = submits[x]
    BY <1>2, <1>3, <1>7, SubmitsStay, AnsweredGrows
  <1>10. p.seen.last = Now => q.seen.last = Now
    BY <1>2, <1>4, <1>6, BlankRecord DEF PageFits, SeenFits
  \* What the record has of what was granted before.
  <1>11. \A nm \in Named : Place(nm) < Place(Current) =>
            told[nm].ask # 0 /\ Holds(record.secret, nm, told[nm].ask, told[nm].value)
    BY <1>6 DEF IInv, KeptBefore
  <1>12. /\ p.name \in {"ComputeClientProof", "VerifyServerProof"} =>
              /\ record.secret.fields # 0 /\ record.secret.a # 0 /\ record.secret.B # 0
              /\ Once("SelectSecurePassword") =>
                    record.secret.fields = told["SelectSecurePassword"].value[1]
              /\ Once("ExchangePublicKeys") =>
                    /\ record.secret.a = told["ExchangePublicKeys"].value[1]
                    /\ record.secret.B = told["ExchangePublicKeys"].ask
         /\ p.name = "SignNonce" /\ Once("SelectKey") =>
              record.secret.key = told["SelectKey"].value[1]
    <2>1. CASE p.name \in {"ComputeClientProof", "VerifyServerProof"}
      <3>1. "SelectSecurePassword" \in Named /\ "ExchangePublicKeys" \in Named
        BY <1>6, <2>1, NamesAre
      <3>2. /\ Place("SelectSecurePassword") < Place(Current)
            /\ Place("ExchangePublicKeys") < Place(Current)
        BY <1>6, <2>1 DEF Place
      <3> QED
        BY <1>11, <2>1, <3>1, <3>2 DEF Holds, Made, Left, Once
    <2>2. CASE p.name = "SignNonce"
      <3>1. "SelectKey" \in Named /\ Place("SelectKey") < Place(Current)
        BY <1>6, <2>2, NamesAre DEF Place
      <3> QED
        BY <1>11, <2>2, <3>1 DEF Holds, Left, Once
    <2> QED
      BY <2>1, <2>2
  <1>13. SeenFits(q)'
    <2>1. RecordFits(record)
      BY <1>7
    <2>2. \A rec : RecordFits(rec)' <=> RecordFits(rec)
      BY <1>1, ConversationStays
    <2>3. RecordFits(q.seen)'
      BY <1>2, <2>1, <2>2
    <2>4. q.seen.messages[q.name] # 0 /\ q.form = q.seen.messages[q.name]
      BY <1>2
    <2>5. p.name = "SignNonce" /\ Once("SelectKey")' => q.key = told["SelectKey"].value[1]
      <3>1. p.name = "SignNonce" /\ Once("SelectKey")' => Once("SelectKey")
        BY <1>1, <1>3, <1>6, <1>9, OncePersists, NamesAre DEF IInv
      <3>2. p.stage # "waiting" /\ p.name = "SignNonce" /\ Once("SelectKey")
               => p.key = told["SelectKey"].value[1]
        BY <1>4 DEF PageFits, SeenFits
      <3> QED
        BY <1>2, <1>12, <3>1, <3>2
    <2> QED
      BY <1>2, <1>8, <1>12, <2>3, <2>4, <2>5 DEF SeenFits
  <1>14. \A i \in DOMAIN p.runs : RunFits(q, p.runs[i])'
    BY <1>1, <1>2, <1>3, <1>4, <1>6, <1>9, <1>10, RunPersists DEF PageFits, IInv
  <1>15. Heard => record.last = Now
    BY <1>6 DEF IInv, Tokens, Records
  <1>16. Heard => \A i \in DOMAIN p.runs : p.runs[i].ask = Now
    BY <1>4, <1>5 DEF Settled, PageFits
  <1>17. ASSUME NEW r, r = Now, submits'[r] # 0
         PROVE  record.last = Now
    BY <1>6, <1>7, <1>9, <1>17 DEF IInv, Records
  <1>18. PageFits(q)' /\ InOrder(q.runs)' /\ Settled(q)' /\ Tokens'
         /\ \A i \in DOMAIN q.runs : q.runs[i].ask = Now /\ q.runs[i].stage = "written" =>
               \E j \in InHand : page[1].runs[j].stage = "written"
                                   /\ page[1].runs[j].value = q.runs[i].value
    <2>1. CASE q.runs = p.runs /\ submits' = submits
      <3>1. InHand = {i \in DOMAIN q.runs : q.runs[i].ask = Now}
        BY <1>3, <2>1 DEF InHand
      <3>2. PageFits(q)'
        BY <1>2, <1>4, <1>8, <1>13, <1>14, <2>1 DEF PageFits
      <3>3. InOrder(q.runs)' /\ Settled(q)'
        BY <1>2, <1>4, <1>8, <1>15, <1>16, <2>1 DEF InOrder, Settled
      <3>4. Tokens'
        BY <1>1, <1>2, <2>1, <3>1, TokensStay
      <3> QED
        BY <1>3, <2>1, <3>1, <3>2, <3>3, <3>4
    <2>2. ASSUME NEW run \in Run,
                 q.runs = Append(p.runs, run), Answered(record.last), run.ask = record.last,
                 run.name = p.name, run.payload = record.messages[p.name],
                 \/ run.name = "ExchangePublicKeys" /\ run.stage = "computing"
                 \/ /\ run.name = "ComputeClientProof" /\ run.stage = "writing"
                    /\ run.value = <<record.secret.fields, record.secret.a, record.secret.B, run.payload>>
          PROVE  PageFits(q)' /\ InOrder(q.runs)' /\ Settled(q)' /\ Tokens'
                 /\ \A i \in DOMAIN q.runs : q.runs[i].ask = Now /\ q.runs[i].stage = "written" =>
                       \E j \in InHand : page[1].runs[j].stage = "written"
                                           /\ page[1].runs[j].value = q.runs[i].value
      <3> DEFINE n == Len(p.runs)
      <3>1. /\ DOMAIN q.runs = 1 .. n + 1 /\ DOMAIN p.runs = 1 .. n /\ n \in Nat
            /\ \A i \in 1 .. n : q.runs[i] = p.runs[i]
            /\ q.runs[n + 1] = run
        BY <1>5, <2>2, RunsGrow
      <3>2. RunFits(q, run)'
        <4>1. run.ask = Now => Answer(run.name, run.value)' \/ run.name = "ExchangePublicKeys"
          <5>1. SUFFICES ASSUME run.ask = Now, run.name = "ComputeClientProof",
                                Once("SelectSecurePassword")', Once("ExchangePublicKeys")'
                         PROVE  run.value = <<told["SelectSecurePassword"].value[1],
                                              told["ExchangePublicKeys"].value[1],
                                              told["ExchangePublicKeys"].ask, Now>>
            BY <1>8, <2>2 DEF Answer
          <5>2. Once("SelectSecurePassword") /\ Once("ExchangePublicKeys")
            <6>1. "SelectSecurePassword" \in AllNames /\ "ExchangePublicKeys" \in AllNames
              BY <1>6, <2>2, <5>1, NamesAre
            <6> QED
              BY <1>1, <1>3, <1>9, <5>1, <6>1, OncePersists DEF IInv
          <5> QED
            BY <1>7, <1>12, <2>2, <5>1, <5>2
        <4>2. run.stage # "computing" => ValueFits(run)'
          BY <1>8, <2>2, <4>1 DEF ValueFits
        <4> QED
          BY <1>2, <1>7, <1>8, <2>2, <4>2 DEF RunFits
      <3>3. \A i \in DOMAIN q.runs : RunFits(q, q.runs[i])'
        <4> TAKE i \in DOMAIN q.runs
        <4>1. CASE i \in 1 .. n
          BY <1>14, <3>1, <4>1
        <4>2. CASE i = n + 1
          BY <3>1, <3>2, <4>2
        <4> QED
          BY <3>1, <4>1, <4>2
      <3>4. PageFits(q)'
        <4>1. p.name \notin Entered
          BY <2>2 DEF Entered
        <4> QED
          BY <1>2, <1>4, <1>8, <1>13, <3>3, <4>1 DEF PageFits
      <3>5. ASSUME NEW i \in 1 .. n
            PROVE  /\ p.runs[i].ask = Now => run.ask = Now
                   /\ Rank(p.runs[i]) >= Rank(run)
        <4>1. RunFits(p, p.runs[i])
          BY <1>4, <3>1 DEF PageFits
        <4>2. p.runs[i].ask = Now => run.ask = Now
          BY <1>2, <1>10, <2>2, <4>1 DEF RunFits
        <4>3. p.runs[i].stage \in {"computing", "writing", "written"}
          BY <1>5, <3>1 DEF Run
        <4>4. /\ run.stage \in {"computing", "writing"}
              /\ run.stage = "writing" => p.runs[i].stage # "computing"
          <5>1. p.runs[i].stage = "computing" => p.name = "ExchangePublicKeys"
            BY <4>1 DEF RunFits
          <5> QED
            BY <2>2, <5>1
        <4> QED
          BY <4>2, <4>3, <4>4 DEF Rank
      <3>6. InOrder(q.runs)'
        <4> SUFFICES ASSUME NEW i \in DOMAIN q.runs, NEW j \in DOMAIN q.runs, i <= j
                     PROVE  /\ q.runs[i].ask = Now => q.runs[j].ask = Now
                            /\ Rank(q.runs[i]) >= Rank(q.runs[j])
          BY <1>8 DEF InOrder, Rank
        <4>1. CASE j \in 1 .. n
          <5>1. i \in 1 .. n
            BY <3>1, <4>1
          <5> QED
            BY <1>4, <3>1, <4>1, <5>1 DEF InOrder
        <4>2. CASE j = n + 1 /\ i \in 1 .. n
          BY <3>1, <3>5, <4>2
        <4>3. CASE j = n + 1 /\ i = n + 1
          <5>1. run.stage \in {"computing", "writing", "written"}
            BY DEF Run
          <5>2. Rank(run) >= Rank(run)
            BY <5>1 DEF Rank
          <5> QED
            BY <3>1, <4>3, <5>2
        <4> QED
          BY <3>1, <4>1, <4>2, <4>3
      <3>7. Settled(q)'
        <4> SUFFICES ASSUME Heard
                     PROVE  q.seen.last = Now /\ \A i \in DOMAIN q.runs : q.runs[i].ask = Now
          BY <1>8 DEF Settled
        <4> QED
          BY <1>2, <1>15, <1>16, <2>2, <3>1
      <3>8. Tokens'
        BY <1>1, <1>2, <1>3, <1>7, <2>2, TokensGrow
      <3>9. ASSUME NEW i \in DOMAIN q.runs, q.runs[i].ask = Now, q.runs[i].stage = "written"
            PROVE  \E j \in InHand : page[1].runs[j].stage = "written"
                                       /\ page[1].runs[j].value = q.runs[i].value
        <4>1. i # n + 1
          BY <2>2, <3>1, <3>9
        <4>2. i \in DOMAIN p.runs /\ q.runs[i] = p.runs[i]
          BY <3>1, <4>1
        <4>3. i \in InHand
          BY <1>3, <3>9, <4>2 DEF InHand
        <4> QED
          BY <1>3, <3>9, <4>2, <4>3
      <3> QED
        BY <3>4, <3>6, <3>7, <3>8, <3>9
    <2> QED
      BY <1>2, <2>1, <2>2
  <1>19. Sound'
    BY <1>1, <1>2, <1>6, <1>8, <1>9, <1>17, <1>18, PageMoves DEF IInv, Records
  <1>20. TypeOK'
    BY <1>1, <1>2, <1>3, <1>9, PageTypes DEF TypeOK
  <1> QED
    BY <1>19, <1>20 DEF IInv, Sound

-----------------------------------------------------------------------------
(* Runs get on, and submits are answers                                    *)

\* Where a run was in a list that has lost its i-th.
Before(i, j) == IF j < i THEN j ELSE j + 1

LEMMA RunsDropped ==
  ASSUME NEW s \in Seq(Run), NEW i \in DOMAIN s, NEW t, t = RemoveAt(s, i)
  PROVE  /\ t \in Seq(Run)
         /\ \A j \in DOMAIN t : Before(i, j) \in DOMAIN s /\ Before(i, j) # i /\ t[j] = s[Before(i, j)]
         /\ \A j \in DOMAIN t : \A k \in DOMAIN t : Before(i, j) = Before(i, k) => j = k
         /\ InOrder(s) => InOrder(t)
  <1>1. /\ t \in Seq(Run) /\ DOMAIN t = 1 .. Len(s) - 1 /\ Len(s) \in Nat /\ DOMAIN s = 1 .. Len(s)
        /\ \A j \in 1 .. Len(s) - 1 : t[j] = IF j < i THEN s[j] ELSE s[j + 1]
    BY RunsShrink
  <1>2. \A j \in DOMAIN t : Before(i, j) \in DOMAIN s /\ Before(i, j) # i /\ t[j] = s[Before(i, j)]
    BY <1>1 DEF Before
  <1>3. \A j \in DOMAIN t : \A k \in DOMAIN t :
           /\ Before(i, j) = Before(i, k) => j = k
           /\ j <= k => Before(i, j) <= Before(i, k)
    BY <1>1 DEF Before
  <1>4. InOrder(s) => InOrder(t)
    BY <1>2, <1>3 DEF InOrder
  <1>5. \A j \in DOMAIN t : \A k \in DOMAIN t : Before(i, j) = Before(i, k) => j = k
    BY <1>3
  <1>6. t \in Seq(Run)
    BY <1>1
  <1> QED
    BY <1>2, <1>4, <1>5, <1>6

\* A page that knows what it knew.
LEMMA PageKeeps ==
  ASSUME IInv, UNCHANGED <<web, url>>, SubmitsGrow, record'.last = record.last,
         NEW p, NEW q, PageFits(p), p.stage # "waiting", q.stage # "waiting",
         q.name = p.name, q.seen = p.seen, q.form = p.form, q.key = p.key, q.verdict = p.verdict,
         p.name \in Entered => q.runs = <<>>,
         \A i \in DOMAIN q.runs : RunFits(q, q.runs[i])'
  PROVE  PageFits(q)'
  <1>1. asks' = asks /\ Now' = Now /\ Current' = Current /\ FitsAsked' = FitsAsked /\ url' = url
    BY ConversationStays
  <1>2. p.name \in Named /\ asks # <<>>
    BY AsksInDomain DEF PageFits, IInv, Conversation
  <1>3. SeenFits(q)'
    BY <1>2, SeenPersists DEF PageFits, IInv
  <1> QED
    BY <1>1, <1>2, <1>3 DEF PageFits

\* What is known of the page that has runs.
LEMMA PageAtHand ==
  ASSUME IInv, page # <<>>
  PROVE  \E p \in Page :
            /\ page = <<p>> /\ page[1] = p /\ PageFits(p) /\ InOrder(p.runs) /\ Settled(p)
            /\ p.runs \in Seq(Run) /\ DOMAIN p.runs = 1 .. Len(p.runs) /\ Len(p.runs) \in Nat
            /\ \A i \in DOMAIN p.runs : p.runs[i] \in Run
            /\ asks # <<>> /\ Now \in DOMAIN asks /\ Now \in Asks /\ Now # 0
            /\ p.name = Current /\ Current = asks[Now].name /\ p.name \in Named /\ p.name \in AllNames
            /\ InHand = {i \in DOMAIN p.runs : p.runs[i].ask = Now}
            /\ DOMAIN p.runs # {} => p.stage # "waiting" /\ p.name \notin Entered
  <1>1. TypeOK
    BY DEF IInv
  <1>2. PICK p \in Page : /\ page = <<p>> /\ page[1] = p
            /\ p.runs \in Seq(Run) /\ DOMAIN p.runs = 1 .. Len(p.runs) /\ Len(p.runs) \in Nat
            /\ \A i \in DOMAIN p.runs : p.runs[i] \in Run
    BY <1>1, PageIs
  <1>3. PageFits(p) /\ InOrder(p.runs) /\ Settled(p)
    BY <1>2 DEF IInv, PageSound
  <1>4. /\ asks # <<>> /\ Now \in DOMAIN asks /\ Now \in Asks /\ Now # 0
        /\ p.name = Current /\ Current = asks[Now].name /\ p.name \in Named /\ p.name \in AllNames
    BY <1>1, <1>3, AsksInDomain DEF PageFits, IInv, Conversation
  <1>5. InHand = {i \in DOMAIN p.runs : p.runs[i].ask = Now}
    BY <1>2 DEF InHand
  <1>6. DOMAIN p.runs # {} => p.runs # <<>>
    OBVIOUS
  <1>7. DOMAIN p.runs # {} => p.stage # "waiting" /\ p.name \notin Entered
    BY <1>3, <1>6 DEF PageFits
  <1> QED
    BY <1>2, <1>3, <1>4, <1>5, <1>7

LEMMA GenerateInv ==
  ASSUME IInv, page # <<>>, Generate
  PROVE  IInv'
  <1>1. UNCHANGED <<web, record, handler, url, assoc, mail, hidden, submits, lost, troubles>>
    BY DEF Generate, letters, history
  <1>2. PICK p \in Page :
            /\ page = <<p>> /\ page[1] = p /\ PageFits(p) /\ InOrder(p.runs) /\ Settled(p)
            /\ p.runs \in Seq(Run) /\ DOMAIN p.runs = 1 .. Len(p.runs) /\ Len(p.runs) \in Nat
            /\ \A i \in DOMAIN p.runs : p.runs[i] \in Run
            /\ asks # <<>> /\ Now \in DOMAIN asks /\ Now \in Asks /\ Now # 0
            /\ p.name = Current /\ Current = asks[Now].name /\ p.name \in Named /\ p.name \in AllNames
            /\ InHand = {i \in DOMAIN p.runs : p.runs[i].ask = Now}
            /\ DOMAIN p.runs # {} => p.stage # "waiting" /\ p.name \notin Entered
    BY PageAtHand
  <1>3. PICK i \in DOMAIN p.runs, key \in NewKeys :
            /\ p.runs[i].stage = "computing"
            /\ \A j \in 1 .. i - 1 : p.runs[j].stage # "computing"
            /\ page' = <<[p EXCEPT
                !.ran = TRUE,
                !.runs = IF p.seen.secret.fields = 0 THEN RemoveAt(@, i)
                         ELSE [@ EXCEPT ![i].stage = "writing", ![i].value = <<key>>]]>>
    <2>1. page[1] = p
      BY <1>2
    <2>2. PICK i \in DOMAIN page[1].runs :
            /\ page[1].runs[i].stage = "computing"
            /\ \A j \in 1 .. i - 1 : page[1].runs[j].stage # "computing"
            /\ \E key \in NewKeys :
                page' = <<[page[1] EXCEPT
                    !.ran = TRUE,
                    !.runs = IF page[1].seen.secret.fields = 0 THEN RemoveAt(@, i)
                             ELSE [@ EXCEPT ![i].stage = "writing", ![i].value = <<key>>]]>>
      BY DEF Generate
    <2> QED
      BY <2>1, <2>2, Zenon
  <1>4. key \in Nat \ {0}
    <2>1. MaxKeys \in Nat
      BY AsksAre DEF MaxKeys
    <2>2. key \in 1 .. MaxKeys
      BY <1>3 DEF NewKeys, Unused
    <2> QED
      BY <2>1, <2>2
  <1> DEFINE run == [p.runs[i] EXCEPT !.stage = "writing", !.value = <<key>>]
             s == IF p.seen.secret.fields = 0 THEN RemoveAt(p.runs, i) ELSE [p.runs EXCEPT ![i] = run]
  <1>5. /\ run \in Run /\ run.stage = "writing" /\ run.value[1] = key
        /\ run.ask = p.runs[i].ask /\ run.name = p.runs[i].name /\ run.payload = p.runs[i].payload
    <2>1. p.runs[i] \in Run /\ <<key>> \in Seq(Nat)
      BY <1>2, <1>3, <1>4
    <2> QED
      BY <2>1 DEF Run
  <1>6. page' = <<[p EXCEPT !.ran = TRUE, !.runs = s]>>
    <2>1. [p.runs EXCEPT ![i].stage = "writing", ![i].value = <<key>>] = [p.runs EXCEPT ![i] = run]
      BY <1>2
    <2> HIDE DEF run
    <2> QED
      BY <1>3, <2>1
  <1>7. i \in 1 .. Len(p.runs)
    BY <1>2, <1>3
  <1>8. s \in Seq(Run)
    <2>1. RemoveAt(p.runs, i) \in Seq(Run)
      BY <1>2, <1>3, RunsShrink
    <2>2. [p.runs EXCEPT ![i] = run] \in Seq(Run)
      <3> HIDE DEF run
      <3> QED
        BY <1>2, <1>3, <1>5, RunGetsOn
    <2> QED
      BY <2>1, <2>2
  <1>9. PICK q \in Page :
            /\ page' = <<q>> /\ q.name = p.name /\ q.stage = p.stage /\ q.seen = p.seen
            /\ q.form = p.form /\ q.key = p.key /\ q.verdict = p.verdict /\ q.runs = s
    <2> DEFINE o == [p EXCEPT !.ran = TRUE, !.runs = s]
    <2> HIDE DEF s
    <2>1. o \in Page
      BY <1>2, <1>8 DEF Page
    <2>2. /\ o.name = p.name /\ o.stage = p.stage /\ o.seen = p.seen
          /\ o.form = p.form /\ o.key = p.key /\ o.verdict = p.verdict /\ o.runs = s
      BY DEF Page
    <2>3. page' = <<o>>
      BY <1>6
    <2> HIDE DEF o
    <2> QED
      BY <2>1, <2>2, <2>3
  <1> HIDE DEF run, s
  <1>10. SubmitsGrow
    BY <1>1, SubmitsStay DEF IInv
  <1>11. Now' = Now /\ FitsAsked' = FitsAsked /\ asks' = asks /\ Heard' = Heard
    BY <1>1, ConversationStays
  <1>12. \A j \in DOMAIN p.runs : RunFits(q, p.runs[j])' /\ RunFits(p, p.runs[j])
    <2>1. \A j \in DOMAIN p.runs : RunFits(p, p.runs[j])
      BY <1>2 DEF PageFits
    <2> QED
      BY <1>1, <1>2, <1>9, <1>10, <2>1, RunPersists DEF IInv
  <1>13. p.runs[i].name = "ExchangePublicKeys"
    BY <1>3, <1>12 DEF RunFits
  <1>14. p.stage # "waiting" /\ p.name \notin Entered
    BY <1>2, <1>3
  <1>15. CASE s = RemoveAt(p.runs, i)
    <2>1. /\ \A j \in DOMAIN s : /\ Before(i, j) \in DOMAIN p.runs /\ Before(i, j) # i
                                /\ s[j] = p.runs[Before(i, j)]
          /\ \A j \in DOMAIN s : \A k \in DOMAIN s : Before(i, j) = Before(i, k) => j = k
          /\ InOrder(s)
      <3>1. p.runs \in Seq(Run) /\ InOrder(p.runs) /\ i \in DOMAIN p.runs
        BY <1>2, <1>3
      <3> QED
        BY <1>15, <3>1, RunsDropped
    <2>2. \A j \in DOMAIN q.runs : RunFits(q, q.runs[j])'
      BY <1>9, <1>12, <2>1
    <2>3. PageFits(q)'
      BY <1>1, <1>2, <1>9, <1>10, <1>14, <2>2, PageKeeps
    <2>4. InOrder(q.runs)'
      <3>1. InOrder(q.runs)
        BY <1>9, <2>1
      <3> QED
        BY <1>11, <3>1 DEF InOrder, Rank
    <2>5. Settled(q)'
      BY <1>2, <1>9, <1>11, <1>14, <2>1 DEF Settled
    <2>6. Tokens'
      <3>1. \A j, k \in DOMAIN q.runs : q.runs[j].ask = Now /\ q.runs[k].ask = Now =>
               \E a, b \in InHand : a = b => j = k
        <4> SUFFICES ASSUME NEW j \in DOMAIN s, NEW k \in DOMAIN s, s[j].ask = Now, s[k].ask = Now
                     PROVE  \E a, b \in InHand : a = b => j = k
          BY <1>9
        <4>1. /\ Before(i, j) \in InHand /\ Before(i, k) \in InHand
              /\ Before(i, j) = Before(i, k) => j = k
          BY <1>2, <2>1
        <4> QED
          BY <4>1
      <3> QED
        BY <1>1, <1>9, <3>1, TokensStay
    <2>7. \A j \in DOMAIN q.runs : q.runs[j].ask = Now /\ q.runs[j].stage = "written" =>
            \E a \in InHand : page[1].runs[a].stage = "written"
                                /\ page[1].runs[a].value = q.runs[j].value
      BY <1>2, <1>9, <2>1
    <2>8. Sound'
      BY <1>1, <1>2, <1>9, <1>10, <2>3, <2>4, <2>5, <2>6, <2>7, PageMoves DEF IInv, Records
    <2> QED
      BY <1>1, <1>9, <1>10, <2>8, PageTypes DEF IInv, Sound, TypeOK
  <1>16. CASE s = [p.runs EXCEPT ![i] = run]
    <2>1. /\ DOMAIN s = DOMAIN p.runs /\ s[i] = run
          /\ \A j \in DOMAIN p.runs : j # i => s[j] = p.runs[j]
      BY <1>2, <1>3, <1>5, <1>16, RunGetsOn
    <2>2. RunFits(q, run)'
      <3>1. RunFits(q, p.runs[i])'
        BY <1>3, <1>12
      <3>2. ValueFits(run)'
        BY <1>4, <1>5, <1>13 DEF ValueFits, Answer
      <3> QED
        BY <1>5, <3>1, <3>2 DEF RunFits
    <2>3. \A j \in DOMAIN q.runs : RunFits(q, q.runs[j])'
      BY <1>9, <1>12, <2>1, <2>2
    <2>4. PageFits(q)'
      BY <1>1, <1>2, <1>9, <1>10, <1>14, <2>3, PageKeeps
    <2>5. \A j \in DOMAIN p.runs : p.runs[j].stage \in {"computing", "writing", "written"}
      BY <1>2 DEF Run
    <2>6. InOrder(s)
      <3> SUFFICES ASSUME NEW j \in DOMAIN p.runs, NEW k \in DOMAIN p.runs, j <= k
                   PROVE  /\ s[j].ask = Now => s[k].ask = Now
                          /\ Rank(s[j]) >= Rank(s[k])
        BY <2>1 DEF InOrder
      <3>1. (p.runs[j].ask = Now => p.runs[k].ask = Now) /\ Rank(p.runs[j]) >= Rank(p.runs[k])
        BY <1>2 DEF InOrder
      <3>2. s[j].ask = p.runs[j].ask /\ s[k].ask = p.runs[k].ask
        BY <1>5, <2>1
      <3>3. CASE j # i /\ k # i
        BY <2>1, <3>1, <3>2, <3>3
      <3>4. CASE k = i /\ j = i
        BY <1>5, <2>1, <3>2, <3>4 DEF Rank
      <3>5. CASE k = i /\ j # i
        <4>1. j \in 1 .. i - 1
          BY <1>2, <1>7, <3>5
        <4>2. p.runs[j].stage # "computing"
          BY <1>3, <4>1
        <4> QED
          BY <1>5, <2>1, <2>5, <3>1, <3>2, <3>5, <4>2 DEF Rank
      <3>6. CASE k # i /\ j = i
        <4>1. p.runs[k].stage = "computing"
          BY <1>3, <2>5, <3>1, <3>6 DEF Rank
        <4> QED
          BY <1>3, <1>5, <2>1, <3>1, <3>2, <3>6, <4>1 DEF Rank
      <3> QED
        BY <3>3, <3>4, <3>5, <3>6
    <2>12. InOrder(q.runs)'
      BY <1>9, <1>11, <2>6 DEF InOrder, Rank
    <2>7. \A j \in DOMAIN p.runs : q.runs[j].ask = p.runs[j].ask
      BY <1>5, <1>9, <2>1
    <2>8. Settled(q)'
      BY <1>2, <1>9, <1>11, <1>14, <2>1, <2>7 DEF Settled
    <2>9. Tokens'
      <3>1. InHand = {j \in DOMAIN q.runs : q.runs[j].ask = Now}
        BY <1>2, <1>9, <2>1, <2>7
      <3> QED
        BY <1>1, <1>9, <3>1, TokensStay
    <2>10. \A j \in DOMAIN q.runs : q.runs[j].ask = Now /\ q.runs[j].stage = "written" =>
            \E a \in InHand : page[1].runs[a].stage = "written"
                                /\ page[1].runs[a].value = q.runs[j].value
      <3> SUFFICES ASSUME NEW j \in DOMAIN q.runs, q.runs[j].ask = Now, q.runs[j].stage = "written"
                   PROVE  \E a \in InHand : page[1].runs[a].stage = "written"
                                /\ page[1].runs[a].value = q.runs[j].value
        OBVIOUS
      <3>1. j # i /\ q.runs[j] = p.runs[j] /\ j \in DOMAIN p.runs
        BY <1>5, <1>9, <2>1
      <3>2. j \in InHand
        BY <1>2, <3>1
      <3> QED
        BY <1>2, <3>1, <3>2
    <2>11. Sound'
      BY <1>1, <1>2, <1>9, <1>10, <2>4, <2>8, <2>9, <2>10, <2>12, PageMoves DEF IInv, Records
    <2> QED
      BY <1>1, <1>9, <1>10, <2>11, PageTypes DEF IInv, Sound, TypeOK
  <1> QED
    BY <1>15, <1>16 DEF s

LEMMA SendInv ==
  ASSUME IInv, page # <<>>, Send
  PROVE  IInv'
  <1>1. UNCHANGED <<web, record, handler, url, assoc, hidden, submits, lost, troubles>>
    BY DEF Send, history
  <1>2. PICK p \in Page :
            /\ page = <<p>> /\ page[1] = p /\ PageFits(p) /\ InOrder(p.runs) /\ Settled(p)
            /\ p.runs \in Seq(Run) /\ DOMAIN p.runs = 1 .. Len(p.runs) /\ Len(p.runs) \in Nat
            /\ \A i \in DOMAIN p.runs : p.runs[i] \in Run
            /\ asks # <<>> /\ Now \in DOMAIN asks /\ Now \in Asks /\ Now # 0
            /\ p.name = Current /\ Current = asks[Now].name /\ p.name \in Named /\ p.name \in AllNames
            /\ InHand = {i \in DOMAIN p.runs : p.runs[i].ask = Now}
            /\ DOMAIN p.runs # {} => p.stage # "waiting" /\ p.name \notin Entered
    BY PageAtHand
  <1>3. PICK i \in DOMAIN p.runs :
            /\ p.runs[i].stage = "written"
            /\ \A j \in 1 .. i - 1 : p.runs[j].stage # "written"
            /\ mail' = mail \union {[ask |-> p.runs[i].ask, how |-> "resolve", value |-> p.runs[i].value]}
            /\ page' = <<[p EXCEPT !.sent = TRUE, !.runs = RemoveAt(@, i)]>>
    <2>1. page[1] = p
      BY <1>2
    <2>2. PICK i \in DOMAIN page[1].runs :
            /\ page[1].runs[i].stage = "written"
            /\ \A j \in 1 .. i - 1 : page[1].runs[j].stage # "written"
            /\ mail' = mail \union {[ask |-> page[1].runs[i].ask, how |-> "resolve",
                                     value |-> page[1].runs[i].value]}
            /\ page' = <<[page[1] EXCEPT !.sent = TRUE, !.runs = RemoveAt(@, i)]>>
      BY DEF Send, MaySend
    <2> QED
      BY <2>1, <2>2, Zenon
  <1> DEFINE run == p.runs[i]
  <1>4. PICK l : /\ l = [ask |-> run.ask, how |-> "resolve", value |-> run.value]
                 /\ mail' = mail \union {l} /\ l \in Letter
                 /\ l.ask = run.ask /\ l.how = "resolve" /\ l.value = run.value
    <2> DEFINE m == [ask |-> run.ask, how |-> "resolve", value |-> run.value]
    <2>1. m \in Letter
      <3>1. run \in Run
        BY <1>2, <1>3
      <3> QED
        BY <3>1 DEF Letter, Run
    <2>2. mail' = mail \union {m} /\ m.ask = run.ask /\ m.how = "resolve" /\ m.value = run.value
      BY <1>3
    <2> QED
      BY <2>1, <2>2
  <1>5. PICK q \in Page :
            /\ page' = <<q>> /\ q.name = p.name /\ q.stage = p.stage /\ q.seen = p.seen
            /\ q.form = p.form /\ q.key = p.key /\ q.verdict = p.verdict /\ q.runs = RemoveAt(p.runs, i)
    <2> DEFINE o == [p EXCEPT !.sent = TRUE, !.runs = RemoveAt(p.runs, i)]
    <2>1. RemoveAt(p.runs, i) \in Seq(Run)
      BY <1>2, <1>3, RunsShrink
    <2>2. o \in Page
      BY <1>2, <2>1 DEF Page
    <2>3. /\ o.name = p.name /\ o.stage = p.stage /\ o.seen = p.seen
          /\ o.form = p.form /\ o.key = p.key /\ o.verdict = p.verdict /\ o.runs = RemoveAt(p.runs, i)
      BY DEF Page
    <2>4. page' = <<o>>
      BY <1>3
    <2> HIDE DEF o
    <2> QED
      BY <2>2, <2>3, <2>4
  <1>6. SubmitsGrow
    BY <1>1, SubmitsStay DEF IInv
  <1>7. /\ Now' = Now /\ FitsAsked' = FitsAsked /\ asks' = asks /\ reply' = reply
        /\ \A m : IsGrant(m)' <=> IsGrant(m)
    BY <1>1, ConversationStays
  <1>8. \A j \in DOMAIN p.runs : RunFits(q, p.runs[j])' /\ RunFits(p, p.runs[j])
    <2>1. \A j \in DOMAIN p.runs : RunFits(p, p.runs[j])
      BY <1>2 DEF PageFits
    <2> QED
      BY <1>1, <1>2, <1>5, <1>6, <2>1, RunPersists DEF IInv
  <1>9. p.stage # "waiting" /\ p.name \notin Entered
    BY <1>2, <1>3
  <1>10. /\ \A j \in DOMAIN q.runs : /\ Before(i, j) \in DOMAIN p.runs /\ Before(i, j) # i
                                     /\ q.runs[j] = p.runs[Before(i, j)]
         /\ \A j \in DOMAIN q.runs : \A k \in DOMAIN q.runs : Before(i, j) = Before(i, k) => j = k
         /\ InOrder(q.runs)
    <2>1. p.runs \in Seq(Run) /\ InOrder(p.runs) /\ i \in DOMAIN p.runs
      BY <1>2, <1>3
    <2> QED
      BY <1>5, <2>1, RunsDropped
  <1>11. PageFits(q)'
    <2>1. \A j \in DOMAIN q.runs : RunFits(q, q.runs[j])'
      BY <1>8, <1>10
    <2> QED
      BY <1>1, <1>2, <1>5, <1>6, <1>9, <2>1, PageKeeps
  <1>12. InOrder(q.runs)'
    <2>1. InOrder(q.runs)
      BY <1>10
    <2> QED
      BY <1>7, <2>1 DEF InOrder, Rank
  \* The run is the first.
  <1>13. \A j \in DOMAIN p.runs : i <= j
    <2> SUFFICES ASSUME NEW j \in DOMAIN p.runs, ~ (i <= j)
                 PROVE  FALSE
      OBVIOUS
    <2>1. j <= i /\ j \in 1 .. i - 1
      BY <1>2
    <2>2. Rank(p.runs[j]) >= Rank(p.runs[i])
      BY <1>2, <2>1 DEF InOrder
    <2>3. p.runs[j].stage \in {"computing", "writing", "written"}
      BY <1>2 DEF Run
    <2> QED
      BY <1>3, <2>1, <2>2, <2>3 DEF Rank
  <1>14. run.ask = Now => p.seen.last = Now /\ \A j \in DOMAIN p.runs : p.runs[j].ask = Now
    <2>1. run.ask = Now => p.seen.last = Now
      BY <1>8 DEF RunFits
    <2> QED
      BY <1>2, <1>13, <2>1 DEF InOrder
  <1>15. Heard' => Heard \/ run.ask = Now
    BY <1>4, <1>7 DEF Heard, IsGrant
  <1>16. Settled(q)'
    <2>1. Heard' => p.seen.last = Now /\ \A j \in DOMAIN p.runs : p.runs[j].ask = Now
      BY <1>2, <1>9, <1>14, <1>15 DEF Settled
    <2> QED
      BY <1>5, <1>7, <1>10, <2>1 DEF Settled
  <1>17. run.ask = Now => i \in InHand
    BY <1>2
  <1>18. InHand' = {j \in DOMAIN q.runs : q.runs[j].ask = Now}
    BY <1>5, <1>7, PageBecomes DEF InHand
  <1>19. \A j \in InHand' : Before(i, j) \in InHand /\ Before(i, j) # i
    BY <1>2, <1>10, <1>18
  <1> HIDE DEF run
  <1>20. Tokens'
    <2>1. submits' = submits /\ Tokens
      BY <1>1 DEF IInv
    <2>2. CASE run.ask = Now
      <3>1. submits[Now] # 0
        BY <1>2, <1>17, <2>1, <2>2 DEF Tokens
      <3> SUFFICES ASSUME submits[Now] = 1
                   PROVE  /\ \A j, k \in InHand' : j = k
                          /\ InHand' # {} => ~ Heard'
                          /\ \A m, o \in mail' : IsGrant(m) /\ IsGrant(o) => m = o
                          /\ \A m \in mail' : IsGrant(m) => reply[Now] # "resolve"
        BY <1>7, <2>1, <3>1 DEF Tokens
      <3>2. (\A j, k \in InHand : j = k) /\ ~ Heard
        BY <1>2, <1>17, <2>1, <2>2 DEF Tokens
      <3>3. InHand' = {}
        BY <1>17, <1>19, <2>2, <3>2
      <3>4. reply[Now] # "resolve" /\ \A m \in mail : ~ IsGrant(m)
        BY <3>2 DEF Heard
      <3> QED
        BY <1>4, <3>3, <3>4
    <2>3. CASE run.ask # Now
      <3>1. \A m \in mail' : IsGrant(m) => m \in mail
        BY <1>4, <2>3 DEF IsGrant
      <3>2. Heard' <=> Heard
        BY <1>4, <1>7, <3>1 DEF Heard
      <3>3. InHand = {} => InHand' = {}
        BY <1>19
      <3>4. (\A j, k \in InHand : j = k) => \A j, k \in InHand' : j = k
        BY <1>10, <1>18, <1>19
      <3> QED
        BY <1>7, <2>1, <3>1, <3>2, <3>3, <3>4 DEF Tokens
    <2> QED
      BY <2>2, <2>3
  <1>21. ASSUME NEW m \in mail' \ mail, IsGrant(m)
         PROVE  Holds(record.secret, Current, Now, m.value)' /\ Answer(Current, m.value)
    <2>1. m = l /\ run.ask = Now
      BY <1>4, <1>21 DEF IsGrant
    <2>2. i \in InHand
      BY <1>17, <2>1
    <2>3. Holds(record.secret, Current, Now, run.value) /\ submits[Now] # 0
      <3>1. KeptNow /\ Tokens
        BY DEF IInv
      <3>2. Holds(record.secret, Current, Now, page[1].runs[i].value)
        BY <1>2, <1>3, <2>2, <3>1 DEF KeptNow
      <3>3. submits[Now] # 0
        BY <1>2, <2>2, <3>1 DEF Tokens
      <3> QED
        BY <1>2, <3>2, <3>3 DEF run
    <2>4. Holds(record.secret, Current, Now, run.value)'
      <3>1. Current' = Current /\ record' = record /\ submits' = submits
        BY <1>1, ConversationStays
      <3>2. run' = run
        BY DEF run
      <3> QED
        BY <1>7, <2>3, <3>1, <3>2 DEF Holds, Made, Left
    <2>5. Answer(Current, run.value)
      <3>1. RunFits(p, p.runs[i]) /\ p.runs[i].name = Current
        BY <1>2, <1>8 DEF RunFits
      <3>2. ValueFits(p.runs[i])
        BY <1>3, <3>1 DEF RunFits
      <3> QED
        BY <2>1, <3>1, <3>2 DEF ValueFits, run
    <2>6. l.value = run.value /\ run' = run
      BY <1>4 DEF run
    <2> QED
      BY <2>1, <2>4, <2>5, <2>6
  <1>22. \A j \in DOMAIN q.runs : q.runs[j].ask = Now /\ q.runs[j].stage = "written" =>
            \E a \in InHand : page[1].runs[a].stage = "written"
                                /\ page[1].runs[a].value = q.runs[j].value
    <2> SUFFICES ASSUME NEW j \in DOMAIN q.runs, q.runs[j].ask = Now, q.runs[j].stage = "written"
                 PROVE  \E a \in InHand : page[1].runs[a].stage = "written"
                                /\ page[1].runs[a].value = q.runs[j].value
      OBVIOUS
    <2>1. Before(i, j) \in DOMAIN p.runs /\ q.runs[j] = p.runs[Before(i, j)]
      BY <1>10
    <2>2. Before(i, j) \in InHand
      BY <1>2, <2>1
    <2> QED
      BY <1>2, <2>1, <2>2
  <1>23. /\ mail \subseteq mail' /\ mail' \subseteq Letter /\ \A m \in mail' : m.ask \in DOMAIN asks
         /\ record.last # Now => submits'[Now] = 0
    <2>1. run.ask \in DOMAIN asks
      BY <1>8 DEF RunFits, run
    <2> QED
      BY <1>1, <1>2, <1>4, <2>1 DEF IInv, Records, TypeOK
  <1>24. Sound'
    BY <1>1, <1>2, <1>5, <1>6, <1>11, <1>12, <1>16, <1>20, <1>21, <1>22, <1>23, PageMoves
  <1> QED
    BY <1>1, <1>5, <1>6, <1>23, <1>24, PageTypes DEF IInv, Sound

\* The account has a value.
LEMMA AccountHasValue == OfAccount \in Inputs
  <1>1. IsWellFoundedOn(OpToRel(<, Nat), Nat)
    BY NatLessThanWellFounded
  <1>2. Inputs \subseteq Nat /\ Inputs # {}
    BY ResponderAssumption
  <1>3. PICK v \in Inputs : \A w \in Inputs : ~ (<<w, v>> \in OpToRel(<, Nat))
    BY <1>1, <1>2, WFMin
  <1>4. \A w \in Inputs : ~ (w < v)
    BY <1>2, <1>3 DEF OpToRel
  <1>5. \A w \in Inputs : v <= w
    BY <1>2, <1>4
  <1> QED
    BY <1>5 DEF OfAccount

\* What a form submits.
LEMMA SubmittedValues ==
  ASSUME NEW p \in Page, NEW value \in Values(p), p.name \in Named, TypeOK
  PROVE  /\ value \in Seq(Nat)
         /\ p.name \in {"SelectSecurePassword", "SelectKey"} => value[1] \in Inputs
         /\ p.name = "SignNonce" => value = <<p.key, p.form>>
         /\ p.name = "VerifyServerProof" /\ value[1] = 1 => p.verdict = "yes"
         /\ p.name \notin {"ExchangePublicKeys", "ComputeClientProof"}
  <1>1. p.name \in {"GetIdentityFields", "GetPasswordFields", "GetOtp", "SelectKey", "SignNonce",
                    "SelectSecurePassword", "ExchangePublicKeys", "ComputeClientProof",
                    "VerifyServerProof"}
    BY NamesAre DEF TypeOK
  <1>2. \A v \in Nat : <<v>> \in Seq(Nat) /\ <<v>>[1] = v
    OBVIOUS
  <1>3. Inputs \subseteq Nat /\ Asks \subseteq Nat /\ 0 \in Nat
    BY AsksAre
  <1>4. ASSUME NEW v \in Edited(p) \union {<<OfAccount>>}
        PROVE  v \in Seq(Nat) /\ v[1] \in Inputs
    BY <1>2, <1>3, AccountHasValue DEF Edited
  <1>5. CASE p.name = "VerifyServerProof"
    <2>1. value = <<IF p.verdict = "yes" THEN 1 ELSE 0>>
      BY <1>5 DEF Values, Verdict
    <2>2. value \in Seq(Nat) /\ value[1] = IF p.verdict = "yes" THEN 1 ELSE 0
      BY <2>1, <1>2
    <2> QED
      BY <1>5, <2>2
  <1>6. CASE p.name # "VerifyServerProof"
    <2>1. p.name \notin Automatic
      BY <1>6 DEF Values
    <2>2. CASE p.name \in {"GetIdentityFields", "GetPasswordFields", "GetOtp", "SelectSecurePassword",
                           "SelectKey"}
      <3>1. value \in Edited(p) \union {<<OfAccount>>}
        BY <2>1, <2>2 DEF Values, FieldListForm, GetOtp, SelectSecurePassword, SelectKey
      <3> QED
        BY <1>4, <2>2, <3>1
    <2>3. CASE p.name = "SignNonce"
      <3>1. value = <<p.key, p.form>>
        BY <2>1, <2>3 DEF Values, SignNonce
      <3>2. p.key \in Nat /\ p.form \in Nat
        <4>1. p.key \in Inputs \union {0} /\ p.form \in Asks \union {0}
          BY DEF Page
        <4> QED
          BY <1>3, <4>1, Zenon
      <3>3. \A v, w \in Nat : <<v, w>> \in Seq(Nat)
        OBVIOUS
      <3> QED
        BY <2>3, <3>1, <3>2, <3>3
    <2> QED
      BY <1>1, <1>6, <2>1, <2>2, <2>3 DEF Automatic
  <1> QED
    BY <1>5, <1>6

LEMMA SubmitInv ==
  ASSUME IInv, Submit
  PROVE  IInv'
  <1>1. UNCHANGED <<web, record, handler, url, assoc, hidden, lost, troubles>> /\ page # <<>>
    BY DEF Submit
  <1>2. PICK p \in Page :
            /\ page = <<p>> /\ page[1] = p /\ PageFits(p) /\ InOrder(p.runs) /\ Settled(p)
            /\ p.runs \in Seq(Run) /\ DOMAIN p.runs = 1 .. Len(p.runs) /\ Len(p.runs) \in Nat
            /\ \A i \in DOMAIN p.runs : p.runs[i] \in Run
            /\ asks # <<>> /\ Now \in DOMAIN asks /\ Now \in Asks /\ Now # 0
            /\ p.name = Current /\ Current = asks[Now].name /\ p.name \in Named /\ p.name \in AllNames
            /\ InHand = {i \in DOMAIN p.runs : p.runs[i].ask = Now}
            /\ DOMAIN p.runs # {} => p.stage # "waiting" /\ p.name \notin Entered
    BY <1>1, PageAtHand
  <1>3. PICK value \in Values(p) :
            /\ p.stage = "ready" /\ p.tries < MaxSubmits /\ Answered(p.seen.last)
            /\ \/ /\ p.name \in Entered
                  /\ page' = <<[p EXCEPT !.tries = @ + 1, !.sent = TRUE]>>
                  /\ mail' = mail \union {[ask |-> p.seen.last, how |-> "resolve", value |-> value]}
               \/ /\ p.name \notin Entered /\ mail' = mail
                  /\ page' = <<[p EXCEPT !.tries = @ + 1,
                                         !.runs = Append(@,
                        [ask |-> p.seen.last, name |-> p.name, payload |-> p.form,
                         value |-> value, stage |-> "writing"])]>>
    <2>1. page[1] = p
      BY <1>2
    <2> DEFINE o == [p EXCEPT !.tries = @ + 1]
    <2>2. PICK value \in Values(p) :
            /\ p.stage = "ready" /\ p.tries < MaxSubmits /\ Answered(p.seen.last)
            /\ IF p.name \in Entered
               THEN /\ page' = <<[o EXCEPT !.sent = TRUE]>>
                    /\ mail' = mail \union {[ask |-> p.seen.last, how |-> "resolve", value |-> value]}
               ELSE /\ page' = <<[o EXCEPT !.runs = Append(@,
                        [ask |-> p.seen.last, name |-> p.name, payload |-> p.form,
                         value |-> value, stage |-> "writing"])]>>
                    /\ mail' = mail
      BY <2>1 DEF Submit
    <2>3. /\ [o EXCEPT !.sent = TRUE] = [p EXCEPT !.tries = @ + 1, !.sent = TRUE]
          /\ \A r : [o EXCEPT !.runs = Append(@, r)]
                      = [p EXCEPT !.tries = @ + 1, !.runs = Append(@, r)]
      BY <1>2 DEF Page
    <2> HIDE DEF o
    <2>4. CASE p.name \in Entered
      BY <2>2, <2>3, <2>4
    <2>5. CASE p.name \notin Entered
      BY <2>2, <2>3, <2>5
    <2> QED
      BY <2>4, <2>5
  <1> DEFINE r == p.seen.last
  <1>4. SeenFits(p) /\ p.seen \in Record /\ p.seen.messages[p.name] \in Asks
    <2>1. SeenFits(p)
      BY <1>2, <1>3 DEF PageFits
    <2>2. p.seen \in Record
      BY <1>2 DEF Page
    <2>3. p.seen.messages[p.name] \in Asks \union {0}
      BY <1>2, <2>2 DEF Record
    <2> QED
      BY <2>1, <2>2, <2>3 DEF SeenFits
  <1>5. /\ r \in DOMAIN asks /\ r \in Asks /\ p.form \in Asks
        /\ r = Now => p.form = Now /\ record.last = Now
    BY <1>2, <1>4, AsksInDomain DEF SeenFits, RecordFits, IInv
  <1>6. /\ value \in Seq(Nat)
        /\ p.name \in {"SelectSecurePassword", "SelectKey"} => value[1] \in Inputs
        /\ p.name = "SignNonce" => value = <<p.key, p.form>>
        /\ p.name = "VerifyServerProof" /\ value[1] = 1 => p.verdict = "yes"
        /\ p.name \notin {"ExchangePublicKeys", "ComputeClientProof"}
    BY <1>2, <1>3, SubmittedValues DEF IInv
  <1>7. /\ SubmitsGrow
        /\ \A x \in Asks : x # r => submits'[x] = submits[x]
    BY <1>3, <1>5, AnsweredGrows DEF IInv
  <1>8. /\ Now' = Now /\ Current' = Current /\ FitsAsked' = FitsAsked /\ asks' = asks /\ reply' = reply
        /\ \A m : IsGrant(m)' <=> IsGrant(m)
        /\ mail' = mail => Heard' = Heard
    BY <1>1, ConversationStays
  <1>9. record.last # Now => submits'[Now] = 0
    BY <1>2, <1>5, <1>7 DEF IInv, Records
  <1>10. p.tries + 1 \in 0 .. MaxSubmits
    BY <1>2, <1>3, AsksAre DEF Page
  <1>11. CASE p.name \in Entered
    <2>1. PICK q \in Page :
            /\ page' = <<q>> /\ q.name = p.name /\ q.stage = p.stage /\ q.seen = p.seen
            /\ q.form = p.form /\ q.key = p.key /\ q.verdict = p.verdict /\ q.runs = p.runs
      <3> DEFINE o == [p EXCEPT !.tries = @ + 1, !.sent = TRUE]
      <3>1. o \in Page
        BY <1>2, <1>10 DEF Page
      <3>2. /\ o.name = p.name /\ o.stage = p.stage /\ o.seen = p.seen
            /\ o.form = p.form /\ o.key = p.key /\ o.verdict = p.verdict /\ o.runs = p.runs
        BY DEF Page
      <3>3. page' = <<o>>
        BY <1>3, <1>11
      <3> HIDE DEF o
      <3> QED
        BY <3>1, <3>2, <3>3
    <2>2. PICK l \in Letter : mail' = mail \union {l} /\ l.ask = r /\ l.how = "resolve" /\ l.value = value
      <3> DEFINE m == [ask |-> r, how |-> "resolve", value |-> value]
      <3>1. m \in Letter
        BY <1>5, <1>6 DEF Letter
      <3>2. mail' = mail \union {m} /\ m.ask = r /\ m.how = "resolve" /\ m.value = value
        BY <1>3, <1>11
      <3> QED
        BY <3>1, <3>2
    <2>3. p.runs = <<>> /\ DOMAIN p.runs = {}
      BY <1>2, <1>11 DEF PageFits
    <2>4. PageFits(q)'
      <3>1. \A i \in DOMAIN q.runs : RunFits(q, q.runs[i])'
        BY <2>1, <2>3
      <3> QED
        BY <1>1, <1>2, <1>3, <1>7, <2>1, <2>3, <3>1, PageKeeps
    <2>5. InOrder(q.runs)'
      BY <2>1, <2>3 DEF InOrder
    <2>6. Settled(q)'
      <3>1. Heard' => Heard \/ r = Now
        BY <1>8, <2>2 DEF Heard, IsGrant
      <3>2. Heard' => p.seen.last = Now
        BY <1>2, <1>3, <3>1 DEF Settled
      <3> QED
        BY <1>8, <2>1, <2>3, <3>2 DEF Settled
    <2>7. Tokens'
      BY <1>1, <1>2, <1>3, <1>5, <2>1, <2>2, TokensGrow
    <2>8. \A m \in mail' \ mail : IsGrant(m) =>
            Holds(record.secret, Current, Now, m.value)' /\ Answer(Current, m.value)
      <3>1. Current \in Entered /\ Current' = Current
        BY <1>2, <1>8, <1>11
      <3> QED
        BY <3>1 DEF Holds, Made, Left, Answer, Entered
    <2>9. \A m \in mail' : m.ask \in DOMAIN asks
      BY <1>5, <2>2 DEF IInv, Records
    <2>10. Sound'
      BY <1>1, <1>2, <1>7, <1>9, <2>1, <2>2, <2>3, <2>4, <2>5, <2>6, <2>7, <2>8, <2>9, PageMoves
    <2> QED
      BY <1>1, <1>7, <2>1, <2>2, <2>10, PageTypes DEF IInv, Sound, TypeOK
  <1>12. CASE p.name \notin Entered
    <2> DEFINE n == Len(p.runs)
    <2>1. PICK run \in Run :
            /\ run.ask = r /\ run.name = p.name /\ run.payload = p.form
            /\ run.value = value /\ run.stage = "writing"
            /\ page' = <<[p EXCEPT !.tries = @ + 1, !.runs = Append(@, run)]>>
      <3> DEFINE o == [ask |-> p.seen.last, name |-> p.name, payload |-> p.form,
                       value |-> value, stage |-> "writing"]
      <3>1. o \in Run
        BY <1>2, <1>5, <1>6 DEF Run
      <3>2. /\ o.ask = r /\ o.name = p.name /\ o.payload = p.form
            /\ o.value = value /\ o.stage = "writing"
        OBVIOUS
      <3>3. page' = <<[p EXCEPT !.tries = @ + 1, !.runs = Append(@, o)]>>
        BY <1>3, <1>12
      <3> HIDE DEF o
      <3> QED
        BY <3>1, <3>2, <3>3
    <2>2. PICK q \in Page :
            /\ page' = <<q>> /\ q.name = p.name /\ q.stage = p.stage /\ q.seen = p.seen
            /\ q.form = p.form /\ q.key = p.key /\ q.verdict = p.verdict
            /\ q.runs = Append(p.runs, run)
      <3> DEFINE o == [p EXCEPT !.tries = @ + 1, !.runs = Append(p.runs, run)]
      <3>1. Append(p.runs, run) \in Seq(Run)
        BY <1>2, RunsGrow
      <3>2. o \in Page
        BY <1>2, <1>10, <3>1 DEF Page
      <3>3. /\ o.name = p.name /\ o.stage = p.stage /\ o.seen = p.seen
            /\ o.form = p.form /\ o.key = p.key /\ o.verdict = p.verdict
            /\ o.runs = Append(p.runs, run)
        BY <1>2 DEF Page
      <3>4. page' = <<o>>
        BY <2>1
      <3> HIDE DEF o
      <3> QED
        BY <3>2, <3>3, <3>4
    <2>3. /\ DOMAIN q.runs = 1 .. n + 1 /\ DOMAIN p.runs = 1 .. n /\ n \in Nat
          /\ \A i \in 1 .. n : q.runs[i] = p.runs[i]
          /\ q.runs[n + 1] = run
      BY <1>2, <2>2, RunsGrow
    <2>4. \A i \in DOMAIN p.runs : RunFits(q, p.runs[i])' /\ RunFits(p, p.runs[i])
      <3>1. \A i \in DOMAIN p.runs : RunFits(p, p.runs[i])
        BY <1>2 DEF PageFits
      <3> QED
        BY <1>1, <1>2, <1>7, <2>2, <3>1, RunPersists DEF IInv
    <2>5. RunFits(q, run)'
      <3>1. SeenFits(q)'
        BY <1>1, <1>2, <1>4, <1>7, <2>2, SeenPersists DEF IInv
      <3>2. p.verdict = "yes" => FitsAsked
        BY <1>2 DEF PageFits
      <3>3. run.ask = Now => Answer(run.name, run.value)'
        <4>1. p.name = "SignNonce" /\ Once("SelectKey")' => q.key = told'["SelectKey"].value[1]
          BY <2>2, <3>1 DEF SeenFits
        <4>2. run.ask = Now /\ p.name = "SignNonce" => run.value = <<q.key, Now>>
          BY <1>5, <1>6, <2>1, <2>2
        <4> QED
          BY <1>6, <1>8, <2>1, <4>1, <4>2 DEF Answer
      <3>4. ValueFits(run)'
        BY <1>6, <1>8, <2>1, <3>2, <3>3 DEF ValueFits
      <3> QED
        BY <1>5, <1>8, <2>1, <2>2, <3>4 DEF RunFits
    <2>6. PageFits(q)'
      <3>1. \A i \in DOMAIN q.runs : RunFits(q, q.runs[i])'
        <4> TAKE i \in DOMAIN q.runs
        <4>1. CASE i \in 1 .. n
          BY <2>3, <2>4, <4>1
        <4>2. CASE i = n + 1
          BY <2>3, <2>5, <4>2
        <4> QED
          BY <2>3, <4>1, <4>2
      <3> QED
        BY <1>1, <1>2, <1>3, <1>7, <1>12, <2>2, <3>1, PageKeeps
    <2>7. ASSUME NEW i \in 1 .. n
          PROVE  /\ p.runs[i].ask = Now => run.ask = Now
                 /\ Rank(p.runs[i]) >= Rank(run)
      <3>1. RunFits(p, p.runs[i])
        BY <2>3, <2>4
      <3>2. p.runs[i].ask = Now => run.ask = Now
        BY <2>1, <3>1 DEF RunFits
      <3>3. p.runs[i].stage \in {"writing", "written"}
        <4>1. p.runs[i].stage \in {"computing", "writing", "written"}
          BY <1>2, <2>3 DEF Run
        <4>2. p.runs[i].stage # "computing"
          BY <1>6, <3>1 DEF RunFits
        <4> QED
          BY <4>1, <4>2
      <3> QED
        BY <2>1, <3>2, <3>3 DEF Rank
    <2>8. InOrder(q.runs)'
      <3>1. ASSUME NEW i \in DOMAIN q.runs, NEW j \in DOMAIN q.runs, i <= j
            PROVE  /\ q.runs[i].ask = Now => q.runs[j].ask = Now
                   /\ Rank(q.runs[i]) >= Rank(q.runs[j])
        <4>1. CASE j \in 1 .. n
          <5>1. i \in 1 .. n
            BY <2>3, <3>1, <4>1
          <5> QED
            BY <1>2, <2>3, <3>1, <4>1, <5>1 DEF InOrder
        <4>2. CASE j = n + 1 /\ i \in 1 .. n
          BY <2>3, <2>7, <4>2
        <4>3. CASE j = n + 1 /\ i = n + 1
          BY <2>1, <2>3, <4>3 DEF Rank
        <4> QED
          BY <2>3, <4>1, <4>2, <4>3
      <3>2. InOrder(q.runs)
        BY <3>1 DEF InOrder
      <3> QED
        BY <1>8, <3>2 DEF InOrder, Rank
    <2>9. Settled(q)'
      <3>1. Heard => p.seen.last = Now /\ \A i \in DOMAIN p.runs : p.runs[i].ask = Now
        BY <1>2, <1>3 DEF Settled
      <3>2. Heard => \A i \in DOMAIN q.runs : q.runs[i].ask = Now
        BY <2>1, <2>3, <3>1
      <3>3. Heard' = Heard
        BY <1>3, <1>8, <1>12
      <3> QED
        BY <1>8, <2>2, <3>1, <3>2, <3>3 DEF Settled
    <2>10. Tokens'
      BY <1>1, <1>2, <1>3, <1>5, <1>12, <2>1, <2>2, TokensGrow
    <2>11. ASSUME NEW i \in DOMAIN q.runs, q.runs[i].ask = Now, q.runs[i].stage = "written"
           PROVE  \E j \in InHand : page[1].runs[j].stage = "written"
                                      /\ page[1].runs[j].value = q.runs[i].value
      <3>1. i # n + 1
        BY <2>1, <2>3, <2>11
      <3>2. i \in DOMAIN p.runs /\ q.runs[i] = p.runs[i]
        BY <2>3, <3>1
      <3>3. i \in InHand
        BY <1>2, <2>11, <3>2
      <3> QED
        BY <1>2, <2>11, <3>2, <3>3
    <2>12. mail' = mail /\ \A m \in mail' : m.ask \in DOMAIN asks
      BY <1>3, <1>12 DEF IInv, Records
    <2>13. Sound'
      BY <1>1, <1>2, <1>7, <1>9, <2>2, <2>6, <2>8, <2>9, <2>10, <2>11, <2>12, PageMoves
    <2> QED
      BY <1>1, <1>7, <2>2, <2>12, <2>13, PageTypes DEF IInv, Sound, TypeOK
  <1> QED
    BY <1>11, <1>12

-----------------------------------------------------------------------------
(* Writes                                                                  *)

\* What a write leaves of what was granted before, and of its own.
LEMMA WriteKeeps ==
  ASSUME IInv, page # <<>>, NEW i \in DOMAIN page[1].runs, page[1].runs[i].stage = "writing",
         NEW rec, rec = WithWrite(record, page[1].runs[i])
  PROVE  /\ rec \in Record /\ rec.messages = record.messages /\ rec.last = record.last
         /\ rec.secret.valid = "yes" => FitsAsked
         /\ \A nm \in Named, r \in Asks : \A v :
               Place(nm) < Place(Current) /\ Holds(record.secret, nm, r, v)
                 => Made(rec.secret, nm)
                    /\ (Left(record.secret, nm, r, v) => Left(rec.secret, nm, r, v))
         /\ Made(rec.secret, Current)
         /\ page[1].runs[i].ask = Now => Left(rec.secret, Current, Now, page[1].runs[i].value)
  <1>1. PICK p \in Page :
            /\ page[1] = p /\ PageFits(p) /\ \A j \in DOMAIN p.runs : p.runs[j] \in Run
            /\ p.name = Current /\ p.name \in Named
            /\ DOMAIN p.runs # {} => p.stage # "waiting" /\ p.name \notin Entered
    BY PageAtHand
  <1>2. PICK run \in Run : run = page[1].runs[i] /\ RunFits(p, run) /\ run.stage = "writing"
    BY <1>1 DEF PageFits
  <1>3. run.name = Current /\ ValueFits(run) /\ (run.ask = Now => run.payload = Now)
    BY <1>1, <1>2 DEF RunFits
  <1>4. PICK s \in Secret : s = record.secret /\ record \in Record
    BY DEF IInv, TypeOK, Record
  <1>5. PICK w : w = Written(s, run)
    OBVIOUS
  <1>6. rec = [record EXCEPT !.secret = w]
    BY <1>2, <1>4, <1>5 DEF WithWrite
  <1>7. /\ rec.messages = record.messages /\ rec.last = record.last /\ rec.secret = w
        /\ w \in Secret => rec \in Record
    BY <1>4, <1>6 DEF Record
  <1>8. run.name \in {"SelectKey", "SignNonce", "SelectSecurePassword", "ExchangePublicKeys",
                      "ComputeClientProof", "VerifyServerProof"}
    <2>1. run.name \in Named /\ run.name \notin Entered /\ type \in Types
      BY <1>1, <1>2, <1>3 DEF IInv, TypeOK
    <2> QED
      BY <2>1, NamesAre DEF Entered
  <1>9. run.payload \in Asks
    BY <1>2 DEF Run
  <1>10. s.valid = "yes" => FitsAsked
    BY <1>4 DEF IInv, Authentic
  <1>11. SUFFICES
          /\ w \in Secret /\ (w.valid = "yes" => FitsAsked)
          /\ \A nm \in Named, r \in Asks : \A v :
               Place(nm) < Place(run.name) /\ Holds(s, nm, r, v)
                 => Made(w, nm) /\ (Left(s, nm, r, v) => Left(w, nm, r, v))
          /\ Made(w, run.name)
          /\ run.ask = Now => Left(w, run.name, Now, run.value)
    BY <1>2, <1>3, <1>4, <1>7
  <1>12. \A nm \in Named : Place(nm) \in 1 .. 4
    BY NamesAre DEF IInv, TypeOK
  <1>13. 0 \notin Inputs /\ 0 \notin Asks
    BY AsksAre
  <1>14. CASE run.name = "SelectSecurePassword"
    <2>1. w = [NoSecret EXCEPT !.fields = run.value[1]] /\ run.value[1] \in Inputs
      BY <1>3, <1>5, <1>14 DEF Written, ValueFits
    <2>2. w \in Secret /\ w.fields = run.value[1] /\ w.valid = "unset"
      BY <2>1, BlankRecord DEF Secret, NoSecret
    <2>3. Place(run.name) = 1
      BY <1>14 DEF Place
    <2>4. \A nm \in Named : ~ (Place(nm) < Place(run.name))
      BY <1>12, <2>3
    <2>5. Made(w, run.name) /\ Left(w, run.name, Now, run.value)
      BY <1>13, <1>14, <2>1, <2>2 DEF Made, Left
    <2> QED
      BY <2>2, <2>4, <2>5
  <1>15. CASE run.name = "SelectKey"
    <2>1. w = [s EXCEPT !.key = run.value[1]] /\ run.value[1] \in Inputs
      BY <1>3, <1>5, <1>15 DEF Written, ValueFits
    <2>2. w \in Secret /\ w.key = run.value[1] /\ w.valid = s.valid
      BY <1>4, <2>1 DEF Secret
    <2>3. Place(run.name) = 1
      BY <1>15 DEF Place
    <2>4. \A nm \in Named : ~ (Place(nm) < Place(run.name))
      BY <1>12, <2>3
    <2>5. Made(w, run.name) /\ Left(w, run.name, Now, run.value)
      BY <1>15, <2>2 DEF Made, Left
    <2> QED
      BY <1>10, <2>2, <2>4, <2>5
  <1>16. CASE run.name = "ExchangePublicKeys"
    <2>1. w = [s EXCEPT !.a = run.value[1], !.B = run.payload] /\ run.value[1] \in Nat \ {0}
      BY <1>3, <1>5, <1>16 DEF Written, ValueFits
    <2>2. /\ w \in Secret /\ w.a = run.value[1] /\ w.B = run.payload /\ w.valid = s.valid
          /\ w.fields = s.fields /\ w.key = s.key
      BY <1>4, <1>9, <2>1 DEF Secret
    <2>3. Made(w, run.name) /\ (run.ask = Now => Left(w, run.name, Now, run.value))
      BY <1>3, <1>9, <1>13, <1>16, <2>1, <2>2 DEF Made, Left
    <2>4. ~ (Place("ExchangePublicKeys") < Place(run.name))
      BY <1>16 DEF Place
    <2>5. ASSUME NEW nm \in Named, NEW r \in Asks, NEW v, Place(nm) < Place(run.name), Holds(s, nm, r, v)
          PROVE  Made(w, nm) /\ (Left(s, nm, r, v) => Left(w, nm, r, v))
      <3>1. nm # "ExchangePublicKeys"
        BY <2>4, <2>5
      <3> QED
        BY <2>2, <2>5, <3>1 DEF Made, Left, Holds
    <2> QED
      BY <1>10, <2>2, <2>3, <2>5
  <1>17. CASE run.name \in {"ComputeClientProof", "VerifyServerProof", "SignNonce"}
    <2>1. /\ w \in Secret /\ w.a = s.a /\ w.B = s.B /\ w.fields = s.fields /\ w.key = s.key
          /\ w.valid = "yes" => FitsAsked
      <3>1. CASE run.name = "ComputeClientProof"
        <4>1. w = [s EXCEPT !.salt = run.payload]
          BY <1>5, <3>1 DEF Written
        <4> QED
          BY <1>4, <1>9, <1>10, <4>1 DEF Secret
      <3>2. CASE run.name = "SignNonce"
        <4>1. w = [s EXCEPT !.nonce = run.payload]
          BY <1>5, <3>2 DEF Written
        <4> QED
          BY <1>4, <1>9, <1>10, <4>1 DEF Secret
      <3>3. CASE run.name = "VerifyServerProof"
        <4>1. w = [s EXCEPT !.valid = IF run.value[1] = 1 THEN "yes" ELSE "no"]
          BY <1>5, <3>3 DEF Written
        <4>2. run.value[1] = 1 => FitsAsked
          BY <1>3, <3>3 DEF ValueFits
        <4> QED
          BY <1>4, <4>1, <4>2 DEF Secret
      <3> QED
        BY <1>17, <3>1, <3>2, <3>3
    <2>2. Made(w, run.name) /\ Left(w, run.name, Now, run.value)
      BY <1>17 DEF Made, Left
    <2>3. ASSUME NEW nm \in Named, NEW r \in Asks, NEW v, Holds(s, nm, r, v)
          PROVE  Made(w, nm) /\ (Left(s, nm, r, v) => Left(w, nm, r, v))
      BY <2>1, <2>3 DEF Made, Left, Holds
    <2> QED
      BY <2>1, <2>2, <2>3
  <1> QED
    BY <1>8, <1>14, <1>15, <1>16, <1>17

\* While a write for the last message is under way no other answer to it is, but if
\* it was answered twice; and a run that is older writes before all of them.
LEMMA WriteIsAlone ==
  ASSUME IInv, page # <<>>, NEW i \in DOMAIN page[1].runs, page[1].runs[i].stage = "writing"
  PROVE  /\ submits[Now] = 1 /\ Heard => FALSE
         /\ submits[Now] = 1 =>
               \A j \in InHand : page[1].runs[j].stage = "written" => FALSE
         /\ page[1].runs[i].ask # Now =>
               ~ Heard /\ \A j \in InHand : page[1].runs[j].stage # "written"
  <1>1. PICK p \in Page :
            /\ page[1] = p /\ InOrder(p.runs) /\ Settled(p)
            /\ DOMAIN p.runs = 1 .. Len(p.runs) /\ Len(p.runs) \in Nat
            /\ InHand = {j \in DOMAIN p.runs : p.runs[j].ask = Now}
            /\ asks # <<>>
            /\ DOMAIN p.runs # {} => p.stage # "waiting"
    BY PageAtHand
  <1>2. i \in DOMAIN p.runs /\ p.runs[i].stage = "writing" /\ p.stage # "waiting"
    BY <1>1
  <1>3. Heard => p.runs[i].ask = Now
    BY <1>1, <1>2 DEF Settled
  <1>4. ASSUME NEW j \in InHand, p.runs[j].stage = "written"
        PROVE  p.runs[i].ask = Now /\ i # j
    <2>1. j \in DOMAIN p.runs /\ p.runs[j].ask = Now /\ i # j
      BY <1>1, <1>2, <1>4
    <2>2. ~ (i <= j)
      BY <1>1, <1>2, <1>4, <2>1 DEF InOrder, Rank
    <2>3. j <= i
      BY <1>1, <1>2, <2>1, <2>2
    <2> QED
      BY <1>1, <1>2, <2>1, <2>3 DEF InOrder
  <1>5. Tokens
    BY DEF IInv
  <1>6. submits[Now] = 1 /\ Heard => FALSE
    <2>1. p.runs[i].ask = Now => i \in InHand
      BY <1>1, <1>2
    <2> QED
      BY <1>1, <1>3, <1>5, <2>1 DEF Tokens
  <1>7. ASSUME submits[Now] = 1, NEW j \in InHand, p.runs[j].stage = "written"
        PROVE  FALSE
    <2>1. i \in InHand /\ i # j
      BY <1>1, <1>2, <1>4, <1>7
    <2> QED
      BY <1>1, <1>5, <1>7, <2>1 DEF Tokens
  <1> QED
    BY <1>1, <1>3, <1>4, <1>6, <1>7

\* Whether a write that was begun is done or not, the secret holds what was granted
\* and what is on its way.
LEMMA WritesKeep ==
  ASSUME IInv, NEW rec, rec \in {record} \union {WithWrite(record, run) : run \in Begun}
  PROVE  /\ rec \in Record /\ rec.messages = record.messages /\ rec.last = record.last
         /\ rec.secret.valid = "yes" => FitsAsked
         /\ asks # <<>> => \A nm \in Named : Place(nm) < Place(Current) =>
               told[nm].ask # 0 /\ Holds(rec.secret, nm, told[nm].ask, told[nm].value)
         /\ asks # <<>> /\ reply[Now] = "resolve" =>
               Holds(rec.secret, Current, Now, told[Current].value)
         /\ \A l \in mail : asks # <<>> /\ IsGrant(l) => Holds(rec.secret, Current, Now, l.value)
         /\ \A j \in InHand : asks # <<>> /\ page[1].runs[j].stage = "written" =>
               Holds(rec.secret, Current, Now, page[1].runs[j].value)
  <1>1. KeptNow /\ KeptBefore /\ Authentic /\ record \in Record /\ TypeOK
    BY DEF IInv, TypeOK
  <1>2. CASE rec = record
    BY <1>1, <1>2 DEF KeptNow, KeptBefore, Authentic
  <1>3. CASE rec # record
    <2>1. PICK run \in Begun : rec = WithWrite(record, run)
      BY <1>3
    <2>2. page # <<>>
      BY <1>1, <2>1, PageIs DEF Begun
    <2>3. PICK i \in DOMAIN page[1].runs : page[1].runs[i] = run /\ run.stage = "writing"
      <3>1. Range(page) = {page[1]}
        BY <1>1, <2>2, PageIs
      <3>2. run \in Range(page[1].runs) /\ run.stage = "writing"
        BY <2>1, <3>1 DEF Begun
      <3> QED
        BY <3>2 DEF Range
    <2>4. /\ rec \in Record /\ rec.messages = record.messages /\ rec.last = record.last
          /\ rec.secret.valid = "yes" => FitsAsked
          /\ \A nm \in Named, r \in Asks : \A v :
                Place(nm) < Place(Current) /\ Holds(record.secret, nm, r, v)
                  => Made(rec.secret, nm)
                     /\ (Left(record.secret, nm, r, v) => Left(rec.secret, nm, r, v))
          /\ Made(rec.secret, Current)
      BY <2>1, <2>2, <2>3, WriteKeeps
    <2>5. /\ submits[Now] = 1 /\ Heard => FALSE
          /\ submits[Now] = 1 =>
                \A j \in InHand : page[1].runs[j].stage = "written" => FALSE
      BY <2>2, <2>3, WriteIsAlone
    <2>6. ASSUME asks # <<>>, NEW nm \in Named, Place(nm) < Place(Current)
          PROVE  told[nm].ask # 0 /\ Holds(rec.secret, nm, told[nm].ask, told[nm].value)
      <3>1. told[nm].ask # 0 /\ Holds(record.secret, nm, told[nm].ask, told[nm].value)
        BY <1>1, <2>6 DEF KeptBefore
      <3>2. told[nm].ask \in Asks
        BY <1>1, <3>1, NamesAre DEF TypeOK
      <3> QED
        BY <2>4, <2>6, <3>1, <3>2 DEF Holds
    <2>7. Heard => \A v : Holds(rec.secret, Current, Now, v)
      BY <2>4, <2>5 DEF Holds
    <2>8. \A j \in InHand : page[1].runs[j].stage = "written" =>
             \A v : Holds(rec.secret, Current, Now, v)
      BY <2>4, <2>5 DEF Holds
    <2>9. asks # <<>> /\ reply[Now] = "resolve" =>
             Holds(rec.secret, Current, Now, told[Current].value)
      BY <2>7 DEF Heard
    <2>10. \A l \in mail : asks # <<>> /\ IsGrant(l) => Holds(rec.secret, Current, Now, l.value)
      BY <2>7 DEF Heard
    <2>11. \A j \in InHand : asks # <<>> /\ page[1].runs[j].stage = "written" =>
             Holds(rec.secret, Current, Now, page[1].runs[j].value)
      BY <2>8
    <2> QED
      BY <2>4, <2>6, <2>9, <2>10, <2>11
  <1> QED
    BY <1>2, <1>3

\* The secret that is written keeps what the invariant says of it.
LEMMA SecretKept ==
  ASSUME IInv, UNCHANGED <<web, submits>>, NEW rec, record'.secret = rec.secret,
         rec \in {record} \union {WithWrite(record, run) : run \in Begun}
  PROVE  /\ Authentic' /\ KeptBefore'
         /\ asks # <<>> /\ reply[Now] = "resolve" =>
               Holds(record.secret, Current, Now, told[Current].value)'
         /\ \A l \in mail : asks # <<>> /\ IsGrant(l) =>
               Holds(record.secret, Current, Now, l.value)' /\ Answer(Current, l.value)'
         /\ \A v, j : asks # <<>> /\ j \in InHand /\ page[1].runs[j].stage = "written"
                /\ page[1].runs[j].value = v => Holds(record.secret, Current, Now, v)'
  <1>1. record'.secret = rec.secret
    OBVIOUS
  <1>2. /\ rec \in Record /\ rec.messages = record.messages /\ rec.last = record.last
        /\ rec.secret.valid = "yes" => FitsAsked
        /\ asks # <<>> => \A nm \in Named : Place(nm) < Place(Current) =>
              told[nm].ask # 0 /\ Holds(rec.secret, nm, told[nm].ask, told[nm].value)
        /\ asks # <<>> /\ reply[Now] = "resolve" =>
              Holds(rec.secret, Current, Now, told[Current].value)
        /\ \A l \in mail : asks # <<>> /\ IsGrant(l) => Holds(rec.secret, Current, Now, l.value)
        /\ \A j \in InHand : asks # <<>> /\ page[1].runs[j].stage = "written" =>
              Holds(rec.secret, Current, Now, page[1].runs[j].value)
    BY WritesKeep
  <1>3. /\ asks' = asks /\ reply' = reply /\ told' = told /\ submits' = submits
        /\ Now' = Now /\ Current' = Current /\ Named' = Named /\ FitsAsked' = FitsAsked
    BY ConversationStays
  <1>4. \A nm, r, v : Holds(rec.secret, nm, r, v) => Holds(rec.secret, nm, r, v)'
    BY <1>3 DEF Holds, Made, Left
  <1>5. Authentic'
    BY <1>1, <1>2, <1>3 DEF Authentic
  <1>6. KeptBefore'
    BY <1>1, <1>2, <1>3, <1>4 DEF KeptBefore, Place, Holds, Made, Left
  <1>7. asks # <<>> /\ reply[Now] = "resolve" =>
           Holds(record.secret, Current, Now, told[Current].value)'
    BY <1>1, <1>2, <1>3 DEF Holds, Made, Left
  <1>8. ASSUME NEW l \in mail, asks # <<>>, IsGrant(l)
        PROVE  Holds(record.secret, Current, Now, l.value)' /\ Answer(Current, l.value)'
    <2>1. Holds(record.secret, Current, Now, l.value)'
      BY <1>1, <1>2, <1>3, <1>8 DEF Holds, Made, Left
    <2>2. Answer(Current, l.value) /\ Current \in Named
      BY <1>8, AsksInDomain DEF IInv, KeptNow, Conversation
    <2>3. PICK nm \in Named : nm = Current /\ Answer(nm, l.value)
      BY <2>2
    <2>4. Answer(nm, l.value)'
      BY <2>3, AnswerPersists, SubmitsStay DEF IInv
    <2> QED
      BY <1>3, <2>1, <2>3, <2>4 DEF Answer
  <1>9. ASSUME NEW v, NEW j, asks # <<>>, j \in InHand, page[1].runs[j].stage = "written",
               page[1].runs[j].value = v
        PROVE  Holds(record.secret, Current, Now, v)'
    <2>1. Holds(rec.secret, Current, Now, v)
      BY <1>2, <1>9
    <2> QED
      BY <1>1, <1>3, <2>1 DEF Holds, Made, Left
  <1> QED
    BY <1>5, <1>6, <1>7, <1>8, <1>9

LEMMA KeptAcross ==
  ASSUME IInv, UNCHANGED <<web, submits>>,
         record' \in {record} \union {WithWrite(record, run) : run \in Begun}
  PROVE  /\ record' \in Record /\ record'.messages = record.messages /\ record'.last = record.last
         /\ Authentic' /\ KeptBefore'
         /\ asks # <<>> /\ reply[Now] = "resolve" =>
               Holds(record.secret, Current, Now, told[Current].value)'
         /\ \A l \in mail : asks # <<>> /\ IsGrant(l) =>
               Holds(record.secret, Current, Now, l.value)' /\ Answer(Current, l.value)'
         /\ \A v, j : asks # <<>> /\ j \in InHand /\ page[1].runs[j].stage = "written"
                /\ page[1].runs[j].value = v => Holds(record.secret, Current, Now, v)'
  <1>1. PICK rec : rec = record'
    OBVIOUS
  <1>2. rec \in Record /\ rec.messages = record.messages /\ rec.last = record.last
    BY <1>1, WritesKeep
  <1> QED
    BY <1>1, <1>2, SecretKept

LEMMA WriteInv ==
  ASSUME IInv, page # <<>>, Write
  PROVE  IInv'
  <1>1. UNCHANGED <<web, handler, url, assoc, mail, hidden, submits, lost, troubles>>
    BY DEF Write, letters, history
  <1>2. PICK p \in Page :
            /\ page = <<p>> /\ page[1] = p /\ PageFits(p) /\ InOrder(p.runs) /\ Settled(p)
            /\ p.runs \in Seq(Run) /\ DOMAIN p.runs = 1 .. Len(p.runs) /\ Len(p.runs) \in Nat
            /\ \A i \in DOMAIN p.runs : p.runs[i] \in Run
            /\ asks # <<>> /\ Now \in DOMAIN asks /\ Now \in Asks /\ Now # 0
            /\ p.name = Current /\ Current = asks[Now].name /\ p.name \in Named /\ p.name \in AllNames
            /\ InHand = {i \in DOMAIN p.runs : p.runs[i].ask = Now}
            /\ DOMAIN p.runs # {} => p.stage # "waiting" /\ p.name \notin Entered
    BY PageAtHand
  <1>3. PICK i \in DOMAIN p.runs :
            /\ p.runs[i].stage = "writing"
            /\ \A j \in 1 .. i - 1 : p.runs[j].stage # "writing"
            /\ record' = WithWrite(record, p.runs[i])
            /\ page' = <<[p EXCEPT !.runs[i].stage = "written"]>>
    <2>1. page[1] = p
      BY <1>2
    <2>2. PICK i \in DOMAIN page[1].runs :
            /\ page[1].runs[i].stage = "writing"
            /\ \A j \in 1 .. i - 1 : page[1].runs[j].stage # "writing"
            /\ record' = WithWrite(record, page[1].runs[i])
            /\ page' = <<[page[1] EXCEPT !.runs[i].stage = "written"]>>
      BY DEF Write
    <2> QED
      BY <2>1, <2>2, Zenon
  <1> DEFINE run == [p.runs[i] EXCEPT !.stage = "written"]
             s == [p.runs EXCEPT ![i] = run]
  <1>4. /\ run \in Run /\ run.stage = "written" /\ run.value = p.runs[i].value
        /\ run.ask = p.runs[i].ask /\ run.name = p.runs[i].name /\ run.payload = p.runs[i].payload
    <2>1. p.runs[i] \in Run
      BY <1>2, <1>3
    <2> QED
      BY <2>1 DEF Run
  <1>5. page' = <<[p EXCEPT !.runs = s]>>
    <2>1. [p.runs EXCEPT ![i].stage = "written"] = [p.runs EXCEPT ![i] = run]
      BY <1>2
    <2> HIDE DEF run
    <2> QED
      BY <1>3, <2>1
  <1> HIDE DEF run
  <1>6. /\ s \in Seq(Run) /\ DOMAIN s = DOMAIN p.runs /\ s[i] = run
        /\ \A j \in DOMAIN p.runs : j # i => s[j] = p.runs[j]
    BY <1>2, <1>3, <1>4, RunGetsOn
  <1> HIDE DEF s
  <1>7. PICK q \in Page :
            /\ page' = <<q>> /\ q.name = p.name /\ q.stage = p.stage /\ q.seen = p.seen
            /\ q.form = p.form /\ q.key = p.key /\ q.verdict = p.verdict /\ q.runs = s
    <2> DEFINE o == [p EXCEPT !.runs = s]
    <2>1. o \in Page
      BY <1>2, <1>6 DEF Page
    <2>2. /\ o.name = p.name /\ o.stage = p.stage /\ o.seen = p.seen
          /\ o.form = p.form /\ o.key = p.key /\ o.verdict = p.verdict /\ o.runs = s
      BY DEF Page
    <2>3. page' = <<o>>
      BY <1>5
    <2> HIDE DEF o
    <2> QED
      BY <2>1, <2>2, <2>3
  <1>8. SubmitsGrow
    BY <1>1, SubmitsStay DEF IInv
  <1>9. /\ Now' = Now /\ FitsAsked' = FitsAsked /\ asks' = asks /\ Heard' = Heard /\ reply' = reply
        /\ Current' = Current /\ told' = told
        /\ \A l : IsGrant(l)' <=> IsGrant(l)
    BY <1>1, ConversationStays
  \* The record has the write.
  <1>10. PICK old \in Run : old = page[1].runs[i] /\ old \in Begun /\ i \in DOMAIN page[1].runs
    <2>1. Range(page) = {page[1]} /\ p.runs[i] \in Run
      BY <1>2, <1>3, PageIs DEF IInv
    <2>2. p.runs[i] \in Begun
      <3>1. p.runs[i] \in Range(p.runs)
        BY <1>3 DEF Range
      <3>2. Range(p.runs) \in {Range(x.runs) : x \in Range(page)}
        BY <1>2, <2>1
      <3> QED
        BY <1>3, <3>1, <3>2 DEF Begun
    <2> QED
      BY <1>2, <1>3, <2>1, <2>2
  <1>11. record' = WithWrite(record, old)
    BY <1>2, <1>3, <1>10
  <1>12. record' \in {record} \union {WithWrite(record, x) : x \in Begun}
    BY <1>10, <1>11
  <1>13. /\ record' \in Record /\ record'.messages = record.messages /\ record'.last = record.last
         /\ Authentic' /\ KeptBefore'
         /\ reply[Now] = "resolve" => Holds(record.secret, Current, Now, told[Current].value)'
         /\ \A l \in mail : IsGrant(l) =>
               Holds(record.secret, Current, Now, l.value)' /\ Answer(Current, l.value)'
         /\ \A v, j : j \in InHand /\ page[1].runs[j].stage = "written" /\ page[1].runs[j].value = v
                => Holds(record.secret, Current, Now, v)'
    BY <1>1, <1>2, <1>12, KeptAcross
  <1>14. ASSUME old.ask = Now, NEW v, v = old.value
         PROVE  Holds(record.secret, Current, Now, v)'
    <2>1. PICK rec : rec = record'
      OBVIOUS
    <2>2. Made(rec.secret, Current) /\ Left(rec.secret, Current, Now, v)
      BY <1>2, <1>3, <1>10, <1>11, <1>14, <2>1, WriteKeeps
    <2> QED
      BY <1>9, <2>1, <2>2 DEF Holds, Made, Left
  <1>15. \A j \in DOMAIN p.runs : RunFits(q, p.runs[j])' /\ RunFits(p, p.runs[j])
    <2>1. \A j \in DOMAIN p.runs : RunFits(p, p.runs[j])
      BY <1>2 DEF PageFits
    <2> QED
      BY <1>1, <1>2, <1>7, <1>8, <2>1, RunPersists DEF IInv
  <1>16. p.stage # "waiting" /\ p.name \notin Entered
    BY <1>2, <1>3
  <1>17. PICK w \in Run : w = run
    BY <1>4
  <1>18. RunFits(q, w)'
    <2>1. PICK o \in Run : o = p.runs[i] /\ RunFits(q, o)'
      BY <1>2, <1>3, <1>15
    <2>2. /\ w.stage = "written" /\ w.value = o.value /\ o.stage = "writing"
          /\ w.ask = o.ask /\ w.name = o.name /\ w.payload = o.payload
      BY <1>3, <1>4, <1>17, <2>1
    <2> QED
      BY <2>1, <2>2 DEF RunFits, ValueFits, Answer
  <1>19. PageFits(q)'
    <2>1. \A j \in DOMAIN q.runs : RunFits(q, q.runs[j])'
      BY <1>6, <1>7, <1>15, <1>17, <1>18
    <2> QED
      BY <1>1, <1>2, <1>7, <1>8, <1>13, <1>16, <2>1, PageKeeps
  <1>20. \A j \in DOMAIN p.runs : p.runs[j].stage \in {"computing", "writing", "written"}
    BY <1>2 DEF Run
  <1>21. InOrder(s)
    <2> SUFFICES ASSUME NEW j \in DOMAIN p.runs, NEW k \in DOMAIN p.runs, j <= k
                 PROVE  /\ s[j].ask = Now => s[k].ask = Now
                        /\ Rank(s[j]) >= Rank(s[k])
      BY <1>6 DEF InOrder
    <2>1. (p.runs[j].ask = Now => p.runs[k].ask = Now) /\ Rank(p.runs[j]) >= Rank(p.runs[k])
      BY <1>2 DEF InOrder
    <2>2. s[j].ask = p.runs[j].ask /\ s[k].ask = p.runs[k].ask
      BY <1>4, <1>6
    <2>3. CASE j # i /\ k # i
      BY <1>6, <2>1, <2>2, <2>3
    <2>4. CASE k = i /\ j = i
      BY <1>4, <1>6, <2>2, <2>4 DEF Rank
    <2>5. CASE k = i /\ j # i
      <3>1. j \in 1 .. i - 1
        BY <1>2, <2>5
      <3>2. p.runs[j].stage # "writing"
        BY <1>3, <3>1
      <3>3. p.runs[j].stage = "written"
        BY <1>3, <1>20, <2>1, <2>5, <3>2 DEF Rank
      <3> QED
        BY <1>4, <1>6, <2>1, <2>2, <2>5, <3>3 DEF Rank
    <2>6. CASE k # i /\ j = i
      <3>1. p.runs[k].stage \in {"computing", "writing"}
        BY <1>3, <1>20, <2>1, <2>6 DEF Rank
      <3> QED
        BY <1>4, <1>6, <2>1, <2>2, <2>6, <3>1 DEF Rank
    <2> QED
      BY <2>3, <2>4, <2>5, <2>6
  <1>22. InOrder(q.runs)'
    BY <1>7, <1>9, <1>21 DEF InOrder, Rank
  <1>23. \A j \in DOMAIN p.runs : q.runs[j].ask = p.runs[j].ask
    BY <1>4, <1>6, <1>7
  <1>24. Settled(q)'
    BY <1>2, <1>6, <1>7, <1>9, <1>16, <1>23 DEF Settled
  <1>25. InHand = {j \in DOMAIN q.runs : q.runs[j].ask = Now}
    BY <1>2, <1>6, <1>7, <1>23
  <1>26. Tokens'
    BY <1>1, <1>7, <1>25, TokensStay
  <1>27. KeptNow'
    <2>1. ASSUME NEW j \in InHand', page[1]'.runs[j].stage = "written",
                 NEW v, v = page[1]'.runs[j].value
          PROVE  Holds(record.secret, Current, Now, v)'
      <3>1. page'[1] = q /\ page' # <<>>
        BY <1>7, PageBecomes
      <3>2. j \in DOMAIN q.runs /\ q.runs[j].ask = Now
        BY <1>9, <2>1, <3>1 DEF InHand
      <3>3. CASE j = i
        <4>1. v = old.value /\ old.ask = Now
          BY <1>2, <1>4, <1>6, <1>7, <1>10, <2>1, <3>1, <3>2, <3>3
        <4> QED
          BY <1>14, <4>1
      <3>4. CASE j # i
        <4>1. j \in InHand /\ page[1].runs[j].stage = "written" /\ page[1].runs[j].value = v
          BY <1>2, <1>6, <1>7, <2>1, <3>1, <3>2, <3>4
        <4> QED
          BY <1>13, <4>1
      <3> QED
        BY <3>3, <3>4
    <2>2. \A l \in mail' : IsGrant(l)' =>
             Holds(record.secret, Current, Now, l.value)' /\ Answer(Current, l.value)'
      BY <1>1, <1>9, <1>13
    <2>3. reply'[Now'] = "resolve" => Holds(record.secret, Current, Now, told[Current].value)'
      BY <1>9, <1>13
    <2> QED
      BY <2>1, <2>2, <2>3 DEF KeptNow
  <1>28. Conversation' /\ Tellings' /\ Records' /\ ProofFits'
    <2>1. handler' \in {0, Now} /\ url' \in {0, Now}
      BY <1>1 DEF IInv, Conversation
    <2>2. /\ \A l \in mail' : l.ask \in DOMAIN asks
          /\ asks # <<>> /\ record.last # Now => submits'[Now] = 0
      BY <1>1 DEF IInv, Records
    <2> QED
      BY <1>1, <1>8, <1>13, <2>1, <2>2, WebStands
  <1>29. PageSound'
    BY <1>7, <1>19, <1>22, <1>24, PageBecomes DEF PageSound
  <1>30. TypeOK'
    BY <1>1, <1>7, <1>13, PageBecomes DEF IInv, TypeOK, web
  <1> QED
    BY <1>13, <1>26, <1>27, <1>28, <1>29, <1>30 DEF IInv

-----------------------------------------------------------------------------
(* The popup is closed                                                     *)

\* A page that is given up says at most that its request is rejected.
LEMMA LastWords ==
  ASSUME IInv
  PROVE  /\ Closing \subseteq Letter
         /\ \A l \in Closing : l.how = "reject" /\ l.ask \in DOMAIN asks
  <1> SUFFICES ASSUME NEW l \in Closing
               PROVE  l \in Letter /\ l.how = "reject" /\ l.ask \in DOMAIN asks
    OBVIOUS
  <1>1. PICK p \in Range(page) : /\ p.stage = "ready"
                                 /\ l = [ask |-> p.seen.last, how |-> "reject", value |-> <<>>]
    BY DEF Closing
  <1>2. page # <<>> /\ p = page[1] /\ page[1] \in Page
    BY <1>1, PageIs DEF IInv
  <1>3. SeenFits(p)
    BY <1>1, <1>2 DEF IInv, PageSound, PageFits
  <1>4. p.seen.last # 0 /\ p.seen.last \in DOMAIN asks
    <2>1. p.name \in AllNames
      BY <1>2 DEF Page
    <2> QED
      BY <1>3, <2>1 DEF SeenFits, RecordFits
  <1>5. p.seen.last \in Asks
    BY <1>4, AsksInDomain DEF IInv
  <1>6. <<>> \in Seq(Nat)
    OBVIOUS
  <1> QED
    BY <1>1, <1>4, <1>5, <1>6 DEF Letter

\* A closed page leaves nothing in hand, and at most one write more.
LEMMA CloseKeeps ==
  ASSUME IInv, ClosePage, UNCHANGED <<web, handler, submits>>, url' \in {0, Now},
         assoc' \subseteq Asks, lost' \subseteq Asks, hidden' \subseteq mail',
         troubles' \in 0 .. MaxTroubles
  PROVE  IInv'
  <1>1. /\ page' = <<>> /\ mail' = mail \union Closing
        /\ record' \in {record} \union {WithWrite(record, run) : run \in Begun}
    BY DEF ClosePage
  <1>2. SubmitsGrow
    BY SubmitsStay DEF IInv
  <1>3. /\ Now' = Now /\ FitsAsked' = FitsAsked /\ asks' = asks /\ reply' = reply
        /\ Current' = Current /\ told' = told /\ submits' = submits
        /\ \A l : IsGrant(l)' <=> IsGrant(l)
    BY ConversationStays
  <1>4. /\ Closing \subseteq Letter
        /\ \A l \in Closing : l.how = "reject" /\ l.ask \in DOMAIN asks
    BY LastWords
  <1>5. /\ record' \in Record /\ record'.messages = record.messages /\ record'.last = record.last
        /\ Authentic' /\ KeptBefore'
        /\ asks # <<>> /\ reply[Now] = "resolve" =>
              Holds(record.secret, Current, Now, told[Current].value)'
        /\ \A l \in mail : asks # <<>> /\ IsGrant(l) =>
              Holds(record.secret, Current, Now, l.value)' /\ Answer(Current, l.value)'
    BY <1>1, KeptAcross
  <1>6. \A l \in mail' : IsGrant(l) => l \in mail
    BY <1>1, <1>4 DEF IsGrant
  <1>7. InHand' = {}
    BY <1>1 DEF InHand
  <1>8. KeptNow'
    BY <1>3, <1>5, <1>6, <1>7 DEF KeptNow
  <1>9. Heard' <=> Heard
    BY <1>1, <1>3, <1>6 DEF Heard
  <1>10. Tokens'
    <2>1. Tokens
      BY DEF IInv
    <2> QED
      BY <1>3, <1>6, <1>7, <1>9, <2>1 DEF Tokens
  <1>11. PageSound'
    BY <1>1 DEF PageSound
  <1>12. Conversation' /\ Tellings' /\ Records' /\ ProofFits'
    <2>1. handler' \in {0, Now}
      BY DEF IInv, Conversation
    <2>2. \A l \in mail' : l.ask \in DOMAIN asks
      BY <1>1, <1>4 DEF IInv, Records
    <2>3. asks # <<>> /\ record.last # Now => submits'[Now] = 0
      BY DEF IInv, Records
    <2> QED
      BY <1>2, <1>5, <2>1, <2>2, <2>3, WebStands
  <1>13. TypeOK'
    <2>1. url' \in Asks \union {0}
      BY AsksInDomain DEF IInv, Conversation
    <2>2. mail' \subseteq Letter
      BY <1>1, <1>4 DEF IInv, TypeOK
    <2>3. page' \in Seq(Page) /\ Len(page') <= 1
      BY <1>1
    <2> QED
      BY <1>2, <1>5, <2>1, <2>2, <2>3 DEF IInv, TypeOK, web
  <1> QED
    BY <1>5, <1>8, <1>10, <1>11, <1>12, <1>13 DEF IInv

LEMMA Waiting == ASSUME TypeOK
                 PROVE  Outstanding \subseteq Asks
  BY AsksInDomain DEF Outstanding, Now

LEMMA LeaveInv ==
  ASSUME IInv, Leave, troubles' \in 0 .. MaxTroubles
  PROVE  IInv'
  <1>1. ClosePage /\ UNCHANGED <<web, handler, assoc, hidden, submits>>
    BY DEF Leave
  <1>2. url' \in {0, Now}
    BY DEF Leave, IInv, Conversation
  <1>3. assoc' \subseteq Asks /\ hidden' \subseteq mail'
    BY <1>1 DEF IInv, TypeOK, ClosePage
  <1>4. lost' \subseteq Asks
    BY Waiting DEF Leave, IInv, TypeOK
  <1> QED
    BY <1>1, <1>2, <1>3, <1>4, CloseKeeps

LEMMA CloseInv ==
  ASSUME IInv, Close
  PROVE  IInv'
  <1>1. troubles' \in 0 .. MaxTroubles
    BY AsksAre DEF Close, IInv, TypeOK
  <1> QED
    BY <1>1, LeaveInv DEF Close

LEMMA DismissInv ==
  ASSUME IInv, Dismiss
  PROVE  IInv'
  BY LeaveInv DEF Dismiss, IInv, TypeOK

\* What is hidden, and what is counted, is nothing to the conversation.
LEMMA NothingSaid ==
  ASSUME IInv, UNCHANGED <<web, record, handler, url, page, assoc, mail, submits>>,
         hidden' \subseteq mail', lost' \subseteq Asks, troubles' \in 0 .. MaxTroubles
  PROVE  IInv'
  <1>1. TypeOK'
    BY DEF IInv, TypeOK, web
  <1>2. SubmitsGrow
    BY SubmitsStay DEF IInv
  <1>3. /\ Now' = Now /\ Current' = Current /\ Named' = Named /\ FitsAsked' = FitsAsked
        /\ asks' = asks /\ reply' = reply /\ told' = told
        /\ \A l : IsGrant(l)' <=> IsGrant(l)
        /\ Heard' = Heard
    BY <1>2, ConversationStays
  <1>4. Conversation' /\ Tellings' /\ Records' /\ ProofFits'
    <2>1. handler' \in {0, Now} /\ url' \in {0, Now}
      BY <1>2 DEF IInv, Conversation
    <2>2. /\ \A l \in mail' : l.ask \in DOMAIN asks
          /\ asks # <<>> /\ record.last # Now => submits'[Now] = 0
      BY <1>2 DEF IInv, Records
    <2> QED
      BY <1>2, <2>1, <2>2, WebStands
  <1>5. InHand' = InHand
    BY <1>2, <1>3 DEF InHand
  <1>6. Tokens'
    <2>1. Tokens
      BY DEF IInv
    <2> QED
      BY <1>3, <1>5, <2>1 DEF Tokens
  <1>7. /\ Authentic' /\ KeptBefore'
        /\ asks # <<>> /\ reply[Now] = "resolve" =>
              Holds(record.secret, Current, Now, told[Current].value)'
        /\ \A l \in mail : asks # <<>> /\ IsGrant(l) =>
              Holds(record.secret, Current, Now, l.value)' /\ Answer(Current, l.value)'
        /\ \A v, j : asks # <<>> /\ j \in InHand /\ page[1].runs[j].stage = "written"
               /\ page[1].runs[j].value = v => Holds(record.secret, Current, Now, v)'
    BY <1>2, KeptAcross
  <1>8. KeptNow'
    <2>1. ASSUME NEW j \in InHand', page[1]'.runs[j].stage = "written", asks # <<>>,
                 NEW v, v = page[1]'.runs[j].value
          PROVE  Holds(record.secret, Current, Now, v)'
      BY <1>2, <1>5, <1>7, <2>1
    <2> QED
      BY <1>3, <1>7, <2>1 DEF KeptNow
  <1>9. PageSound'
    <2>1. CASE page = <<>>
      BY <1>2, <2>1 DEF PageSound
    <2>2. CASE page # <<>>
      <3>1. PICK p : page[1] = p /\ PageFits(p) /\ InOrder(p.runs) /\ Settled(p) /\ p.name \in Named
        BY <2>2, PageAtHand
      <3>2. PageFits(p)'
        <4>1. \A i \in DOMAIN p.runs : RunFits(p, p.runs[i])'
          BY <1>2, <3>1, RunPersists DEF IInv, PageFits
        <4>2. p.stage # "waiting" => SeenFits(p)'
          BY <1>2, <3>1, SeenPersists DEF IInv, PageFits
        <4> QED
          BY <1>3, <3>1, <4>1, <4>2 DEF PageFits
      <3>3. InOrder(p.runs)' /\ Settled(p)'
        BY <1>3, <3>1 DEF InOrder, Rank, Settled
      <3>4. page'[1] = p
        BY <1>2, <3>1
      <3> QED
        BY <3>2, <3>3, <3>4 DEF PageSound
    <2> QED
      BY <2>1, <2>2
  <1> QED
    BY <1>1, <1>4, <1>6, <1>7, <1>8, <1>9 DEF IInv

LEMMA HideInv ==
  ASSUME IInv, NEW m \in mail, Hide(m)
  PROVE  IInv'
  <1>1. CASE m.ask \in assoc
    <2>1. /\ ClosePage /\ UNCHANGED <<web, handler, submits, troubles>> /\ url' = 0
          /\ hidden' = hidden \union {m} /\ assoc' = assoc \ {m.ask}
          /\ lost' = lost \union (Outstanding \ {m.ask})
      BY <1>1 DEF Hide
    <2>2. hidden' \subseteq mail' /\ assoc' \subseteq Asks /\ troubles' \in 0 .. MaxTroubles
      BY <2>1 DEF IInv, TypeOK, ClosePage
    <2>3. lost' \subseteq Asks
      BY <2>1, Waiting DEF IInv, TypeOK
    <2> QED
      BY <2>1, <2>2, <2>3, CloseKeeps
  <1>2. CASE m.ask \notin assoc
    <2>1. /\ UNCHANGED <<web, record, handler, url, page, assoc, mail, submits, lost, troubles>>
          /\ hidden' = hidden \union {m}
      BY <1>2 DEF Hide
    <2>2. hidden' \subseteq mail' /\ lost' \subseteq Asks /\ troubles' \in 0 .. MaxTroubles
      BY <2>1 DEF IInv, TypeOK
    <2> QED
      BY <2>1, <2>2, NothingSaid
  <1> QED
    BY <1>1, <1>2

-----------------------------------------------------------------------------
(* The web app asks                                                        *)
LEMMA AskInv ==
  ASSUME IInv, NEW kind \in {"fits", "wrong", "unfit", "view"}, Ask(kind)
  PROVE  IInv'
  <1> DEFINE n == Now + 1
             name == Names(type)[count + 1]
  <1>1. /\ n \in Asks /\ Outstanding = {} /\ count \in 0 .. Len(Names(type)) - 1
        /\ asks' = Append(asks, [name |-> name, kind |-> kind])
        /\ count' = count + 1 /\ handler' = n /\ url' = n /\ ClosePage
        /\ assoc' = assoc \union {n}
        /\ troubles' = (IF kind = "fits" THEN troubles ELSE troubles + 1) /\ troubles' <= MaxTroubles
        /\ UNCHANGED <<type, reply, told, hidden, submits, lost>>
    BY DEF Ask, Now, history
  <1>2. TypeOK /\ type \in Types
    BY DEF IInv, TypeOK
  <1>3. Now \in Nat /\ n # Now /\ DOMAIN asks = 1 .. Now /\ (asks = <<>> <=> Now = 0)
        /\ (asks # <<>> => Now \in DOMAIN asks /\ Now \in Asks)
    BY <1>2, AsksInDomain
  <1>4. name \in Named /\ Place(name) = count + 1 /\ name \in AllNames /\ count \in Int
    <2>1. count + 1 \in 1 .. Len(Names(type))
      BY <1>1, <1>2, NamesAre
    <2> HIDE DEF name
    <2>2. name = Names(type)[count + 1]
      BY DEF name
    <2> QED
      BY <1>2, <2>1, <2>2, NamesAre DEF TypeOK
  <1> HIDE DEF name
  <1> DEFINE S == [name : AllNames, kind : {"fits", "wrong", "unfit", "view"}]
             e == [name |-> name, kind |-> kind]
  <1>5. e \in S /\ e.name = name /\ e.kind = kind
    BY <1>4
  <1>6. /\ asks' \in Seq(S) /\ Len(asks') = n /\ DOMAIN asks' = 1 .. n
        /\ \A r \in 1 .. Now : asks'[r] = asks[r]
        /\ asks'[n] = e
    <2>1. asks \in Seq(S)
      BY <1>2 DEF TypeOK
    <2> HIDE DEF e, S
    <2>2. asks' = Append(asks, e)
      BY <1>1 DEF e
    <2> QED
      BY <1>5, <2>1, <2>2, AppendProperties, LenProperties DEF Now
  <1> HIDE DEF e, S
  <1>7. /\ Now' = n /\ Current' = name /\ asks' # <<>> /\ Named' = Named
        /\ \A r \in DOMAIN asks : r \in DOMAIN asks' /\ asks'[r] = asks[r] /\ r # n
        /\ n \in DOMAIN asks' /\ n \notin DOMAIN asks
    <2>1. Now' = n
      BY <1>6 DEF Now
    <2>2. Current' = name
      BY <1>5, <1>6 DEF Current
    <2>3. Named' = Named
      BY <1>1 DEF Named
    <2>4. asks' # <<>>
      BY <1>3, <1>6
    <2> QED
      BY <1>3, <1>6, <2>1, <2>2, <2>3, <2>4
  <1>8. \A r \in Asks : r <= Now => reply[r] # "none"
    <2>1. asks # <<>> => reply[Now] # "none"
      BY <1>1 DEF Outstanding, Now
    <2>2. \A r \in Asks : r < Now => reply[r] # "none"
      BY DEF IInv, Conversation
    <2>3. \A r \in Asks : r \in Nat /\ r # 0
      BY AsksAre
    <2> QED
      BY <1>3, <2>1, <2>2, <2>3
  <1>9. reply[n] = "none" /\ submits[n] = 0
    BY <1>1, <1>3 DEF IInv, Conversation
  <1>10. /\ page' = <<>> /\ mail' = mail \union Closing
         /\ record' \in {record} \union {WithWrite(record, run) : run \in Begun}
    BY <1>1 DEF ClosePage
  <1>11. mail' \subseteq Letter /\ \A l \in mail' : l.ask \in DOMAIN asks
    BY <1>2, <1>10, LastWords DEF IInv, Records, TypeOK
  <1>12. PICK rec : rec = record'
    OBVIOUS
  <1>13. /\ rec \in Record /\ rec.messages = record.messages /\ rec.last = record.last
         /\ rec.secret.valid = "yes" => FitsAsked
         /\ asks # <<>> => \A nm \in Named : Place(nm) < Place(Current) =>
               told[nm].ask # 0 /\ Holds(rec.secret, nm, told[nm].ask, told[nm].value)
         /\ asks # <<>> /\ reply[Now] = "resolve" =>
               Holds(rec.secret, Current, Now, told[Current].value)
    BY <1>10, <1>12, WritesKeep
  <1>14. Conversation'
    <2>1. \A r \in DOMAIN asks' : asks'[r].name \in Named
      <3>1. \A r \in DOMAIN asks : asks[r].name \in Named
        BY DEF IInv, Conversation
      <3>2. \A r \in DOMAIN asks' : r \in DOMAIN asks \/ r = n
        BY <1>3, <1>6
      <3> QED
        BY <1>4, <1>5, <1>6, <1>7, <3>1, <3>2
    <2>2. count' <= Place(name) /\ reply'[n] # "reject"
      BY <1>1, <1>4, <1>9
    <2>3. \A r \in Asks : r < n => reply'[r] # "none"
      <3>1. \A r \in Asks : r < n => r <= Now
        BY <1>3, AsksAre
      <3> QED
        BY <1>1, <1>8, <3>1
    <2>4. \A r \in Asks : r > n => reply'[r] = "none" /\ submits'[r] = 0
      <3>1. \A r \in Asks : r > n => r > Now
        BY <1>3, AsksAre
      <3> QED
        BY <1>1, <3>1 DEF IInv, Conversation
    <2> QED
      BY <1>1, <1>4, <1>7, <2>1, <2>2, <2>3, <2>4 DEF Conversation, Place
  <1>15. Tellings'
    <2>1. Tellings
      BY DEF IInv
    <2> QED
      BY <1>1, <1>7, <1>9, <2>1 DEF Tellings
  <1>16. Records'
    <2>1. RecordFits(record)
      BY DEF IInv, Records
    <2>2. RecordFits(rec)'
      <3>1. RecordFits(rec)
        BY <1>13, <2>1 DEF RecordFits
      <3> QED
        BY <1>7, <3>1 DEF RecordFits
    <2> QED
      BY <1>1, <1>7, <1>9, <1>11, <1>12, <2>2 DEF Records, RecordFits
  <1>17. InHand' = {} /\ ~ Heard' /\ \A l \in mail' : ~ IsGrant(l)'
    <2>1. InHand' = {}
      BY <1>10 DEF InHand
    <2>2. \A l \in mail' : ~ IsGrant(l)'
      BY <1>7, <1>11 DEF IsGrant
    <2> QED
      BY <1>1, <1>7, <1>9, <2>1, <2>2 DEF Heard
  <1>18. PageSound' /\ Tokens'
    BY <1>1, <1>7, <1>9, <1>10, <1>17 DEF PageSound, Tokens
  <1>19. KeptNow'
    BY <1>1, <1>7, <1>9, <1>17 DEF KeptNow
  <1>20. ASSUME NEW nm \in Named, Place(nm) < Place(name)
         PROVE  told[nm].ask # 0 /\ Holds(rec.secret, nm, told[nm].ask, told[nm].value)
    <2>1. Place(nm) \in 1 .. 4 /\ Place(nm) <= count
      BY <1>2, <1>4, <1>20, NamesAre
    <2>2. asks # <<>>
      BY <1>4, <2>1 DEF IInv, Conversation
    <2>3. Current \in Named /\ Place(Current) \in 1 .. 4 /\ count <= Place(Current)
      BY <1>2, <2>2, NamesAre, AsksInDomain DEF IInv, Conversation
    <2>4. CASE Place(nm) < Place(Current)
      BY <1>13, <2>2, <2>4
    <2>5. CASE Place(nm) = Place(Current)
      <3>1. nm = Current
        BY <1>2, <2>3, <2>5, NamesAre
      <3>2. count = Place(Current)
        BY <1>4, <2>1, <2>3, <2>5
      <3>3. reply[Now] = "resolve"
        <4>1. reply[Now] # "reject"
          BY <2>2, <3>2 DEF IInv, Conversation
        <4>2. reply[Now] # "none"
          BY <1>3, <1>8, <2>2
        <4> QED
          BY <1>2, <1>3, <2>2, <4>1, <4>2 DEF TypeOK
      <3>4. told[Current].ask = Now
        BY <2>2, <3>3 DEF IInv, Tellings
      <3>5. Now # 0
        BY <1>3, <2>2
      <3> QED
        BY <1>13, <2>2, <3>1, <3>3, <3>4, <3>5
    <2> QED
      BY <1>4, <2>1, <2>3, <2>4, <2>5
  <1>21. KeptBefore'
    <2>1. submits' = submits /\ told' = told
      BY <1>1
    <2>2. \A nm, r, v : Holds(rec.secret, nm, r, v) <=> Holds(rec.secret, nm, r, v)'
      BY <2>1 DEF Holds, Made, Left
    <2> QED
      BY <1>7, <1>12, <1>20, <2>1, <2>2 DEF KeptBefore, Place, Holds, Made, Left
  <1>22. ProofFits'
    <2>1. ProofFits
      BY DEF IInv
    <2>2. told' = told /\ submits' = submits
      BY <1>1
    <2> QED
      BY <2>1, <2>2 DEF ProofFits, Undisturbed
  <1>23. Authentic'
    <2>1. FitsAsked => FitsAsked'
      BY <1>7 DEF FitsAsked
    <2> QED
      BY <1>12, <1>13, <2>1 DEF Authentic
  <1>24. TypeOK'
    <2>1. count' \in Int
      BY <1>1, <1>4
    <2>2. asks' \in Seq([name : AllNames, kind : {"fits", "wrong", "unfit", "view"}]) /\ Len(asks') <= MaxAsks
      BY <1>1, <1>6, AsksAre DEF S
    <2>3. page' \in Seq(Page) /\ Len(page') <= 1
      BY <1>10
    <2>4. troubles' \in 0 .. MaxTroubles
      <3>1. troubles \in 0 .. MaxTroubles /\ MaxTroubles \in Nat
        BY <1>2, AsksAre DEF TypeOK
      <3> QED
        BY <1>1, <3>1
    <2>5. hidden' \subseteq mail' /\ assoc' \subseteq Asks
      BY <1>1, <1>2, <1>10 DEF TypeOK
    <2> QED
      BY <1>1, <1>2, <1>11, <1>12, <1>13, <2>1, <2>2, <2>3, <2>4, <2>5 DEF TypeOK
  <1> QED
    BY <1>14, <1>15, <1>16, <1>18, <1>19, <1>21, <1>22, <1>23, <1>24 DEF IInv

-----------------------------------------------------------------------------
(* The background answers, and writes the message down                     *)
LEMMA UpdateInv ==
  ASSUME IInv, Update
  PROVE  IInv'
  <1>1. /\ UNCHANGED <<web, url, page, assoc, mail, hidden, submits, lost, troubles>>
        /\ handler # 0 /\ handler' = 0
        /\ record' = [record EXCEPT !.messages[asks[handler].name] = handler, !.last = handler]
    BY DEF Update, letters, history
  <1>2. TypeOK
    BY DEF IInv
  <1>3. handler = Now /\ asks # <<>> /\ Now \in DOMAIN asks /\ Now \in Asks /\ Now # 0
        /\ Current \in AllNames /\ Current = asks[Now].name
    <2>1. handler = Now
      BY <1>1 DEF IInv, Conversation
    <2> QED
      BY <1>1, <1>2, <2>1, AsksInDomain
  <1>4. /\ Now' = Now /\ FitsAsked' = FitsAsked /\ asks' = asks /\ Heard' = Heard /\ reply' = reply
        /\ Current' = Current /\ told' = told /\ Named' = Named /\ submits' = submits
        /\ \A l : IsGrant(l)' <=> IsGrant(l)
        /\ \A rec : RecordFits(rec)' <=> RecordFits(rec)
    BY <1>1, ConversationStays
  <1>5. SubmitsGrow
    BY <1>1, <1>2, SubmitsStay
  <1>6. PICK rec : rec = record'
    OBVIOUS
  <1>7. /\ rec \in Record /\ rec.last = Now /\ rec.messages[Current] = Now
        /\ \A nm \in AllNames : nm # Current => rec.messages[nm] = record.messages[nm]
        /\ rec.secret = record.secret
    <2>1. rec = [record EXCEPT !.messages[Current] = Now, !.last = Now]
      BY <1>1, <1>3, <1>6
    <2>2. record \in Record
      BY <1>2 DEF TypeOK
    <2> QED
      BY <1>3, <2>1, <2>2 DEF Record
  <1>8. RecordFits(rec)
    <2>1. RecordFits(record)
      BY DEF IInv, Records
    <2> QED
      BY <1>3, <1>7, <2>1 DEF RecordFits
  <1>9. Records'
    <2>1. \A l \in mail' : l.ask \in DOMAIN asks
      BY <1>1 DEF IInv, Records
    <2> QED
      BY <1>4, <1>6, <1>7, <1>8, <2>1 DEF Records
  <1>10. Conversation'
    BY <1>1, <1>3, <1>4 DEF IInv, Conversation, Place, web
  <1>11. Tellings'
    BY <1>1, <1>4 DEF IInv, Tellings
  <1>12. ProofFits'
    BY <1>1, <1>5, ProofStands DEF IInv
  <1>13. /\ Authentic' /\ KeptBefore'
         /\ reply[Now] = "resolve" => Holds(record.secret, Current, Now, told[Current].value)'
         /\ \A l \in mail : IsGrant(l) =>
               Holds(record.secret, Current, Now, l.value)' /\ Answer(Current, l.value)'
         /\ \A v, j : j \in InHand /\ page[1].runs[j].stage = "written" /\ page[1].runs[j].value = v
                => Holds(record.secret, Current, Now, v)'
    <2>1. PICK old : old = record
      OBVIOUS
    <2> QED
      BY <1>1, <1>3, <1>6, <1>7, <2>1, SecretKept
  <1>14. InHand' = InHand
    BY <1>1, <1>4 DEF InHand
  <1>15. Tokens'
    BY <1>1, <1>4, <1>14 DEF IInv, Tokens
  <1>16. KeptNow'
    <2>1. ASSUME NEW j \in InHand', page[1]'.runs[j].stage = "written",
                 NEW v, v = page[1]'.runs[j].value
          PROVE  Holds(record.secret, Current, Now, v)'
      BY <1>1, <1>13, <1>14, <2>1
    <2> QED
      BY <1>1, <1>4, <1>13, <2>1 DEF KeptNow
  <1>17. PageSound'
    <2>1. CASE page = <<>>
      BY <1>1, <2>1 DEF PageSound
    <2>2. CASE page # <<>>
      <3>1. PICK p : page[1] = p /\ PageFits(p) /\ InOrder(p.runs) /\ Settled(p) /\ p.name \in Named
        BY <2>2, PageAtHand
      <3>2. \A i \in DOMAIN p.runs : RunFits(p, p.runs[i])'
        BY <1>1, <1>5, <3>1, RunPersists DEF IInv, PageFits
      <3>3. p.stage # "waiting" => SeenFits(p)'
        BY <1>4, <1>6, <1>7, <3>1 DEF PageFits, SeenFits, Once
      <3>4. PageFits(p)'
        BY <1>1, <1>4, <3>1, <3>2, <3>3 DEF PageFits
      <3>5. InOrder(p.runs)' /\ Settled(p)'
        BY <1>4, <3>1 DEF InOrder, Rank, Settled
      <3>6. page'[1] = p
        BY <1>1, <3>1
      <3> QED
        BY <3>4, <3>5, <3>6 DEF PageSound
    <2> QED
      BY <2>1, <2>2
  <1>18. TypeOK'
    BY <1>1, <1>2, <1>6, <1>7 DEF TypeOK, web
  <1> QED
    BY <1>9, <1>10, <1>11, <1>12, <1>13, <1>15, <1>16, <1>17, <1>18 DEF IInv

\* Initially nothing was asked.
LEMMA InitInv ==
  ASSUME Init
  PROVE  IInv
  <1>1. /\ asks = <<>> /\ Now = 0 /\ DOMAIN asks = {} /\ mail = {} /\ page = <<>> /\ count = 0
        /\ InHand = {} /\ record = NoRecord
        /\ \A nm \in AllNames : told[nm].ask = 0
        /\ \A r \in Asks : reply[r] = "none" /\ submits[r] = 0
    BY DEF Init, Now, InHand
  <1>2. TypeOK
    <2>1. record \in Record
      BY BlankRecord DEF Init
    <2>2. told \in [AllNames -> [ask : Asks \union {0}, value : Seq(Nat)]]
      BY DEF Init
    <2>3. /\ asks \in Seq([name : AllNames, kind : {"fits", "wrong", "unfit", "view"}]) /\ Len(asks) <= MaxAsks
          /\ page \in Seq(Page) /\ Len(page) <= 1
      BY <1>1, AsksAre
    <2>4. troubles \in 0 .. MaxTroubles
      BY AsksAre DEF Init
    <2> QED
      BY <2>1, <2>2, <2>3, <2>4 DEF Init, TypeOK
  <1>3. Conversation
    <2>1. \A r \in Asks : ~ (r < 0)
      BY AsksAre
    <2>2. handler = 0 /\ url = 0
      BY DEF Init
    <2>3. count <= 0
      BY <1>1
    <2>4. \A r \in Asks : r < Now => reply[r] # "none"
      BY <1>1, <2>1
    <2>5. \A r \in DOMAIN asks : asks[r].name \in Named
      BY <1>1
    <2>6. \A r \in Asks : r > Now => reply[r] = "none" /\ submits[r] = 0
      BY <1>1
    <2>7. asks # <<>> => /\ count <= Place(Current)
                         /\ count = Place(Current) => reply[Now] # "reject"
      BY <1>1
    <2> QED
      BY <2>2, <2>3, <2>4, <2>5, <2>6, <2>7 DEF Conversation
  <1>4. Tellings
    BY <1>1 DEF Tellings
  <1>5. Records
    BY <1>1 DEF Records, RecordFits, NoRecord
  <1>6. PageSound /\ Tokens /\ KeptBefore /\ KeptNow
    BY <1>1 DEF PageSound, Tokens, KeptBefore, KeptNow
  <1>7. Authentic
    BY <1>1 DEF Authentic, NoRecord, NoSecret
  <1>8. ProofFits
    <2>1. ~ Undisturbed(<<"SelectSecurePassword", "ExchangePublicKeys", "ComputeClientProof">>)
          \/ "ComputeClientProof" \notin AllNames
      <3> DEFINE ns == <<"SelectSecurePassword", "ExchangePublicKeys", "ComputeClientProof">>
      <3>1. ns[3] = "ComputeClientProof" /\ 3 \in DOMAIN ns
        OBVIOUS
      <3> HIDE DEF ns
      <3>2. "ComputeClientProof" \in AllNames => ~ Undisturbed(ns)
        BY <1>1, <3>1 DEF Undisturbed
      <3> QED
        BY <3>2 DEF ns
    <2>2. ~ Undisturbed(<<"SelectKey", "SignNonce">>) \/ "SignNonce" \notin AllNames
      <3> DEFINE ns == <<"SelectKey", "SignNonce">>
      <3>1. ns[2] = "SignNonce" /\ 2 \in DOMAIN ns
        OBVIOUS
      <3> HIDE DEF ns
      <3>2. "SignNonce" \in AllNames => ~ Undisturbed(ns)
        BY <1>1, <3>1 DEF Undisturbed
      <3> QED
        BY <3>2 DEF ns
    <2> QED
      BY <2>1, <2>2 DEF ProofFits
  <1> QED
    BY <1>2, <1>3, <1>4, <1>5, <1>6, <1>7, <1>8 DEF IInv

\* The letter of an answer goes; the first answer is what the web app hears.
LEMMA SettleKeeps ==
  ASSUME IInv, NEW r \in DOMAIN asks, NEW how \in {"resolve", "reject"}, NEW value \in Seq(Nat),
         Settle(r, how, value),
         UNCHANGED <<record, url, page, assoc, submits, lost, troubles>>,
         handler' \in {0, handler}, mail' \subseteq mail, hidden' \subseteq mail',
         r = Now /\ how = "resolve" => \E m \in mail \ mail' : IsGrant(m) /\ m.value = value
  PROVE  IInv'
  <1>1. TypeOK
    BY DEF IInv
  <1>2. /\ asks # <<>> /\ Now \in DOMAIN asks /\ Now \in Asks /\ Now # 0 /\ Now \in Nat
        /\ DOMAIN asks = 1 .. Now /\ r \in 1 .. Now /\ r \in Asks /\ Asks \subseteq Nat
        /\ Current \in AllNames /\ Current = asks[Now].name /\ Current \in Named
        /\ \A x \in DOMAIN asks : x \in Asks /\ asks[x].name \in AllNames
    BY <1>1, AsksInDomain, AsksAre DEF IInv, Conversation
  <1>3. /\ asks' = asks /\ type' = type
        /\ reply' = (IF reply[r] = "none" THEN [reply EXCEPT ![r] = how] ELSE reply)
        /\ count' = (IF how = "reject" THEN count - 1 ELSE count)
        /\ told' = (IF reply[r] = "none" /\ how = "resolve"
                    THEN [told EXCEPT ![asks[r].name] = [ask |-> r, value |-> value]] ELSE told)
    BY DEF Settle
  <1>4. /\ Now' = Now /\ Current' = Current /\ Named' = Named /\ FitsAsked' = FitsAsked
        /\ \A rec : RecordFits(rec)' <=> RecordFits(rec)
        /\ \A l : IsGrant(l)' <=> IsGrant(l)
        /\ submits' = submits /\ record' = record
    BY <1>3 DEF Now, Current, Named, FitsAsked, RecordFits, IsGrant
  <1>5. reply[r] = "none" => r = Now
    BY <1>2 DEF IInv, Conversation
  <1>6. /\ count \in Int /\ reply \in [Asks -> {"none", "resolve", "reject"}]
        /\ told \in [AllNames -> [ask : Asks \union {0}, value : Seq(Nat)]]
    BY <1>1 DEF TypeOK
  \* What has changed in what the web app was told.
  <1>7. /\ \A x \in Asks : reply'[x] = (IF x = Now /\ r = Now /\ reply[Now] = "none" THEN how ELSE reply[x])
        /\ \A nm \in AllNames : nm # Current => told'[nm] = told[nm]
        /\ told'[Current] = (IF r = Now /\ reply[Now] = "none" /\ how = "resolve"
                             THEN [ask |-> Now, value |-> value] ELSE told[Current])
    BY <1>2, <1>3, <1>5, <1>6
  <1>8. /\ reply' \in [Asks -> {"none", "resolve", "reject"}]
        /\ told' \in [AllNames -> [ask : Asks \union {0}, value : Seq(Nat)]]
        /\ count' \in Int
    BY <1>2, <1>3, <1>6
  \* An answer that the web app hears was on its way.
  <1>9. r = Now /\ how = "resolve" => \E m \in mail : m \notin mail' /\ IsGrant(m) /\ m.value = value
    OBVIOUS
  <1>10. Heard' => Heard
    <2>1. reply'[Now] = "resolve" => Heard
      BY <1>2, <1>7, <1>9 DEF Heard
    <2> QED
      BY <1>4, <2>1 DEF Heard
  <1>11. InHand' = InHand
    BY <1>3, <1>4 DEF InHand
  <1>12. /\ Current = "ComputeClientProof" =>
                told'["SelectSecurePassword"] = told["SelectSecurePassword"]
                /\ told'["ExchangePublicKeys"] = told["ExchangePublicKeys"]
         /\ Current = "SignNonce" => told'["SelectKey"] = told["SelectKey"]
    <2>1. Current = "ComputeClientProof" =>
             "SelectSecurePassword" \in AllNames /\ "ExchangePublicKeys" \in AllNames
      BY <1>1, <1>2, NamesAre DEF TypeOK
    <2>2. Current = "SignNonce" => "SelectKey" \in AllNames
      BY <1>1, <1>2, NamesAre DEF TypeOK
    <2> QED
      BY <1>7, <2>1, <2>2
  <1>13. \A nm, v : nm = Current => (Answer(nm, v)' <=> Answer(nm, v))
    BY <1>4, <1>12 DEF Answer, Once
  <1>14. Conversation'
    <2>1. Place(Current) \in 1 .. 4 /\ count <= Place(Current)
      BY <1>1, <1>2, NamesAre DEF IInv, Conversation, TypeOK
    <2>2. count' <= Place(Current)
      BY <1>3, <1>6, <2>1
    <2>3. count' = Place(Current) => reply'[Now] # "reject"
      <3>1. CASE how = "reject"
        BY <1>3, <1>6, <2>1, <3>1
      <3>2. CASE how # "reject"
        <4>1. count = Place(Current) => reply[Now] # "reject"
          BY <1>2 DEF IInv, Conversation
        <4> QED
          BY <1>2, <1>3, <1>7, <3>2, <4>1
      <3> QED
        BY <3>1, <3>2
    <2>4. \A x \in Asks : x < Now => reply'[x] # "none"
      BY <1>2, <1>7 DEF IInv, Conversation
    <2>5. \A x \in Asks : x > Now => reply'[x] = "none" /\ submits'[x] = 0
      BY <1>2, <1>4, <1>7 DEF IInv, Conversation
    <2>6. handler' \in {0, Now} /\ url' \in {0, Now}
      BY DEF IInv, Conversation
    <2>7. \A x \in DOMAIN asks' : asks'[x].name \in Named
      BY <1>3 DEF IInv, Conversation
    <2> QED
      BY <1>2, <1>3, <1>4, <2>2, <2>3, <2>4, <2>5, <2>6, <2>7 DEF Conversation, Place
  <1>15. submits[Now] = 0 => ~ Heard
    BY <1>2 DEF IInv, Tokens
  <1>16. Tellings'
    <2>1. ASSUME NEW nm \in AllNames, told'[nm].ask # 0
          PROVE  /\ told'[nm].ask \in DOMAIN asks
                 /\ asks[told'[nm].ask].name = nm
                 /\ reply'[told'[nm].ask] = "resolve"
      <3>1. CASE told'[nm] = told[nm]
        <4>1. /\ told[nm].ask \in DOMAIN asks /\ asks[told[nm].ask].name = nm
              /\ reply[told[nm].ask] = "resolve"
          BY <2>1, <3>1 DEF IInv, Tellings
        <4> QED
          BY <1>2, <1>7, <3>1, <4>1
      <3>2. CASE told'[nm] # told[nm]
        BY <1>2, <1>7, <2>1, <3>2
      <3> QED
        BY <3>1, <3>2
    <2>2. ASSUME NEW x \in Asks, reply'[x] = "resolve"
          PROVE  submits[x] # 0
      <3>1. CASE reply[x] = "resolve"
        BY <3>1 DEF IInv, Tellings
      <3>2. CASE reply[x] # "resolve"
        <4>1. x = Now /\ r = Now /\ how = "resolve"
          BY <1>7, <2>2, <3>2
        <4> QED
          BY <1>9, <1>15, <4>1 DEF Heard
      <3> QED
        BY <3>1, <3>2
    <2>3. reply'[Now] = "resolve" => told'[Current].ask = Now
      <3>1. reply[Now] = "resolve" => told[Current].ask = Now
        BY <1>2 DEF IInv, Tellings
      <3> QED
        BY <1>2, <1>7, <3>1
    <2> QED
      BY <1>3, <1>4, <2>1, <2>2, <2>3 DEF Tellings
  <1>17. Records'
    BY <1>3, <1>4 DEF IInv, Records
  <1>18. Authentic'
    BY <1>4 DEF IInv, Authentic
  <1>19. PageSound'
    <2>1. CASE page = <<>>
      BY <2>1 DEF PageSound
    <2>2. CASE page # <<>>
      <3>1. PICK p : page[1] = p /\ PageFits(p) /\ InOrder(p.runs) /\ Settled(p) /\ p.name \in Named
        BY <2>2, PageAtHand
      <3>2. p.name = Current
        BY <3>1 DEF PageFits
      <3>3. ASSUME NEW i \in DOMAIN p.runs
            PROVE  RunFits(p, p.runs[i])'
        <4>1. PICK run : run = p.runs[i] /\ RunFits(p, run)
          BY <3>1 DEF PageFits
        <4>2. run.name = Current
          BY <3>2, <4>1 DEF RunFits
        <4>3. ValueFits(run) => ValueFits(run)'
          BY <1>4, <1>13, <4>2 DEF ValueFits
        <4> QED
          BY <1>3, <1>4, <4>1, <4>3 DEF RunFits
      <3>4. p.stage # "waiting" => SeenFits(p)'
        <4>1. p.name = "SignNonce" => (Once("SelectKey")' <=> Once("SelectKey"))
          BY <1>4, <1>12, <3>2 DEF Once
        <4> QED
          BY <1>4, <1>12, <3>1, <3>2, <4>1 DEF PageFits, SeenFits
      <3>5. PageFits(p)'
        BY <1>3, <1>4, <3>1, <3>3, <3>4 DEF PageFits
      <3>6. InOrder(p.runs)' /\ Settled(p)'
        BY <1>4, <1>10, <3>1 DEF InOrder, Rank, Settled
      <3>7. page'[1] = p
        BY <3>1
      <3> QED
        BY <3>5, <3>6, <3>7 DEF PageSound
    <2> QED
      BY <2>1, <2>2
  <1>20. Tokens'
    <2>1. Tokens /\ asks # <<>>
      BY <1>2 DEF IInv
    <2>2. ASSUME submits[Now] = 1, NEW l \in mail', IsGrant(l)
          PROVE  reply'[Now] # "resolve"
      <3>1. \A m \in mail : IsGrant(m) => l = m
        BY <2>1, <2>2 DEF Tokens
      <3>2. reply[Now] # "resolve"
        BY <2>1, <2>2 DEF Tokens
      <3> QED
        BY <1>2, <1>7, <1>9, <2>2, <3>1, <3>2
    <2> QED
      BY <1>4, <1>10, <1>11, <2>1, <2>2 DEF Tokens
  <1>21. \A nm, x, v : Holds(record.secret, nm, x, v) => Holds(record.secret, nm, x, v)'
    BY <1>4 DEF Holds, Made, Left
  <1>22. KeptBefore'
    <2>1. ASSUME NEW nm \in Named, Place(nm) < Place(Current)
          PROVE  told'[nm].ask # 0 /\ Holds(record.secret, nm, told[nm].ask, told[nm].value)'
      <3>1. nm # Current /\ nm \in AllNames
        <4>1. Place(Current) \in 1 .. 4
          BY <1>1, <1>2, NamesAre DEF TypeOK
        <4> QED
          BY <1>1, <2>1, <4>1, NamesAre DEF TypeOK
      <3>2. told[nm].ask # 0 /\ Holds(record.secret, nm, told[nm].ask, told[nm].value)
        BY <1>2, <2>1 DEF IInv, KeptBefore
      <3>3. told'[nm] = told[nm]
        BY <1>7, <3>1
      <3> QED
        BY <1>4, <3>2, <3>3 DEF Holds, Made, Left
    <2> QED
      BY <1>3, <1>4, <2>1 DEF KeptBefore, Place
  <1>23. r = Now /\ how = "resolve" =>
            Holds(record.secret, Current, Now, value) /\ Answer(Current, value)
    BY <1>2, <1>9 DEF IInv, KeptNow
  <1>24. KeptNow'
    <2>1. KeptNow /\ asks # <<>>
      BY <1>2 DEF IInv
    <2>2. reply'[Now] = "resolve" => Holds(record.secret, Current, Now, told'[Current].value)
      BY <1>2, <1>7, <1>23, <2>1 DEF KeptNow
    <2>3. reply'[Now] = "resolve" => Holds(record.secret, Current, Now, told[Current].value)'
      BY <1>4, <2>2 DEF Holds, Made, Left
    <2>4. ASSUME NEW l \in mail', IsGrant(l)
          PROVE  Holds(record.secret, Current, Now, l.value)' /\ Answer(Current, l.value)'
      <3>1. Holds(record.secret, Current, Now, l.value) /\ Answer(Current, l.value)
        BY <2>1, <2>4 DEF KeptNow
      <3>2. Holds(record.secret, Current, Now, l.value)'
        BY <1>4, <3>1 DEF Holds, Made, Left
      <3>3. PICK nm : nm = Current /\ Answer(nm, l.value)'
        BY <1>13, <3>1
      <3> QED
        BY <1>4, <3>2, <3>3 DEF Answer
    <2>5. ASSUME NEW j \in InHand', page[1]'.runs[j].stage = "written",
                 NEW v, v = page[1]'.runs[j].value
          PROVE  Holds(record.secret, Current, Now, v)'
      <3>1. Holds(record.secret, Current, Now, v)
        BY <1>11, <2>1, <2>5 DEF KeptNow
      <3> QED
        BY <1>4, <3>1 DEF Holds, Made, Left
    <2> QED
      BY <1>4, <2>3, <2>4, <2>5 DEF KeptNow
  <1>25. ProofFits'
    <2>1. \A nm \in AllNames : told[nm].ask # 0 => told[nm].ask \in 1 .. Now
      BY <1>2 DEF IInv, Tellings
    <2>2. ProofFits
      BY DEF IInv
    <2>3. ASSUME NEW nm \in AllNames, NEW om \in AllNames,
                 told'[nm].ask # 0, told'[om].ask # 0, told'[nm].ask < told'[om].ask
          PROVE  told'[nm] = told[nm]
      <3> SUFFICES ASSUME told'[nm] # told[nm]
                   PROVE  FALSE
        OBVIOUS
      <3>1. nm = Current /\ told'[nm].ask = Now
        BY <1>7
      <3>2. om # nm
        BY <1>2, <2>3, <3>1
      <3>3. told'[om].ask \in 1 .. Now
        BY <1>7, <2>1, <2>3, <3>1, <3>2
      <3> QED
        BY <1>2, <2>3, <3>1, <3>3
    <2>4. ASSUME "ComputeClientProof" \in AllNames,
                 Undisturbed(<<"SelectSecurePassword", "ExchangePublicKeys", "ComputeClientProof">>)'
          PROVE  told'["ComputeClientProof"].value =
                    <<told'["SelectSecurePassword"].value[1], told'["ExchangePublicKeys"].value[1],
                      told'["ExchangePublicKeys"].ask, told'["ComputeClientProof"].ask>>
      <3>1. {"SelectSecurePassword", "ExchangePublicKeys", "ComputeClientProof"} \subseteq AllNames
        BY <2>4, NamesTogether
      <3> DEFINE ns == <<"SelectSecurePassword", "ExchangePublicKeys", "ComputeClientProof">>
      <3>2. /\ DOMAIN ns = 1 .. 3 /\ ns[1] = "SelectSecurePassword" /\ ns[2] = "ExchangePublicKeys"
            /\ ns[3] = "ComputeClientProof"
        OBVIOUS
      <3> HIDE DEF ns
      <3>3. \A i \in 1 .. 3 : told'[ns[i]].ask # 0 /\ submits'[told'[ns[i]].ask] = 1
               /\ (i > 1 => told'[ns[i - 1]].ask < told'[ns[i]].ask)
        <4>1. Undisturbed(ns)'
          BY <2>4 DEF ns
        <4> QED
          BY <3>2, <4>1 DEF Undisturbed
      <3>4. /\ told'[ns[1]].ask # 0 /\ told'[ns[2]].ask # 0 /\ told'[ns[3]].ask # 0
            /\ submits[told'[ns[1]].ask] = 1 /\ submits[told'[ns[2]].ask] = 1
            /\ submits[told'[ns[3]].ask] = 1
            /\ told'[ns[1]].ask < told'[ns[2]].ask /\ told'[ns[2]].ask < told'[ns[3]].ask
        <4>1. 1 \in 1 .. 3 /\ 2 \in 1 .. 3 /\ 3 \in 1 .. 3 /\ 2 > 1 /\ 3 > 1 /\ 2 - 1 = 1 /\ 3 - 1 = 2
          OBVIOUS
        <4> QED
          BY <1>4, <3>3, <4>1
      <3>5. told'[ns[1]] = told[ns[1]] /\ told'[ns[2]] = told[ns[2]]
        BY <2>3, <3>1, <3>2, <3>4
      <3>6. CASE told'[ns[3]] = told[ns[3]]
        <4>1. \A i \in 1 .. 3 : told'[ns[i]] = told[ns[i]]
          BY <3>5, <3>6
        <4>2. \A i \in 1 .. 3 : i > 1 => told'[ns[i - 1]] = told[ns[i - 1]]
          <5>1. \A i \in 1 .. 3 : i > 1 => i - 1 \in 1 .. 3
            OBVIOUS
          <5> QED
            BY <4>1, <5>1
        <4>3. Undisturbed(ns)
          BY <1>4, <3>2, <3>3, <4>1, <4>2 DEF Undisturbed
        <4>4. told[ns[3]].value = <<told[ns[1]].value[1], told[ns[2]].value[1], told[ns[2]].ask,
                                    told[ns[3]].ask>>
          <5>1. Undisturbed(<<"SelectSecurePassword", "ExchangePublicKeys", "ComputeClientProof">>)
            BY <4>3 DEF ns
          <5> QED
            BY <2>2, <2>4, <3>2, <5>1 DEF ProofFits
        <4> QED
          BY <3>2, <3>5, <3>6, <4>4
      <3>7. CASE told'[ns[3]] # told[ns[3]]
        <4>1. /\ Current = "ComputeClientProof" /\ r = Now /\ how = "resolve"
              /\ told'[ns[3]] = [ask |-> Now, value |-> value]
          BY <1>7, <2>4, <3>2, <3>7
        <4>2. Once("SelectSecurePassword") /\ Once("ExchangePublicKeys")
          BY <3>2, <3>4, <3>5 DEF Once
        <4>3. value = <<told["SelectSecurePassword"].value[1], told["ExchangePublicKeys"].value[1],
                        told["ExchangePublicKeys"].ask, Now>>
          BY <1>23, <4>1, <4>2 DEF Answer
        <4>4. told'[ns[3]].ask = Now /\ told'[ns[3]].value = value
          BY <4>1
        <4> QED
          BY <3>2, <3>5, <4>3, <4>4
      <3> QED
        BY <3>6, <3>7
    <2>5. ASSUME "SignNonce" \in AllNames, Undisturbed(<<"SelectKey", "SignNonce">>)'
          PROVE  told'["SignNonce"].value = <<told'["SelectKey"].value[1], told'["SignNonce"].ask>>
      <3>1. {"SelectKey", "SignNonce"} \subseteq AllNames
        BY <2>5, NamesTogether
      <3> DEFINE ns == <<"SelectKey", "SignNonce">>
      <3>2. DOMAIN ns = 1 .. 2 /\ ns[1] = "SelectKey" /\ ns[2] = "SignNonce"
        OBVIOUS
      <3> HIDE DEF ns
      <3>3. \A i \in 1 .. 2 : told'[ns[i]].ask # 0 /\ submits'[told'[ns[i]].ask] = 1
               /\ (i > 1 => told'[ns[i - 1]].ask < told'[ns[i]].ask)
        <4>1. Undisturbed(ns)'
          BY <2>5 DEF ns
        <4> QED
          BY <3>2, <4>1 DEF Undisturbed
      <3>4. /\ told'[ns[1]].ask # 0 /\ told'[ns[2]].ask # 0
            /\ submits[told'[ns[1]].ask] = 1 /\ submits[told'[ns[2]].ask] = 1
            /\ told'[ns[1]].ask < told'[ns[2]].ask
        <4>1. 1 \in 1 .. 2 /\ 2 \in 1 .. 2 /\ 2 > 1 /\ 2 - 1 = 1
          OBVIOUS
        <4> QED
          BY <1>4, <3>3, <4>1
      <3>5. told'[ns[1]] = told[ns[1]]
        BY <2>3, <3>1, <3>2, <3>4
      <3>6. CASE told'[ns[2]] = told[ns[2]]
        <4>1. \A i \in 1 .. 2 : told'[ns[i]] = told[ns[i]]
          BY <3>5, <3>6
        <4>2. \A i \in 1 .. 2 : i > 1 => told'[ns[i - 1]] = told[ns[i - 1]]
          <5>1. \A i \in 1 .. 2 : i > 1 => i - 1 \in 1 .. 2
            OBVIOUS
          <5> QED
            BY <4>1, <5>1
        <4>3. Undisturbed(ns)
          BY <1>4, <3>2, <3>3, <4>1, <4>2 DEF Undisturbed
        <4>4. told[ns[2]].value = <<told[ns[1]].value[1], told[ns[2]].ask>>
          <5>1. Undisturbed(<<"SelectKey", "SignNonce">>)
            BY <4>3 DEF ns
          <5> QED
            BY <2>2, <2>5, <3>2, <5>1 DEF ProofFits
        <4> QED
          BY <3>2, <3>5, <3>6, <4>4
      <3>7. CASE told'[ns[2]] # told[ns[2]]
        <4>1. /\ Current = "SignNonce" /\ r = Now /\ how = "resolve"
              /\ told'[ns[2]] = [ask |-> Now, value |-> value]
          BY <1>7, <2>5, <3>2, <3>7
        <4>2. Once("SelectKey")
          BY <3>2, <3>4, <3>5 DEF Once
        <4>3. value = <<told["SelectKey"].value[1], Now>>
          BY <1>23, <4>1, <4>2 DEF Answer
        <4>4. told'[ns[2]].ask = Now /\ told'[ns[2]].value = value
          BY <4>1
        <4> QED
          BY <3>2, <3>5, <4>3, <4>4
      <3> QED
        BY <3>6, <3>7
    <2> QED
      BY <2>4, <2>5 DEF ProofFits
  <1>26. TypeOK'
    BY <1>1, <1>3, <1>8 DEF TypeOK
  <1> QED
    BY <1>14, <1>16, <1>17, <1>18, <1>19, <1>20, <1>22, <1>24, <1>25, <1>26 DEF IInv

LEMMA RefuseInv ==
  ASSUME IInv, Refuse
  PROVE  IInv'
  <1>1. /\ handler # 0 /\ handler' = 0 /\ Settle(handler, "reject", <<>>)
        /\ UNCHANGED <<record, url, page, assoc, mail, hidden, submits, lost, troubles>>
    BY DEF Refuse, letters, history
  <1>2. handler \in DOMAIN asks
    BY <1>1, AsksInDomain DEF IInv, Conversation
  <1>3. hidden \subseteq mail
    BY DEF IInv, TypeOK
  <1>4. mail' \subseteq mail /\ hidden' \subseteq mail'
    BY <1>1, <1>3
  <1>5. <<>> \in Seq(Nat)
    OBVIOUS
  <1> QED
    BY <1>1, <1>2, <1>4, <1>5, SettleKeeps

LEMMA HandOnInv ==
  ASSUME IInv, NEW m \in mail, HandOn(m)
  PROVE  IInv'
  <1>1. /\ mail' = mail \ {m} /\ hidden' = hidden \ {m} /\ Settle(m.ask, m.how, m.value)
        /\ UNCHANGED <<record, handler, url, page, assoc, submits, lost, troubles>>
    BY DEF HandOn, history
  <1>2. m.ask \in DOMAIN asks /\ m.how \in {"resolve", "reject"} /\ m.value \in Seq(Nat)
    BY DEF IInv, Records, TypeOK, Letter
  <1>3. mail' \subseteq mail /\ hidden' \subseteq mail'
    BY <1>1 DEF IInv, TypeOK
  <1>4. m.ask = Now /\ m.how = "resolve" => \E l \in mail \ mail' : IsGrant(l) /\ l.value = m.value
    BY <1>1 DEF IsGrant
  <1> QED
    BY <1>1, <1>2, <1>3, <1>4, SettleKeeps

-----------------------------------------------------------------------------
(* Every step, and what follows                                            *)
LEMMA NextInv ==
  ASSUME IInv, [Next]_vars
  PROVE  IInv'
  <1>1. CASE \E kind \in {"fits", "wrong", "unfit", "view"} : Ask(kind)
    BY <1>1, AskInv
  <1>2. CASE Background
    BY <1>2, UpdateInv, RefuseInv DEF Background
  <1>3. CASE Popup
    BY <1>3, OpenInv, LoadInv, SubmitInv, DismissInv DEF Popup
  <1>4. CASE Runs
    BY <1>4, GenerateInv, WriteInv, SendInv DEF Runs
  <1>5. CASE Processed
    BY <1>5, ProcessedInv
  <1>6. CASE Close
    BY <1>6, CloseInv
  <1>7. CASE Letters
    BY <1>7, HideInv, HandOnInv DEF Letters
  <1>8. CASE UNCHANGED vars
    <2>1. UNCHANGED <<web, record, handler, url, page, assoc, mail, hidden, submits, lost, troubles>>
      BY <1>8 DEF vars, web, letters, history
    <2> QED
      BY <2>1, NothingSaid DEF IInv, TypeOK
  <1> QED
    BY <1>1, <1>2, <1>3, <1>4, <1>5, <1>6, <1>7, <1>8 DEF Next

LEMMA FitsFollows == IInv => AnswersFit
  <1> SUFFICES ASSUME IInv
               PROVE  AnswersFit
    OBVIOUS
  <1>1. record.secret.valid = "yes" =>
           \E r \in DOMAIN asks : asks[r].name = "VerifyServerProof" /\ asks[r].kind = "fits"
    BY DEF IInv, Authentic, FitsAsked
  <1>2. ASSUME NEW p \in Range(page), p.name \in {"ComputeClientProof", "VerifyServerProof"},
               p.stage = "ready"
        PROVE  p.seen.secret.fields # 0 /\ p.seen.secret.a # 0 /\ p.seen.secret.B # 0
    <2>1. page # <<>> /\ p = page[1]
      BY PageIs DEF IInv
    <2> QED
      BY <1>2, <2>1 DEF IInv, PageSound, PageFits, SeenFits
  <1> QED
    BY <1>1, <1>2 DEF AnswersFit, SecretHolds, IInv

\* The client's proof and the signature that the web app was given fit what it was
\* told and sent in the messages that were granted, if each was answered once and
\* in its turn; the manager takes a server for authentic only after a right proof;
\* and the page of a later message finds what the earlier ones left
\* (ExchangePublicKeys/Message.tsx, ComputeClientProof/Message.tsx, hooks.ts): for
\* every set of types, with any number of retries, troubles and late answers.
THEOREM AnswersAlwaysFit == Spec => []AnswersFit
  <1>1. Init => IInv
    BY InitInv
  <1>2. IInv /\ [Next]_vars => IInv'
    BY NextInv
  <1>3. IInv => AnswersFit
    BY FitsFollows
  <1> QED
    BY <1>1, <1>2, <1>3, PTL DEF Spec
=============================================================================
