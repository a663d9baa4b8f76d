---------------------------- MODULE ChannelProofs ----------------------------
(***************************************************************************)
(* Theorems about Channel for every set of windows, channels and keys.     *)
(***************************************************************************)
EXTENDS Channel, SequenceTheorems, WellFoundedInduction, TLAPS

-----------------------------------------------------------------------------
(***************************************************************************)
(* The text of a string: without control characters it is read as it is;   *)
(* with one, what is read has one.  That its function exists, and what its *)
(* prefixes have in common, are arguments by least counterexample.         *)
(***************************************************************************)
LEMMA LeastOf ==
  ASSUME NEW B, B \subseteq Nat, B # {}
  PROVE  \E n \in B : \A k \in B : ~ (k < n)
<1>1. IsWellFoundedOn(OpToRel(<, Nat), Nat)
  BY NatLessThanWellFounded
<1>2. PICK n \in B : \A k \in B : ~ (<<k, n>> \in OpToRel(<, Nat))
  BY <1>1, WFMin
<1>3. \A k \in B : ~ (k < n)
  BY <1>2 DEF OpToRel
<1> QED  BY <1>3

Tokens == [form : {"none", "short", "raw", "number"}, ch : Characters \union {"none"}]
Writing == [json : Seq(Tokens), toAppend : Tokens]

LEMMA TokenType ==
  ASSUME NEW f \in {"none", "short", "raw", "number"}, NEW ch \in Characters \union {"none"}
  PROVE  Token(f, ch) \in Tokens /\ Token(f, ch).ch = ch
  BY DEF Token, Tokens

LEMMA SingleSeq ==
  ASSUME NEW S, NEW x \in S
  PROVE  <<x>> \in Seq(S) /\ Len(<<x>>) = 1 /\ <<x>>[1] = x
  OBVIOUS

LEMMA WriteCharacterWrites ==
  ASSUME NEW s \in Writing, NEW ch \in Characters, NEW stale,
         NEW w, w = WriteCharacter(s, ch, stale)
  PROVE  /\ w \in Writing
         /\ Len(s.json) \in Nat /\ Len(w.json) \in Nat /\ Len(s.json) < Len(w.json)
         /\ \A i \in 1 .. Len(s.json) : w.json[i] = s.json[i]
         /\ w.json[Len(s.json) + 1].ch = ch
         /\ ch # Control => Len(w.json) = Len(s.json) + 1
<1>1. s.json \in Seq(Tokens) /\ s.toAppend \in Tokens /\ Len(s.json) \in Nat
      /\ s = [json |-> s.json, toAppend |-> s.toAppend]
  BY LenProperties DEF Writing
<1>2. CASE ch # Control
  <2>1. PICK t \in Tokens : t = Token(IF ch = Short THEN "short" ELSE "raw", ch) /\ t.ch = ch
    <3>1. (IF ch = Short THEN "short" ELSE "raw") \in {"none", "short", "raw", "number"}
      OBVIOUS
    <3> QED  BY <3>1, TokenType
  <2>2. w = [json |-> Append(s.json, t), toAppend |-> t]
    BY <1>2, <2>1 DEF WriteCharacter
  <2>3. /\ Append(s.json, t) \in Seq(Tokens) /\ Len(Append(s.json, t)) = Len(s.json) + 1
        /\ \A i \in 1 .. Len(s.json) : Append(s.json, t)[i] = s.json[i]
        /\ Append(s.json, t)[Len(s.json) + 1] = t
    BY <1>1, AppendProperties
  <2>4. w.json = Append(s.json, t) /\ w \in Writing
    BY <2>2, <2>3 DEF Writing
  <2> QED  BY <1>1, <1>2, <2>1, <2>3, <2>4
<1>3. CASE ch = Control
  <2>1. PICK t \in Tokens : t = Token("number", ch) /\ t.ch = ch
    BY TokenType
  <2>2. PICK left : left = Leftover(s.toAppend, ch, stale) /\ left \in Seq(Tokens)
    <3>1. PICK raw \in Tokens : raw = Token("raw", ch)
      BY TokenType
    <3>2. <<>> \in Seq(Tokens) /\ <<s.toAppend>> \in Seq(Tokens) /\ <<raw>> \in Seq(Tokens)
      BY <1>1, EmptySeq, SingleSeq
    <3>3. CASE s.toAppend = NoToken
      BY <3>2, <3>3 DEF Leftover
    <3>4. CASE s.toAppend # NoToken /\ stale = "kept"
      BY <3>2, <3>4 DEF Leftover
    <3>5. CASE s.toAppend # NoToken /\ stale # "kept"
      BY <3>1, <3>2, <3>5 DEF Leftover
    <3> QED  BY <3>3, <3>4, <3>5
  <2>3. PICK begun : begun = s.json \o <<t>> /\ begun = Append(s.json, t)
    BY <1>1, <2>1, AppendIsConcat
  <2>4. /\ begun \in Seq(Tokens)
        /\ Len(begun) = Len(s.json) + 1
        /\ \A i \in 1 .. Len(s.json) : begun[i] = s.json[i]
        /\ begun[Len(s.json) + 1] = t
    BY <1>1, <2>1, <2>3, AppendProperties
  <2>5. /\ Len(left) \in Nat /\ begun \o left \in Seq(Tokens)
        /\ Len(begun \o left) = Len(begun) + Len(left)
        /\ \A i \in 1 .. Len(begun) : (begun \o left)[i] = begun[i]
    <3>1. begun \in Seq(Tokens) /\ left \in Seq(Tokens)
      BY <2>2, <2>4
    <3>2. Len(left) \in Nat /\ Len(begun) \in Nat
      BY <3>1, LenProperties
    <3>3. /\ begun \o left \in Seq(Tokens)
          /\ Len(begun \o left) = Len(begun) + Len(left)
          /\ \A i \in 1 .. Len(begun) + Len(left) : (begun \o left)[i] =
                     IF i <= Len(begun) THEN begun[i] ELSE left[i - Len(begun)]
      BY <3>1, ConcatProperties
    <3> QED  BY <3>2, <3>3
  <2>6. w = [json |-> begun \o left, toAppend |-> s.toAppend]
    BY <1>1, <1>3, <2>1, <2>2, <2>3, <2>4 DEF WriteCharacter
  <2>7. w.json = begun \o left /\ w \in Writing
    BY <1>1, <2>5, <2>6 DEF Writing
  <2> QED  BY <1>1, <1>3, <2>1, <2>4, <2>5, <2>7
<1> QED  BY <1>2, <1>3

LEMMA StartType == [json |-> <<>>, toAppend |-> NoToken] \in Writing
<1>1. NoToken \in Tokens
  BY TokenType DEF NoToken
<1>2. <<>> \in Seq(Tokens)
  BY EmptySeq
<1> QED  BY <1>1, <1>2 DEF Writing

\* The prefixes of chars, written.
Writes(g, chars, stale, n) ==
  /\ g[0] = [json |-> <<>>, toAppend |-> NoToken]
  /\ \A k \in 1 .. n : g[k] = WriteCharacter(g[k - 1], chars[k], stale)

LEMMA WritesToAny ==
  ASSUME NEW chars \in Seq(Characters), NEW stale, NEW m \in 0 .. Len(chars)
  PROVE  \E g \in [0 .. m -> Writing] : Writes(g, chars, stale, m)
<1> DEFINE Has(n) == \E g \in [0 .. n -> Writing] : Writes(g, chars, stale, n)
           B == {n \in 0 .. Len(chars) : ~ Has(n)}
<1>1. Len(chars) \in Nat /\ \A i \in 1 .. Len(chars) : chars[i] \in Characters
  BY LenProperties, ElementOfSeq
<1>2. SUFFICES ASSUME B # {} PROVE FALSE
  OBVIOUS
<1>3. B \subseteq Nat
  BY <1>1
<1>4. PICK n \in B : \A k \in B : ~ (k < n)
  BY <1>2, <1>3, LeastOf
<1>5. n # 0
  <2>0. PICK start \in Writing : start = [json |-> <<>>, toAppend |-> NoToken]
    BY StartType
  <2> DEFINE g0 == [k \in 0 .. 0 |-> start]
  <2>1. g0 \in [0 .. 0 -> Writing] /\ Writes(g0, chars, stale, 0)
    BY <2>0 DEF Writes
  <2> QED  BY <2>1
<1>6. n - 1 \in 0 .. Len(chars) /\ n \in 1 .. Len(chars)
  BY <1>1, <1>5
<1>7. PICK g \in [0 .. n - 1 -> Writing] : Writes(g, chars, stale, n - 1)
  <2>1. n - 1 < n
    BY <1>1, <1>6
  <2>2. Has(n - 1)
    BY <1>4, <1>6, <2>1
  <2> QED  BY <2>2
<1>8. PICK w \in Writing : w = WriteCharacter(g[n - 1], chars[n], stale)
  <2>1. g[n - 1] \in Writing /\ chars[n] \in Characters
    BY <1>1, <1>6, <1>7
  <2> QED  BY <2>1, WriteCharacterWrites
<1> DEFINE h == [k \in 0 .. n |-> IF k < n THEN g[k] ELSE w]
<1>9. h \in [0 .. n -> Writing]
  BY <1>6, <1>7
<1>10. \A k \in 0 .. n - 1 : h[k] = g[k]
  BY <1>6
<1>11. h[n] = w
  BY <1>6
<1> HIDE DEF h
<1>12. Writes(h, chars, stale, n)
  <2>1. h[0] = [json |-> <<>>, toAppend |-> NoToken]
    BY <1>1, <1>6, <1>7, <1>10 DEF Writes
  <2>2. ASSUME NEW k \in 1 .. n
        PROVE  h[k] = WriteCharacter(h[k - 1], chars[k], stale)
    <3>1. k - 1 \in 0 .. n - 1 /\ h[k - 1] = g[k - 1]
      BY <1>1, <1>6, <1>10
    <3>2. CASE k = n
      BY <1>8, <1>11, <3>1, <3>2
    <3>3. CASE k # n
      <4>1. k \in 0 .. n - 1 /\ k \in 1 .. n - 1
        BY <1>1, <1>6, <3>3
      <4> QED  BY <1>7, <1>10, <3>1, <4>1 DEF Writes
    <3> QED  BY <3>2, <3>3
  <2> QED  BY <2>1, <2>2 DEF Writes
<1> QED  BY <1>4, <1>9, <1>12

LEMMA TextByWriting ==
  ASSUME NEW chars \in Seq(Characters), NEW stale
  PROVE  \E g : Writes(g, chars, stale, Len(chars)) /\ StringText(chars, stale) = g[Len(chars)].json
<1> DEFINE F(g) == [n \in 0 .. Len(chars) |->
             IF n = 0 THEN [json |-> <<>>, toAppend |-> NoToken]
             ELSE WriteCharacter(g[n - 1], chars[n], stale)]
           written == CHOOSE g : g = F(g)
<1>1. Len(chars) \in Nat
  BY LenProperties
<1>2. PICK g \in [0 .. Len(chars) -> Writing] : Writes(g, chars, stale, Len(chars))
  <2>1. Len(chars) \in 0 .. Len(chars)
    BY <1>1
  <2> QED  BY <2>1, WritesToAny
<1>3. g = F(g)
  <2>1. ASSUME NEW n \in 0 .. Len(chars) PROVE g[n] = F(g)[n]
    <3>1. CASE n = 0
      BY <1>2, <3>1 DEF Writes
    <3>2. CASE n # 0
      <4>1. n \in 1 .. Len(chars)
        BY <1>1, <3>2
      <4> QED  BY <1>2, <3>2, <4>1 DEF Writes
    <3> QED  BY <3>1, <3>2
  <2> QED  BY <1>2, <2>1
<1>4. written = F(written)
  <2> HIDE DEF F
  <2> QED  BY <1>3
<1>5. StringText(chars, stale) = written[Len(chars)].json
  BY DEF StringText
<1> HIDE DEF written
<1>6. Writes(written, chars, stale, Len(chars))
  <2>1. written[0] = [json |-> <<>>, toAppend |-> NoToken]
    <3>1. written[0] = F(written)[0]
      BY <1>4
    <3> QED  BY <1>1, <3>1
  <2>2. ASSUME NEW k \in 1 .. Len(chars)
        PROVE  written[k] = WriteCharacter(written[k - 1], chars[k], stale)
    <3>1. written[k] = F(written)[k]
      BY <1>4
    <3>2. k \in 0 .. Len(chars) /\ k # 0
      BY <1>1
    <3> QED  BY <3>1, <3>2
  <2> QED  BY <2>1, <2>2 DEF Writes
<1> QED  BY <1>5, <1>6

\* What is read of the text of a string that may have control characters.
LEMMA StringTextReads ==
  ASSUME NEW chars \in Seq(Characters), NEW stale, NEW t, t = StringText(chars, stale)
  PROVE  /\ t \in Seq(Tokens)
         /\ (\A k \in DOMAIN chars : chars[k] # Control) =>
                Len(t) = Len(chars) /\ \A k \in DOMAIN chars : t[k].ch = chars[k]
         /\ (\E k \in DOMAIN chars : chars[k] = Control) =>
                \E i \in DOMAIN t : t[i].ch = Control
<1>1. PICK g : Writes(g, chars, stale, Len(chars)) /\ t = g[Len(chars)].json
  BY TextByWriting
<1>2. Len(chars) \in Nat /\ DOMAIN chars = 1 .. Len(chars)
      /\ \A i \in 1 .. Len(chars) : chars[i] \in Characters
  BY LenProperties, ElementOfSeq
<1> DEFINE Right(n) ==
        /\ g[n] \in Writing
        /\ (\A k \in 1 .. n : chars[k] # Control) =>
                Len(g[n].json) = n /\ \A k \in 1 .. n : g[n].json[k].ch = chars[k]
        /\ (\E k \in 1 .. n : chars[k] = Control) =>
                \E i \in 1 .. Len(g[n].json) : g[n].json[i].ch = Control
           B == {n \in 0 .. Len(chars) : ~ Right(n)}
<1>3. ASSUME B # {} PROVE FALSE
  <2>0. B \subseteq Nat
    BY <1>2
  <2>1. PICK n \in B : \A k \in B : ~ (k < n)
    BY <1>3, <2>0, LeastOf
  <2>2. n # 0
    <3>1. g[0] = [json |-> <<>>, toAppend |-> NoToken]
      BY <1>1 DEF Writes
    <3>2. g[0] \in Writing /\ g[0].json = <<>> /\ Len(g[0].json) = 0
      BY <3>1, StartType, EmptySeq
    <3>3. Right(0)
      BY <3>2
    <3> QED  BY <2>1, <3>3
  <2>3. n \in Nat /\ n - 1 \in 0 .. Len(chars) /\ n \in 1 .. Len(chars) /\ chars[n] \in Characters
    BY <1>2, <2>2
  <2>4. Right(n - 1)
    <3>1. n - 1 < n
      BY <1>2, <2>3
    <3> QED  BY <2>1, <2>3, <3>1
  <2>5. PICK s \in Writing : s = g[n - 1]
    BY <2>4
  <2>6. PICK w : w = g[n] /\ w = WriteCharacter(s, chars[n], stale)
    BY <1>1, <2>3, <2>5 DEF Writes
  <2> HIDE DEF Right, B
  <2>7. /\ w \in Writing
        /\ Len(s.json) \in Nat /\ Len(w.json) \in Nat /\ Len(s.json) < Len(w.json)
        /\ \A i \in 1 .. Len(s.json) : w.json[i] = s.json[i]
        /\ w.json[Len(s.json) + 1].ch = chars[n]
        /\ chars[n] # Control => Len(w.json) = Len(s.json) + 1
    <3>1. PICK ch \in Characters : ch = chars[n] /\ w = WriteCharacter(s, ch, stale)
      BY <2>3, <2>6
    <3>2. /\ w \in Writing
          /\ Len(s.json) \in Nat /\ Len(w.json) \in Nat /\ Len(s.json) < Len(w.json)
          /\ \A i \in 1 .. Len(s.json) : w.json[i] = s.json[i]
          /\ w.json[Len(s.json) + 1].ch = ch
          /\ ch # Control => Len(w.json) = Len(s.json) + 1
      BY <3>1, WriteCharacterWrites
    <3> QED  BY <3>1, <3>2
  <2>8. /\ (\A k \in 1 .. n - 1 : chars[k] # Control) =>
                Len(s.json) = n - 1 /\ \A k \in 1 .. n - 1 : s.json[k].ch = chars[k]
        /\ (\E k \in 1 .. n - 1 : chars[k] = Control) =>
                \E i \in 1 .. Len(s.json) : s.json[i].ch = Control
    BY <2>4, <2>5 DEF Right
  <2>9. ASSUME \A k \in 1 .. n : chars[k] # Control
        PROVE  Len(w.json) = n /\ \A k \in 1 .. n : w.json[k].ch = chars[k]
    <3>1. Len(s.json) = n - 1 /\ \A k \in 1 .. n - 1 : s.json[k].ch = chars[k]
      BY <2>3, <2>8, <2>9
    <3>2. Len(w.json) = n
      BY <2>3, <2>7, <2>9, <3>1
    <3>3. ASSUME NEW k \in 1 .. n PROVE w.json[k].ch = chars[k]
      <4>1. CASE k = n
        BY <2>3, <2>7, <3>1, <4>1
      <4>2. CASE k # n
        BY <2>3, <2>7, <3>1, <4>2
      <4> QED  BY <4>1, <4>2
    <3> QED  BY <3>2, <3>3
  <2>10. ASSUME NEW k \in 1 .. n, chars[k] = Control
         PROVE  \E i \in 1 .. Len(w.json) : w.json[i].ch = Control
    <3>1. CASE k = n
      <4>1. Len(s.json) + 1 \in 1 .. Len(w.json)
        BY <2>7
      <4> QED  BY <2>7, <2>10, <3>1, <4>1
    <3>2. CASE k # n
      <4>1. k \in 1 .. n - 1
        BY <2>3, <3>2
      <4>2. PICK i \in 1 .. Len(s.json) : s.json[i].ch = Control
        BY <2>8, <2>10, <4>1
      <4>3. i \in 1 .. Len(w.json) /\ w.json[i].ch = Control
        BY <2>7, <4>2
      <4> QED  BY <4>3
    <3> QED  BY <3>1, <3>2
  <2>11. Right(n)
    BY <2>6, <2>7, <2>9, <2>10 DEF Right
  <2> QED  BY <2>1, <2>11 DEF B
<1>4. Right(Len(chars))
  BY <1>2, <1>3
<1>5. t \in Seq(Tokens)
  BY <1>1, <1>4 DEF Writing
<1>6. Len(t) \in Nat /\ DOMAIN t = 1 .. Len(t)
  BY <1>5, LenProperties
<1> QED  BY <1>1, <1>2, <1>4, <1>5, <1>6

-----------------------------------------------------------------------------
(***************************************************************************)
(* The members of a document, and the one a path leads to.                 *)
(***************************************************************************)
\* j is a document of the members of S, in some order.
Holds(j, S) == j \in Seq(S) /\ S = {j[i] : i \in DOMAIN j}
Entry(path, text) == [path |-> path, text |-> text]

LEMMA HoldsMember ==
  ASSUME NEW at, NEW name, NEW text
  PROVE  Holds(Member(at, name, text), {Entry(Append(at, name), text)})
<1>1. PICK e : e = Entry(Append(at, name), text)
  OBVIOUS
<1>2. Member(at, name, text) = <<e>>
  BY <1>1 DEF Member, Entry
<1>3. Holds(<<e>>, {e})
  BY DEF Holds
<1> QED  BY <1>1, <1>2, <1>3

LEMMA HoldsBoth ==
  ASSUME NEW a, NEW b, NEW S, NEW T, Holds(a, S), Holds(b, T)
  PROVE  Holds(a \o b, S \union T)
<1>0. PICK U : U = S \union T
  OBVIOUS
<1>1. a \in Seq(S) /\ b \in Seq(T) /\ S = {a[i] : i \in DOMAIN a} /\ T = {b[i] : i \in DOMAIN b}
  BY DEF Holds
<1>2. a \in Seq(U) /\ b \in Seq(U)
  <2>1. S \subseteq U /\ T \subseteq U
    BY <1>0
  <2>2. \A x \in Seq(S) : x \in Seq(U)
    BY <2>1, SeqDef
  <2>3. \A x \in Seq(T) : x \in Seq(U)
    BY <2>1, SeqDef
  <2> QED  BY <1>1, <2>2, <2>3
<1>3. /\ Len(a) \in Nat /\ Len(b) \in Nat
      /\ DOMAIN a = 1 .. Len(a) /\ DOMAIN b = 1 .. Len(b)
  BY <1>2, LenProperties
<1>4. /\ a \o b \in Seq(U)
      /\ Len(a \o b) = Len(a) + Len(b)
      /\ \A i \in 1 .. Len(a) + Len(b) : (a \o b)[i] =
                 IF i <= Len(a) THEN a[i] ELSE b[i - Len(a)]
  BY <1>2, ConcatProperties
<1>5. PICK j : j = a \o b
  OBVIOUS
<1>6. DOMAIN j = 1 .. Len(a) + Len(b) /\ j \in Seq(U)
  BY <1>3, <1>4, <1>5, LenProperties
<1>7. ASSUME NEW e \in U PROVE e \in {j[i] : i \in DOMAIN j}
  <2>1. CASE e \in S
    <3>1. PICK i \in 1 .. Len(a) : e = a[i]
      BY <1>1, <1>3, <2>1
    <3>2. i \in DOMAIN j /\ j[i] = e
      BY <1>3, <1>4, <1>5, <1>6, <3>1
    <3> QED  BY <3>2
  <2>2. CASE e \in T
    <3>1. PICK i \in 1 .. Len(b) : e = b[i]
      BY <1>1, <1>3, <2>2
    <3>2. Len(a) + i \in 1 .. Len(a) + Len(b) /\ ~ (Len(a) + i <= Len(a)) /\ (Len(a) + i) - Len(a) = i
      BY <1>3, <3>1
    <3>3. Len(a) + i \in DOMAIN j /\ j[Len(a) + i] = e
      BY <1>4, <1>5, <1>6, <3>1, <3>2
    <3> QED  BY <3>3
  <2> QED  BY <1>0, <2>1, <2>2
<1>8. ASSUME NEW i \in DOMAIN j PROVE j[i] \in U
  BY <1>6, <1>3, ElementOfSeq, LenProperties
<1>9. U = {j[i] : i \in DOMAIN j}
  BY <1>7, <1>8
<1> HIDE DEF Holds
<1>10. j \in Seq(U)
  BY <1>6
<1>11. Holds(j, U)
  BY <1>9, <1>10 DEF Holds
<1> QED  BY <1>0, <1>5, <1>11

\* What is read at a path that leads to one member.
LEMMA ValueFound ==
  ASSUME NEW j, NEW S, Holds(j, S), NEW path, NEW text, Entry(path, text) \in S,
         \A e \in S : e.path = path => e.text = text
  PROVE  ValueOf(j, path) = [k \in DOMAIN text |-> text[k].ch]
<1>1. PICK i : i = CHOOSE n \in DOMAIN j : j[n].path = path
  OBVIOUS
<1>2. \E n \in DOMAIN j : j[n].path = path
  BY DEF Holds, Entry
<1>3. i \in DOMAIN j /\ j[i].path = path
  BY <1>1, <1>2
<1>4. j[i].text = text
  BY <1>3 DEF Holds
<1> QED  BY <1>1, <1>4 DEF ValueOf

\* The members of each part of the parameters.
KeysOf(name, x, stale) ==
  {Entry(<<name, "name">>, Plain(x.name)),
   Entry(<<name, "public", "scm">>, StringText(x.public.scm, stale)),
   Entry(<<name, "public", "webApp">>, StringText(x.public.webApp, stale))}
DerivationOf(d) ==
  {Entry(<<"derivation", "hash">>, Plain(d.hash)), Entry(<<"derivation", "info">>, Plain(d.info)),
   Entry(<<"derivation", "name">>, Plain(d.name)), Entry(<<"derivation", "salt">>, Plain(d.salt))}
GenerationOf(g) ==
  {Entry(<<"generation", "length">>, Plain(g.length)),
   Entry(<<"generation", "name">>, Plain(g.name))}
SessionOf(s) ==
  {Entry(<<"session", "fingerprint", "hash">>, Plain(s.fingerprint.hash)),
   Entry(<<"session", "fingerprint", "salt">>, Plain(s.fingerprint.salt)),
   Entry(<<"session", "fingerprint", "value">>, Plain(s.fingerprint.digest)),
   Entry(<<"session", "fingerprint", "version">>, Plain(s.fingerprint.version)),
   Entry(<<"session", "id">>, Plain(s.id)), Entry(<<"session", "timestamp">>, Plain(s.timestamp))}

LEMMA Paths ==
  ASSUME NEW a, NEW b, NEW c
  PROVE  Append(<<a>>, b) = <<a, b>> /\ Append(<<a, b>>, c) = <<a, b, c>>
<1>1. PICK S : S = {a, b, c}
  OBVIOUS
<1>3. <<a>> \in Seq(S) /\ <<a, b>> \in Seq(S) /\ <<a, b, c>> \in Seq(S)
  BY <1>1
<1>4. PICK one : one = <<a>> /\ Len(one) = 1 /\ one[1] = a
  <2>1. Len(<<a>>) = 1 /\ <<a>>[1] = a
    OBVIOUS
  <2> QED  BY ONLY <2>1, Zenon
<1>5. PICK two : two = <<a, b>> /\ Len(two) = 2 /\ two[1] = a /\ two[2] = b
  <2>1. Len(<<a, b>>) = 2 /\ <<a, b>>[1] = a /\ <<a, b>>[2] = b
    OBVIOUS
  <2> QED  BY ONLY <2>1, Zenon
<1>6. PICK three : three = <<a, b, c>> /\ Len(three) = 3
                   /\ three[1] = a /\ three[2] = b /\ three[3] = c
  <2>1. Len(<<a, b, c>>) = 3 /\ <<a, b, c>>[1] = a /\ <<a, b, c>>[2] = b /\ <<a, b, c>>[3] = c
    OBVIOUS
  <2> QED  BY ONLY <2>1, Zenon
<1>7. one \in Seq(S) /\ two \in Seq(S) /\ three \in Seq(S) /\ b \in S /\ c \in S
  BY <1>1, <1>3, <1>4, <1>5, <1>6
<1>8. Append(one, b) = two
  <2>1. PICK s : s = Append(one, b) /\ s \in Seq(S) /\ Len(s) = Len(one) + 1
               /\ (\A i \in 1 .. Len(one) : s[i] = one[i]) /\ s[Len(one) + 1] = b
    BY <1>7, AppendProperties
  <2>2. Len(s) = 2 /\ s[1] = a /\ s[2] = b
    BY <1>4, <2>1
  <2>3. s = two
    <3>1. s \in Seq(S) /\ two \in Seq(S) /\ Len(s) = Len(two)
      BY <1>5, <1>7, <2>1, <2>2
    <3>2. ASSUME NEW i \in 1 .. Len(s)  PROVE s[i] = two[i]
      <4>1. i = 1 \/ i = 2
        BY <2>2
      <4> QED  BY <1>5, <2>2, <4>1
    <3> QED  BY <3>1, <3>2, SeqEqual
  <2> QED  BY <2>1, <2>3
<1>9. Append(two, c) = three
  <2>1. PICK s : s = Append(two, c) /\ s \in Seq(S) /\ Len(s) = Len(two) + 1
               /\ (\A i \in 1 .. Len(two) : s[i] = two[i]) /\ s[Len(two) + 1] = c
    BY <1>7, AppendProperties
  <2>2. Len(s) = 3 /\ s[1] = a /\ s[2] = b /\ s[3] = c
    BY <1>5, <2>1
  <2>3. s = three
    <3>1. s \in Seq(S) /\ three \in Seq(S) /\ Len(s) = Len(three)
      BY <1>6, <1>7, <2>1, <2>2
    <3>2. ASSUME NEW i \in 1 .. Len(s)  PROVE s[i] = three[i]
      <4>1. i = 1 \/ i = 2 \/ i = 3
        BY <2>2
      <4> QED  BY <1>6, <2>2, <4>1
    <3> QED  BY <3>1, <3>2, SeqEqual
  <2> QED  BY <2>1, <2>3
<1> QED  BY <1>4, <1>5, <1>6, <1>8, <1>9

\* An object of one path has each name once.
LEMMA HoldsAt ==
  ASSUME NEW a, NEW b, NEW text
  PROVE  Holds(Member(<<a>>, b, text), {Entry(<<a, b>>, text)})
  BY HoldsMember, Paths

LEMMA HoldsUnder ==
  ASSUME NEW a, NEW b, NEW c, NEW text
  PROVE  Holds(Member(Append(<<a>>, b), c, text), {Entry(<<a, b, c>>, text)})
<1>1. Append(Append(<<a>>, b), c) = <<a, b, c>>
  BY Paths
<1> QED  BY <1>1, HoldsMember

LEMMA HoldsKeys ==
  ASSUME NEW name, NEW x, NEW stale
  PROVE  Holds(Member(<<name>>, "name", Plain(x.name))
                   \o PublicText(Append(<<name>>, "public"), x.public, stale), KeysOf(name, x, stale))
<1> DEFINE at == Append(<<name>>, "public")
           scm == Entry(<<name, "public", "scm">>, StringText(x.public.scm, stale))
           webApp == Entry(<<name, "public", "webApp">>, StringText(x.public.webApp, stale))
<1>1. Holds(PublicText(at, x.public, stale), {scm} \union {webApp})
  BY HoldsUnder, HoldsBoth DEF PublicText
<1>2. Holds(Member(<<name>>, "name", Plain(x.name)) \o PublicText(at, x.public, stale),
            {Entry(<<name, "name">>, Plain(x.name))} \union ({scm} \union {webApp}))
  BY <1>1, HoldsAt, HoldsBoth
<1> QED  BY <1>2 DEF KeysOf

LEMMA HoldsDerivation ==
  ASSUME NEW d
  PROVE  Holds(DerivationText(<<"derivation">>, d), DerivationOf(d))
<1> DEFINE at == <<"derivation">>
           E(name, text) == Entry(<<"derivation", name>>, text)
<1>1. Holds(Member(at, "hash", Plain(d.hash)) \o Member(at, "info", Buffer(d.info)),
            {E("hash", Plain(d.hash))} \union {E("info", Plain(d.info))})
  BY HoldsAt, HoldsBoth DEF Buffer
<1>2. Holds(Member(at, "hash", Plain(d.hash)) \o Member(at, "info", Buffer(d.info))
              \o Member(at, "name", Plain(d.name)),
            ({E("hash", Plain(d.hash))} \union {E("info", Plain(d.info))})
              \union {E("name", Plain(d.name))})
  BY <1>1, HoldsAt, HoldsBoth
<1>3. Holds(DerivationText(at, d),
            (({E("hash", Plain(d.hash))} \union {E("info", Plain(d.info))})
              \union {E("name", Plain(d.name))}) \union {E("salt", Plain(d.salt))})
  BY <1>2, HoldsAt, HoldsBoth DEF DerivationText, Buffer
<1> QED  BY <1>3 DEF DerivationOf

LEMMA HoldsGeneration ==
  ASSUME NEW g
  PROVE  Holds(GenerationText(<<"generation">>, g), GenerationOf(g))
<1>1. Holds(GenerationText(<<"generation">>, g),
            {Entry(<<"generation", "length">>, Plain(g.length))}
              \union {Entry(<<"generation", "name">>, Plain(g.name))})
  BY HoldsAt, HoldsBoth DEF GenerationText
<1> QED  BY <1>1 DEF GenerationOf

LEMMA HoldsSession ==
  ASSUME NEW s
  PROVE  Holds(SessionText(<<"session">>, s), SessionOf(s))
<1> DEFINE f == s.fingerprint
           at == Append(<<"session">>, "fingerprint")
           F(name, text) == Entry(<<"session", "fingerprint", name>>, text)
<1>1. Holds(Member(at, "hash", Plain(f.hash)) \o Member(at, "salt", Buffer(f.salt)),
            {F("hash", Plain(f.hash))} \union {F("salt", Plain(f.salt))})
  BY HoldsUnder, HoldsBoth DEF Buffer
<1>2. Holds(Member(at, "hash", Plain(f.hash)) \o Member(at, "salt", Buffer(f.salt))
              \o Member(at, "value", Buffer(f.digest)),
            ({F("hash", Plain(f.hash))} \union {F("salt", Plain(f.salt))})
              \union {F("value", Plain(f.digest))})
  BY <1>1, HoldsUnder, HoldsBoth DEF Buffer
<1>3. Holds(FingerprintText(at, f),
            (({F("hash", Plain(f.hash))} \union {F("salt", Plain(f.salt))})
              \union {F("value", Plain(f.digest))}) \union {F("version", Plain(f.version))})
  BY <1>2, HoldsUnder, HoldsBoth DEF FingerprintText
<1> DEFINE G == (({F("hash", Plain(f.hash))} \union {F("salt", Plain(f.salt))})
                  \union {F("value", Plain(f.digest))}) \union {F("version", Plain(f.version))}
<1>4. Holds(FingerprintText(at, f) \o Member(<<"session">>, "id", Plain(s.id)),
            G \union {Entry(<<"session", "id">>, Plain(s.id))})
  BY <1>3, HoldsAt, HoldsBoth
<1>5. Holds(SessionText(<<"session">>, s),
            (G \union {Entry(<<"session", "id">>, Plain(s.id))})
              \union {Entry(<<"session", "timestamp">>, Plain(s.timestamp))})
  BY <1>4, HoldsAt, HoldsBoth DEF SessionText
<1> QED  BY <1>5 DEF SessionOf

\* The members of a document.
DocumentOf(p, stale) ==
  KeysOf("authentication", p.authentication, stale) \union DerivationOf(p.derivation)
    \union KeysOf("exchange", p.exchange, stale) \union GenerationOf(p.generation)
    \union SessionOf(p.session)

LEMMA HoldsDocument ==
  ASSUME NEW p, NEW stale
  PROVE  Holds(ToCanonicalJSON(p, stale), DocumentOf(p, stale))
<1> DEFINE A == AuthenticationText(<<"authentication">>, p.authentication, stale)
           D == DerivationText(<<"derivation">>, p.derivation)
           X == ExchangeText(<<"exchange">>, p.exchange, stale)
           G == GenerationText(<<"generation">>, p.generation)
           S == SessionText(<<"session">>, p.session)
           a == KeysOf("authentication", p.authentication, stale)
           d == DerivationOf(p.derivation)
           x == KeysOf("exchange", p.exchange, stale)
           g == GenerationOf(p.generation)
           s == SessionOf(p.session)
<1>1. Holds(A, a) /\ Holds(X, x)
  BY HoldsKeys DEF AuthenticationText, ExchangeText
<1>2. Holds(D, d) /\ Holds(G, g) /\ Holds(S, s)
  BY HoldsDerivation, HoldsGeneration, HoldsSession
<1>3. ToCanonicalJSON(p, stale) = A \o D \o X \o G \o S
  BY DEF ToCanonicalJSON
<1> HIDE DEF A, D, X, G, S, a, d, x, g, s
<1>4. Holds(A \o D, a \union d)
  BY <1>1, <1>2, HoldsBoth
<1>5. Holds(A \o D \o X, a \union d \union x)
  BY <1>1, <1>4, HoldsBoth
<1>6. Holds(A \o D \o X \o G, a \union d \union x \union g)
  BY <1>2, <1>5, HoldsBoth
<1>7. Holds(A \o D \o X \o G \o S, a \union d \union x \union g \union s)
  BY <1>2, <1>6, HoldsBoth
<1> QED  BY <1>3, <1>7 DEF DocumentOf, a, d, x, g, s

\* What is read of a text.
Read(text) == [k \in DOMAIN text |-> text[k].ch]

LEMMA PartsDiffer ==
  ASSUME NEW p, NEW stale, NEW e \in DocumentOf(p, stale)
  PROVE  /\ e.path[1] = "authentication" => e \in KeysOf("authentication", p.authentication, stale)
         /\ e.path[1] = "derivation" => e \in DerivationOf(p.derivation)
         /\ e.path[1] = "exchange" => e \in KeysOf("exchange", p.exchange, stale)
         /\ e.path[1] = "session" => e \in SessionOf(p.session)
<1>1. \A f \in KeysOf("authentication", p.authentication, stale) : f.path[1] = "authentication"
  BY DEF KeysOf, Entry
<1>2. \A f \in KeysOf("exchange", p.exchange, stale) : f.path[1] = "exchange"
  BY DEF KeysOf, Entry
<1>3. \A f \in DerivationOf(p.derivation) : f.path[1] = "derivation"
  BY DEF DerivationOf, Entry
<1>4. \A f \in GenerationOf(p.generation) : f.path[1] = "generation"
  BY DEF GenerationOf, Entry
<1>5. \A f \in SessionOf(p.session) : f.path[1] = "session"
  BY DEF SessionOf, Entry
<1> QED  BY <1>1, <1>2, <1>3, <1>4, <1>5 DEF DocumentOf

LEMMA Pair ==
  ASSUME NEW a, NEW b, NEW path, path = <<a, b>>
  PROVE  path[1] = a /\ path[2] = b
  OBVIOUS

LEMMA Triple ==
  ASSUME NEW a, NEW b, NEW c, NEW path, path = <<a, b, c>>
  PROVE  path[1] = a /\ path[2] = b /\ path[3] = c
  OBVIOUS

\* The members at the paths that the manager reads.
LEMMA ValuesFound ==
  ASSUME NEW p, NEW stale, NEW json, json = ToCanonicalJSON(p, stale)
  PROVE  /\ \A name \in {"authentication", "exchange"} :
              /\ ValueOf(json, <<name, "public", "webApp">>)
                   = Read(StringText(p[name].public.webApp, stale))
              /\ ValueOf(json, <<name, "public", "scm">>)
                   = Read(StringText(p[name].public.scm, stale))
         /\ ValueOf(json, <<"derivation", "salt">>) = Read(Plain(p.derivation.salt))
         /\ ValueOf(json, <<"session", "id">>) = Read(Plain(p.session.id))
<1>1. PICK S : S = DocumentOf(p, stale) /\ Holds(json, S)
  BY HoldsDocument
<1>2. ASSUME NEW path, NEW text, Entry(path, text) \in S,
             \A e \in S : e.path = path => e.text = text
      PROVE  ValueOf(json, path) = Read(text)
  BY <1>1, <1>2, ValueFound DEF Read
<1>3. ASSUME NEW name \in {"authentication", "exchange"},
             NEW x, x = p[name], NEW K, K = KeysOf(name, x, stale)
      PROVE  /\ ValueOf(json, <<name, "public", "webApp">>) = Read(StringText(x.public.webApp, stale))
             /\ ValueOf(json, <<name, "public", "scm">>) = Read(StringText(x.public.scm, stale))
  <2>1. K \subseteq S /\ \A e \in S : e.path[1] = name => e \in K
    <3>1. p["authentication"] = p.authentication /\ p["exchange"] = p.exchange
      OBVIOUS
    <3> QED  BY <1>1, <1>3, <3>1, PartsDiffer DEF DocumentOf
  <2>2. PICK web : web = <<name, "public", "webApp">>
    OBVIOUS
  <2>3. PICK scm : scm = <<name, "public", "scm">>
    OBVIOUS
  <2>4. /\ web[1] = name /\ web[3] = "webApp"
        /\ scm[1] = name /\ scm[3] = "scm"
    BY <2>2, <2>3, Triple
  <2>5. \A e \in K : /\ e.path = web => e.text = StringText(x.public.webApp, stale)
                     /\ e.path = scm => e.text = StringText(x.public.scm, stale)
    <3>1. PICK other : other = <<name, "name">>
      OBVIOUS
    <3>2. other[2] = "name" /\ web[2] = "public" /\ scm[2] = "public"
      BY <2>2, <2>3, <3>1, Pair, Triple
    <3>3. K = {Entry(other, Plain(x.name)), Entry(scm, StringText(x.public.scm, stale)),
               Entry(web, StringText(x.public.webApp, stale))}
      BY <1>3, <2>2, <2>3, <3>1 DEF KeysOf
    <3> QED  BY <2>4, <3>2, <3>3 DEF Entry
  <2>6. Entry(web, StringText(x.public.webApp, stale)) \in S
        /\ Entry(scm, StringText(x.public.scm, stale)) \in S
    BY <1>3, <2>1, <2>2, <2>3 DEF KeysOf
  <2>7. \A e \in S : /\ e.path = web => e.text = StringText(x.public.webApp, stale)
                     /\ e.path = scm => e.text = StringText(x.public.scm, stale)
    BY <2>1, <2>4, <2>5
  <2>8. ValueOf(json, web) = Read(StringText(x.public.webApp, stale))
        /\ ValueOf(json, scm) = Read(StringText(x.public.scm, stale))
    BY <1>2, <2>6, <2>7
  <2> QED  BY <2>2, <2>3, <2>8
<1>4. ValueOf(json, <<"derivation", "salt">>) = Read(Plain(p.derivation.salt))
  <2> DEFINE text == Plain(p.derivation.salt)
  <2>1. PICK path : path = <<"derivation", "salt">>
    OBVIOUS
  <2>2. path[1] = "derivation" /\ path[2] = "salt"
    BY <2>1, Pair
  <2>3. Entry(path, text) \in S
    BY <1>1, <2>1 DEF DocumentOf, DerivationOf
  <2>4. \A e \in DerivationOf(p.derivation) : e.path = path => e.text = text
    BY <2>2, Pair, Triple DEF DerivationOf, Entry
  <2>5. \A e \in S : e.path = path => e \in DerivationOf(p.derivation)
    BY <1>1, <2>2, PartsDiffer
  <2>6. \A e \in S : e.path = path => e.text = text
    BY <2>4, <2>5
  <2> HIDE DEF text
  <2>7. ValueOf(json, path) = Read(text)
    BY <1>2, <2>3, <2>6
  <2> QED  BY <2>1, <2>7 DEF text
<1>5. ValueOf(json, <<"session", "id">>) = Read(Plain(p.session.id))
  <2> DEFINE text == Plain(p.session.id)
  <2>1. PICK path : path = <<"session", "id">>
    OBVIOUS
  <2>2. path[1] = "session" /\ path[2] = "id"
    BY <2>1, Pair
  <2>3. Entry(path, text) \in S
    BY <1>1, <2>1 DEF DocumentOf, SessionOf
  <2>4. \A e \in SessionOf(p.session) : e.path = path => e.text = text
    BY <2>2, Pair, Triple DEF SessionOf, Entry
  <2>5. \A e \in S : e.path = path => e \in SessionOf(p.session)
    BY <1>1, <2>2, PartsDiffer
  <2>6. \A e \in S : e.path = path => e.text = text
    BY <2>4, <2>5
  <2> HIDE DEF text
  <2>7. ValueOf(json, path) = Read(text)
    BY <1>2, <2>3, <2>6
  <2> QED  BY <2>1, <2>7 DEF text
<1> QED  BY <1>3, <1>4, <1>5

LEMMA ReadPlain ==
  ASSUME NEW value
  PROVE  Read(Plain(value)) = <<value>>
  BY DEF Read, Plain, Token

LEMMA WhatIsParsed ==
  ASSUME NEW p, NEW stale, NEW json, json = ToCanonicalJSON(p, stale)
  PROVE  Parse(json) =
           [session |-> <<p.session.id>>, salt |-> <<p.derivation.salt>>,
            authentication |->
              [webApp |-> Read(StringText(p.authentication.public.webApp, stale)),
               scm |-> Read(StringText(p.authentication.public.scm, stale))],
            exchange |->
              [webApp |-> Read(StringText(p.exchange.public.webApp, stale)),
               scm |-> Read(StringText(p.exchange.public.scm, stale))]]
<1>1. p["authentication"] = p.authentication /\ p["exchange"] = p.exchange
  OBVIOUS
<1> QED  BY <1>1, ValuesFound, ReadPlain DEF Parse, PublicKeys

\* What is read of a string: the string, or something with a control character.
LEMMA ReadString ==
  ASSUME NEW chars \in Seq(Characters), NEW stale,
         NEW read, read = Read(StringText(chars, stale)), IsBase64(read)
  PROVE  read = chars
<1>1. PICK t : t = StringText(chars, stale)
  OBVIOUS
<1>2. /\ t \in Seq(Tokens)
      /\ (\A k \in DOMAIN chars : chars[k] # Control) =>
             Len(t) = Len(chars) /\ \A k \in DOMAIN chars : t[k].ch = chars[k]
      /\ (\E k \in DOMAIN chars : chars[k] = Control) =>
             \E i \in DOMAIN t : t[i].ch = Control
  BY <1>1, StringTextReads
<1>3. read = [k \in DOMAIN t |-> t[k].ch]
  BY <1>1 DEF Read
<1>4. \A k \in DOMAIN chars : chars[k] # Control
  BY <1>2, <1>3 DEF IsBase64
<1>5. DOMAIN t = DOMAIN chars /\ chars = [k \in DOMAIN chars |-> chars[k]]
  BY <1>2, <1>4, LenProperties
<1> QED  BY <1>2, <1>3, <1>4, <1>5

LEMMA ScmKeys ==
  /\ ScmEd25519 \in Seq(Characters) /\ IsBase64(ScmEd25519)
  /\ \A n \in Nat : ScmX25519(n) \in Seq(Characters) /\ IsBase64(ScmX25519(n))
<1>1. ScmEd25519 \in Seq(Characters)
  BY DEF ScmEd25519, Characters, Short
<1>2. IsBase64(ScmEd25519)
  BY DEF ScmEd25519, Short, Control, IsBase64
<1>3. ASSUME NEW n \in Nat PROVE ScmX25519(n) \in Seq(Characters) /\ IsBase64(ScmX25519(n))
  BY SeqDef DEF ScmX25519, Characters, Control, IsBase64
<1> QED  BY <1>1, <1>2, <1>3

\* A string without a control character is read as it was.
LEMMA ReadPlainString ==
  ASSUME NEW chars \in Seq(Characters), NEW stale, IsBase64(chars)
  PROVE  Read(StringText(chars, stale)) = chars
<1>1. PICK t : t = StringText(chars, stale)
  OBVIOUS
<1>2. /\ t \in Seq(Tokens)
      /\ Len(t) = Len(chars) /\ \A k \in DOMAIN chars : t[k].ch = chars[k]
  BY <1>1, StringTextReads DEF IsBase64
<1>3. DOMAIN t = DOMAIN chars /\ chars = [k \in DOMAIN chars |-> chars[k]]
  BY <1>2, LenProperties
<1> QED  BY <1>1, <1>2, <1>3 DEF Read

\* What the manager parses out of a text it accepts is what the page holds, for
\* every key: a control character in one, however its escape comes out, is seen
\* by the manager as no base64 (ToCanonicalJSON in
\* BerytusKeyAgreementParameters.cpp, JSON.parse and fromBase64 in workers/main.ts).
THEOREM TextsStayReadable == TextsAreRead
<1> SUFFICES ASSUME NEW p \in Params, NEW text \in Texts(p),
                    IsBase64(Parse(text.json).authentication.webApp),
                    IsBase64(Parse(text.json).exchange.webApp)
             PROVE  Parse(text.json) = Means(Content(p))
  BY DEF TextsAreRead
<1>1. PICK content : content = Content(p)
  OBVIOUS
<1>2. PICK stale \in Stale : text.json = ToCanonicalJSON(content, stale)
  BY <1>1 DEF Texts
<1>3. PICK x \in Seq(Characters), y \in Seq(Characters) :
            x = Spki[p.webApp] /\ y = Spki[p.webAppX25519]
  BY ChannelAssumption DEF Params
<1>4. PICK z \in Seq(Characters), w \in Seq(Characters) :
            /\ z = ScmEd25519 /\ w = ScmX25519(p.scmX25519)
            /\ IsBase64(z) /\ IsBase64(w)
  <2>1. p.scmX25519 \in Nat
    BY ChannelAssumption DEF Params
  <2> QED  BY <2>1, ScmKeys
<1>5. /\ content.session.id = p.session /\ content.derivation.salt = p.session
      /\ content.authentication.public = [webApp |-> x, scm |-> z]
      /\ content.exchange.public = [webApp |-> y, scm |-> w]
  BY <1>1, <1>3, <1>4 DEF Content, Session, Derivation, Authentication, Exchange
<1> HIDE <1>1
<1>6. Parse(text.json) =
         [session |-> <<p.session>>, salt |-> <<p.session>>,
          authentication |-> [webApp |-> Read(StringText(x, stale)),
                              scm |-> Read(StringText(z, stale))],
          exchange |-> [webApp |-> Read(StringText(y, stale)),
                        scm |-> Read(StringText(w, stale))]]
  <2>1. Parse(text.json) =
           [session |-> <<content.session.id>>, salt |-> <<content.derivation.salt>>,
            authentication |->
              [webApp |-> Read(StringText(content.authentication.public.webApp, stale)),
               scm |-> Read(StringText(content.authentication.public.scm, stale))],
            exchange |->
              [webApp |-> Read(StringText(content.exchange.public.webApp, stale)),
               scm |-> Read(StringText(content.exchange.public.scm, stale))]]
    BY <1>2, WhatIsParsed
  <2> QED  BY <1>5, <2>1
<1>7. Read(StringText(x, stale)) = x /\ Read(StringText(y, stale)) = y
  BY <1>6, ReadString
<1>8. Read(StringText(z, stale)) = z /\ Read(StringText(w, stale)) = w
  BY <1>4, ReadPlainString
<1> QED  BY <1>1, <1>5, <1>6, <1>7, <1>8 DEF Means

-----------------------------------------------------------------------------
(***************************************************************************)
(* The windows and the phases of their channels.                           *)
(***************************************************************************)
Live == Creating \union {"active"}

\* The manager serves a request of c.
Asked(c) == call # NoCall /\ call.channel = c

\* The one message about c is a request for m, or the answer to it.
Only(c, m) ==
    IF Asked(c) THEN call.method = m /\ replies[c] = <<>>
    ELSE Len(replies[c]) = 1 /\ Head(replies[c]).method = m

\* What is under way for a channel follows from how far it is.
Later == Methods \ {"getSigningKey", "createChannel"}

PhaseFits(c) ==
    /\ phase[c] \in {"none", "selecting"} \union Gone => ~ Asked(c) /\ replies[c] = <<>>
    /\ phase[c] = "signing key" => Only(c, "getSigningKey")
    /\ phase[c] = "storing" => Only(c, "createChannel")
    /\ phase[c] \in {"active", "closed"} =>
        /\ Asked(c) => call.method \in Later
        /\ \A i \in DOMAIN replies[c] : replies[c][i].method \in Later

\* The entry of a window is that of its one live channel.
WindowFits(c) ==
    /\ DebugBuild /\ phase[c] \in Live /\ Window[c] \notin stray => registered[Window[c]] = c
    /\ \A w \in Windows : registered[w] = c =>
        Window[c] = w /\ (phase[c] \in Live \/ w \in hung)

(***************************************************************************)
(* What the manager and the page hold of the parameters of a channel, and  *)
(* what the messages between them carry.                                   *)
(***************************************************************************)
HasParams(c) == params[c] # NoParams

Accepted(c) == agreed[c] # NoParams

RequestFits(c) ==
    /\ call.method = "generateX25519Key" => call.key \in PageKeys
    /\ call.method \in {"verifySignedKeyExchangeParameters", "signKeyExchangeParameters"} =>
            HasParams(c) /\ call.text \in Texts(params[c])

ReplyFits(c, r) ==
    /\ r.method = "generateX25519Key" =>
            ~ HasParams(c) /\ x25519[c] # 0 /\ r.key \in PageKeys /\ r.scmKey \in 1 .. MaxKeys
    /\ r.method = "verifySignedKeyExchangeParameters" =>
            HasParams(c) /\ r.text \in Texts(params[c])
    /\ r.method = "signKeyExchangeParameters" =>
            Accepted(c) /\ signed[c] /\ r.text = agreed[c]
    /\ r.method = "enableEndToEndEncryption" => e2ee[c]

MessagesFit(c) ==
    /\ Asked(c) => RequestFits(c)
    /\ \A i \in DOMAIN replies[c] : ReplyFits(c, replies[c][i])
    /\ \A i, j \in DOMAIN replies[c] :
            /\ replies[c][i].method = "generateX25519Key"
            /\ replies[c][j].method = "generateX25519Key"
            => i = j

MemoryFits(c) ==
    /\ HasParams(c) => x25519[c] # 0
    /\ Accepted(c) =>
            /\ HasParams(c) /\ agreed[c] \in Texts(params[c])
            /\ IsWellFormed(agreed[c].json)
            /\ IsBase64(Parse(agreed[c].json).authentication.webApp)
    /\ signed[c] => Accepted(c)
    /\ signature[c] # NoParams => signature[c] = agreed[c] /\ signed[c]
    /\ e2ee[c] => /\ signed[c]
                  /\ Parse(agreed[c].json) = Means(Content(params[c]))
    /\ encrypts[c] => e2ee[c]

WindowsFit == \A c \in Channels : PhaseFits(c) /\ WindowFits(c)
AgreementFits == \A c \in Channels : MessagesFit(c) /\ MemoryFits(c)

-----------------------------------------------------------------------------
(***************************************************************************)
(* Messages                                                                *)
(***************************************************************************)
\* A text remembers its parameters, and is known by them and its JSON.
LEMMA TextFacts ==
    ASSUME NEW p, NEW s \in Texts(p)
    PROVE  /\ s.of = p
           /\ \A t \in Texts(p) : s.json = t.json => s = t
  BY DEF Texts

\* An answer that arrives leaves those after it.
LEMMA Consumed ==
    ASSUME NEW r \in Seq(Reply), r # <<>>
    PROVE  /\ Tail(r) \in Seq(Reply)
           /\ DOMAIN r = 1 .. Len(r) /\ DOMAIN Tail(r) = 1 .. Len(r) - 1
           /\ \A i \in DOMAIN Tail(r) : i + 1 \in DOMAIN r /\ i + 1 # 1 /\ Tail(r)[i] = r[i + 1]
           /\ 1 \in DOMAIN r /\ Head(r) = r[1] /\ Head(r) \in Reply
           /\ Len(r) \in Nat /\ Len(Tail(r)) = Len(r) - 1
           /\ Len(r) = 1 => Tail(r) = <<>>
<1>1. /\ Tail(r) \in Seq(Reply) /\ Len(Tail(r)) = Len(r) - 1
      /\ \A i \in 1 .. Len(Tail(r)) : Tail(r)[i] = r[i + 1]
  BY HeadTailProperties
<1>2. Len(r) \in Nat \ {0} /\ DOMAIN r = 1 .. Len(r)
  BY EmptySeq, LenProperties
<1>3. DOMAIN Tail(r) = 1 .. Len(Tail(r))
  BY <1>1, LenProperties
<1>4. Head(r) = r[1] /\ Head(r) \in Reply
  BY <1>2, HeadTailProperties
<1>5. Len(r) = 1 => Tail(r) = <<>>
  <2>1. Len(r) = 1 => Len(Tail(r)) = 0
    BY <1>1
  <2>2. Tail(r) \in Seq(Reply)
    BY <1>1
  <2>3. Len(Tail(r)) = 0 => Tail(r) = <<>>
    BY <2>2, EmptySeq
  <2>4. QED
    BY <2>1, <2>3
<1>6. QED
  BY <1>1, <1>2, <1>3, <1>4, <1>5

\* An answer that is sent comes after the others.
LEMMA Answered ==
    ASSUME NEW r \in Seq(Reply), NEW x \in Reply
    PROVE  /\ Append(r, x) \in Seq(Reply)
           /\ DOMAIN r = 1 .. Len(r) /\ DOMAIN Append(r, x) = 1 .. Len(r) + 1
           /\ \A i \in DOMAIN r : i \in DOMAIN Append(r, x) /\ i # Len(r) + 1 /\ Append(r, x)[i] = r[i]
           /\ \A i \in DOMAIN Append(r, x) : i # Len(r) + 1 => i \in DOMAIN r
           /\ Append(r, x)[Len(r) + 1] = x
           /\ Len(r) \in Nat
           /\ r = <<>> => Len(Append(r, x)) = 1 /\ Head(Append(r, x)) = x
<1>1. /\ Append(r, x) \in Seq(Reply) /\ Len(Append(r, x)) = Len(r) + 1
      /\ \A i \in 1 .. Len(r) : Append(r, x)[i] = r[i]
      /\ Append(r, x)[Len(r) + 1] = x
  BY AppendProperties
<1>2. Len(r) \in Nat /\ DOMAIN r = 1 .. Len(r) /\ DOMAIN Append(r, x) = 1 .. Len(Append(r, x))
  BY <1>1, LenProperties
<1>3. r = <<>> => Len(Append(r, x)) = 1 /\ Head(Append(r, x)) = x
  <2>1. r = <<>> => Len(r) = 0
    BY EmptySeq
  <2>2. Append(r, x) # <<>>
    BY <1>1, <1>2, EmptySeq
  <2>3. Head(Append(r, x)) = Append(r, x)[1]
    BY <1>1, <2>2, HeadTailProperties
  <2>4. QED
    BY <1>1, <2>1, <2>3
<1>4. QED
  BY <1>1, <1>2, <1>3

\* Requests and answers without a payload are well typed.
LEMMA PlainTypes ==
    /\ \A c \in Channels, m \in Methods : Plainly(c, m) \in Request
    /\ \A m \in Methods : Message(m, TRUE) \in Reply
  BY ChannelAssumption DEF Plainly, Message, Request, Reply, AnyText

-----------------------------------------------------------------------------
(***************************************************************************)
(* Types are kept, given that the manager's answers fit.                   *)
(***************************************************************************)
LEMMA SendType ==
    ASSUME TypeOK, NEW request \in Request, Send(request)
    PROVE  call' \in Request
  BY DEF Send

LEMMA ConsumeType ==
    ASSUME TypeOK, NEW c \in Channels, replies[c] # <<>>, Consume(c)
    PROVE  replies' \in [Channels -> Seq(Reply)]
  BY Consumed DEF Consume, TypeOK

LEMMA AnswerType ==
    ASSUME TypeOK, NEW c \in Channels, NEW reply \in Reply, Answer(c, reply)
    PROVE  call' = NoCall /\ replies' \in [Channels -> Seq(Reply)]
  BY Answered DEF Answer, TypeOK

LEMMA WindowTypes ==
    ASSUME TypeOK, NEW c \in Channels
    PROVE  /\ Window[c] \in Windows
           /\ UnregisterInWindow(c) =>
                /\ registered' \in [Windows -> Channels \union {Nobody}]
                /\ stray' \subseteq Windows
           /\ RegisterInWindow(c) =>
                /\ registered' \in [Windows -> Channels \union {Nobody}]
                /\ stray' \subseteq Windows
<1>1. Window[c] \in Windows
  BY ChannelAssumption
<1>2. QED
  BY <1>1 DEF UnregisterInWindow, RegisterInWindow, TypeOK

\* A step of the page: the manager keeps its memory, and the page's stays typed.
LEMMA CreationTypes ==
    ASSUME TypeOK, NEW c \in Channels,
           Create(c) \/ Select(c) \/ Cancel(c) \/ SigningKeyArrives(c) \/ Created(c)
           \/ Close(c) \/ Closed(c) \/ Collect(c)
    PROVE  TypeOK'
<1> USE DEF Phases, Creating, Gone
<1>1. ASSUME NEW m \in {"getSigningKey", "createChannel", "closeChannel"}
      PROVE  Plainly(c, m) \in Request
  BY PlainTypes DEF Methods
<1>2. /\ Window[c] \in Windows
      /\ UnregisterInWindow(c) => registered' \in [Windows -> Channels \union {Nobody}]
                                  /\ stray' \subseteq Windows
      /\ RegisterInWindow(c) => registered' \in [Windows -> Channels \union {Nobody}]
                                /\ stray' \subseteq Windows
  BY WindowTypes
<1>3. CASE Create(c)
  <2>1. /\ registered' \in [Windows -> Channels \union {Nobody}]
        /\ stray' \subseteq Windows /\ hung' \subseteq Windows
        /\ phase' \in [Channels -> Phases]
    BY <1>2, <1>3 DEF Create, registry, TypeOK
  <2>2. UNCHANGED <<params, signature, encrypts, wire, manager>>
    BY <1>3 DEF Create
  <2>3. QED
    BY <2>1, <2>2 DEF TypeOK, wire, manager
<1>4. CASE Select(c)
  <2>1. Continue(c, "signing key", Plainly(c, "getSigningKey"))
        /\ UNCHANGED <<hung, params, signature, encrypts, replies, manager>>
    BY <1>4 DEF Select
  <2>2. QED
    BY <1>1, <1>2, <2>1 DEF Continue, Send, Fail, TypeOK, manager
<1>5. CASE Cancel(c)
  BY <1>2, <1>5 DEF Cancel, Fail, TypeOK, wire, manager
<1>6. CASE SigningKeyArrives(c)
  <2>1. /\ Continue(c, "storing", Plainly(c, "createChannel"))
        /\ UNCHANGED <<hung, params, signature, encrypts, manager>>
        /\ replies' \in [Channels -> Seq(Reply)]
    BY <1>6, ConsumeType DEF SigningKeyArrives, Arrives
  <2>2. QED
    BY <1>1, <1>2, <2>1 DEF Continue, Send, Fail, TypeOK, manager
<1>7. CASE Created(c)
  <2>1. replies' \in [Channels -> Seq(Reply)]
    BY <1>7, ConsumeType DEF Created, Arrives
  <2>2. QED
    BY <1>7, <2>1 DEF Created, TypeOK, registry, manager
<1>8. CASE Close(c)
  BY <1>1, <1>8 DEF Close, Send, TypeOK, registry, page, manager
<1>9. CASE Closed(c)
  <2>1. replies' \in [Channels -> Seq(Reply)]
    BY <1>9, ConsumeType DEF Closed, Arrives
  <2>2. QED
    BY <1>2, <1>9, <2>1 DEF Closed, TypeOK, manager
<1>10. CASE Collect(c)
  BY <1>2, <1>10 DEF Collect, TypeOK, wire, manager
<1>11. QED
  BY <1>3, <1>4, <1>5, <1>6, <1>7, <1>8, <1>9, <1>10

LEMMA AgreementTypes ==
    ASSUME TypeOK, AgreementFits, NEW c \in Channels,
           \/ \E key \in PageKeys : PrepareKeyAgreementParameters(c, key)
           \/ \E valid \in BOOLEAN : ExchangeKeyAgreementSignatures(c, valid)
           \/ EnableEndToEndEncryption(c)
           \/ Prepared(c) \/ Verified(c) \/ Signed(c) \/ Enabled(c)
    PROVE  TypeOK'
<1>1. CASE \E key \in PageKeys : PrepareKeyAgreementParameters(c, key)
  <2>1. PICK key \in PageKeys : PrepareKeyAgreementParameters(c, key)
    BY <1>1
  <2>2. [Plainly(c, "generateX25519Key") EXCEPT !.key = key] \in Request
    BY PlainTypes DEF Methods, Request
  <2>3. QED
    BY <2>1, <2>2 DEF PrepareKeyAgreementParameters, Send, TypeOK, registry, page, manager
<1>2. CASE \E valid \in BOOLEAN : ExchangeKeyAgreementSignatures(c, valid)
  <2>1. PICK valid \in BOOLEAN : ExchangeKeyAgreementSignatures(c, valid)
    BY <1>2
  <2>2. PICK text \in Texts(params[c]) :
            call' = [Plainly(c, "verifySignedKeyExchangeParameters") EXCEPT
                        !.text = text, !.valid = valid]
    BY <2>1 DEF ExchangeKeyAgreementSignatures, Send
  <2>3. params[c] \in Params
    BY <2>1 DEF ExchangeKeyAgreementSignatures, TypeOK
  <2>4. text \in AnyText
    BY <2>2, <2>3 DEF AnyText
  <2>a. Plainly(c, "verifySignedKeyExchangeParameters") \in Request
    BY PlainTypes DEF Methods
  <2>5. call' \in Request
    BY <2>2, <2>4, <2>a DEF Request
  <2>6. QED
    BY <2>1, <2>5 DEF ExchangeKeyAgreementSignatures, TypeOK, registry, page, manager
<1>3. CASE EnableEndToEndEncryption(c)
  BY <1>3, PlainTypes DEF Methods, EnableEndToEndEncryption, Send, TypeOK, registry, page, manager
<1>4. ASSUME Prepared(c) \/ Verified(c) \/ Signed(c) \/ Enabled(c)
      PROVE  /\ replies' \in [Channels -> Seq(Reply)]
             /\ Head(replies[c]) \in Reply
             /\ ReplyFits(c, Head(replies[c]))
  <2>1. replies[c] # <<>> /\ Consume(c) /\ replies[c] \in Seq(Reply)
    BY <1>4 DEF Prepared, Verified, Signed, Enabled, Arrives, TypeOK
  <2>2. 1 \in DOMAIN replies[c] /\ Head(replies[c]) = replies[c][1] /\ Head(replies[c]) \in Reply
    BY <2>1, Consumed
  <2>3. QED
    BY <2>1, <2>2, ConsumeType DEF AgreementFits, MessagesFit
<1>5. CASE Prepared(c)
  <2>1. NewParams(c, Head(replies[c])) \in Params \union {NoParams}
    <3>1. Head(replies[c]).key \in PageKeys /\ Head(replies[c]).scmKey \in 1 .. MaxKeys
      BY <1>4, <1>5 DEF Prepared, Arrives, ReplyFits
    <3>2. WebApp[c] = Anonymous \/ WebApp[c] \in Keys
      BY ChannelAssumption
    <3>3. QED
      BY <3>1, <3>2 DEF NewParams, Params
  <2>2. params' \in [Channels -> Params \union {NoParams}]
    BY <1>5, <2>1 DEF Prepared, TypeOK
  <2>3. QED
    BY <1>4, <1>5, <2>2 DEF Prepared, TypeOK, registry, manager
<1>6. CASE Verified(c)
  <2>a. Plainly(c, "signKeyExchangeParameters") \in Request
    BY PlainTypes DEF Methods
  <2>b. Head(replies[c]).text \in AnyText
    BY <1>4, <1>6 DEF Reply
  <2>1. [Plainly(c, "signKeyExchangeParameters") EXCEPT !.text = Head(replies[c]).text] \in Request
    BY <2>a, <2>b DEF Request
  <2>2. call' \in Request \union {NoCall}
    BY <1>6, <2>1 DEF Verified, TypeOK
  <2>3. QED
    BY <1>4, <1>6, <2>2 DEF Verified, TypeOK, registry, page, manager
<1>7. CASE Signed(c)
  <2>1. signature' \in [Channels -> AnyText]
    BY <1>4, <1>7 DEF Signed, TypeOK, Reply
  <2>2. QED
    BY <1>4, <1>7, <2>1 DEF Signed, TypeOK, registry, manager
<1>8. CASE Enabled(c)
  BY <1>4, <1>8 DEF Enabled, TypeOK, registry, manager
<1>9. QED
  BY <1>1, <1>2, <1>3, <1>5, <1>6, <1>7, <1>8

\* The manager's handlers answer or refuse.
LEMMA HandleTypes ==
    ASSUME TypeOK, NEW c \in Channels, Handle(c)
    PROVE  TypeOK'
<1>1. call \in Request /\ UNCHANGED <<registry, page>>
  BY DEF Handle, GetSigningKey, CreateChannel, CloseChannel, GenerateX25519Key,
         VerifySignedKeyExchangeParameters, SignKeyExchangeParameters,
         HandleEnableEndToEndEncryption, Serving, TypeOK
<1>2. \A m \in Methods : Message(m, TRUE) \in Reply
  BY PlainTypes
<1>3. call' = NoCall /\ replies' \in [Channels -> Seq(Reply)]
  <2>1. CASE Refuse
    BY <2>1 DEF Refuse, TypeOK
  <2>2. CASE ~ Refuse
    <3>1. CASE GenerateX25519Key(c)
      <4>1. x25519[c] + 1 \in 0 .. MaxKeys
        BY <2>2, <3>1, ChannelAssumption DEF GenerateX25519Key, MayGenerate
      <4>2. [Message("generateX25519Key", TRUE) EXCEPT !.key = call.key, !.scmKey = x25519[c] + 1]
                \in Reply
        BY <1>1, <1>2, <4>1 DEF Methods, Reply, Request
      <4>3. QED
        BY <2>2, <3>1, <4>2, AnswerType DEF GenerateX25519Key
    <3>2. CASE VerifySignedKeyExchangeParameters(c)
      <4>1. [Message("verifySignedKeyExchangeParameters", TRUE) EXCEPT !.text = call.text] \in Reply
        BY <1>1, <1>2 DEF Methods, Reply, Request
      <4>2. QED
        BY <2>2, <3>2, <4>1, AnswerType DEF VerifySignedKeyExchangeParameters
    <3>3. CASE SignKeyExchangeParameters(c)
      <4>1. [Message("signKeyExchangeParameters", TRUE) EXCEPT !.text = call.text] \in Reply
        BY <1>1, <1>2 DEF Methods, Reply, Request
      <4>2. QED
        BY <2>2, <3>3, <4>1, AnswerType DEF SignKeyExchangeParameters
    <3>4. CASE HandleEnableEndToEndEncryption(c)
      BY <1>2, <2>2, <3>4, AnswerType DEF HandleEnableEndToEndEncryption, Methods
    <3>5. CASE GetSigningKey(c) \/ CreateChannel(c) \/ CloseChannel(c)
      BY <1>2, <3>5, AnswerType DEF GetSigningKey, CreateChannel, CloseChannel, Methods
    <3>6. QED
      BY <3>1, <3>2, <3>3, <3>4, <3>5 DEF Handle
  <2>3. QED
    BY <2>1, <2>2
<1>4. /\ stored' \in [Channels -> Actors \union {Nobody}]
      /\ x25519' \in [Channels -> 0 .. MaxKeys]
      /\ agreed' \in [Channels -> AnyText]
      /\ signed' \in [Channels -> BOOLEAN] /\ e2ee' \in [Channels -> BOOLEAN]
  <2>1. CASE GenerateX25519Key(c)
    <3>1. MayGenerate(c) => x25519[c] + 1 \in 0 .. MaxKeys
      BY ChannelAssumption DEF MayGenerate
    <3>2. QED
      BY <2>1, <3>1 DEF GenerateX25519Key, TypeOK
  <2>2. CASE VerifySignedKeyExchangeParameters(c)
    <3>1. call.text \in AnyText
      BY <1>1 DEF Request
    <3>2. QED
      BY <2>2, <3>1 DEF VerifySignedKeyExchangeParameters, TypeOK
  <2>3. CASE SignKeyExchangeParameters(c)
    BY <2>3 DEF SignKeyExchangeParameters, TypeOK
  <2>4. CASE HandleEnableEndToEndEncryption(c)
    BY <2>4 DEF HandleEnableEndToEndEncryption, TypeOK
  <2>5. CASE GetSigningKey(c) \/ CreateChannel(c) \/ CloseChannel(c)
    <3>1. WebApp[c] \in Actors
      BY ChannelAssumption DEF Actors
    <3>2. QED
      BY <2>5, <3>1 DEF GetSigningKey, CreateChannel, CloseChannel, TypeOK, manager
  <2>6. QED
    BY <2>1, <2>2, <2>3, <2>4, <2>5 DEF Handle
<1>5. QED
  BY <1>1, <1>3, <1>4 DEF TypeOK, registry, page

LEMMA TypeStep ==
    ASSUME TypeOK, AgreementFits, [Next]_vars
    PROVE  TypeOK'
<1>1. CASE UNCHANGED vars
  BY <1>1 DEF vars, registry, page, wire, manager, TypeOK
<1>2. CASE Next
  BY <1>2, CreationTypes, AgreementTypes, HandleTypes DEF Next, Hear
<1>3. QED
  BY <1>1, <1>2

-----------------------------------------------------------------------------
(***************************************************************************)
(* Requests and answers of one channel are none of the others' business.   *)
(***************************************************************************)
\* The messages of the other channels are left alone.
OwnMessages(c) ==
    \A d \in Channels \ {c} :
        /\ replies'[d] = replies[d]
        /\ Asked(d)' <=> Asked(d)
        /\ Asked(d) => call' = call

LEMMA SendOwn ==
    ASSUME TypeOK, NEW c \in Channels, NEW request, request.channel = c,
           Send(request), UNCHANGED replies
    PROVE  OwnMessages(c) /\ ~ Asked(c)
  BY DEF OwnMessages, Send, Asked

LEMMA ConsumeOwn ==
    ASSUME TypeOK, NEW c \in Channels, Consume(c),
           UNCHANGED call \/ (call = NoCall /\ call'.channel = c)
    PROVE  OwnMessages(c)
  BY DEF OwnMessages, Consume, Asked, TypeOK

LEMMA HandleOwn ==
    ASSUME TypeOK, NEW c \in Channels, Asked(c),
           (\E r : Answer(c, r)) \/ Refuse
    PROVE  OwnMessages(c) /\ ~ Asked(c)'
  BY DEF OwnMessages, Answer, Refuse, Asked, TypeOK

\* What the phase says of the messages of the other channels stays so.
LEMMA OtherPhases ==
    ASSUME NEW c \in Channels, OwnMessages(c), NEW d \in Channels, d # c,
           PhaseFits(d), phase'[d] = phase[d]
    PROVE  PhaseFits(d)'
<1>1. replies'[d] = replies[d] /\ (Asked(d)' <=> Asked(d)) /\ (Asked(d) => call' = call)
  BY DEF OwnMessages
<1>2. QED
  BY <1>1 DEF PhaseFits, Only

\* An answer arrives in the phase that waits for it.
LEMMA ArrivesPhase ==
    ASSUME TypeOK, NEW c \in Channels, PhaseFits(c), NEW m \in Methods, Arrives(c, m, TRUE)
    PROVE  /\ m = "getSigningKey" => phase[c] = "signing key"
           /\ m = "createChannel" => phase[c] = "storing"
           /\ m \in Later => phase[c] \in {"active", "closed"}
           /\ m \notin Later => ~ Asked(c) /\ Tail(replies[c]) = <<>>
<1>1. /\ replies[c] \in Seq(Reply) /\ replies[c] # <<>> /\ Head(replies[c]).method = m
      /\ phase[c] \in Phases
  BY DEF TypeOK, Arrives
<1>2. 1 \in DOMAIN replies[c] /\ replies[c][1].method = m
      /\ (Len(replies[c]) = 1 => Tail(replies[c]) = <<>>)
  BY <1>1, Consumed
<1>3. phase[c] \in {"active", "closed"} => m \in Later
  BY <1>2 DEF PhaseFits
<1>4. phase[c] = "signing key" => m = "getSigningKey" /\ ~ Asked(c) /\ Tail(replies[c]) = <<>>
  BY <1>1, <1>2 DEF PhaseFits, Only
<1>5. phase[c] = "storing" => m = "createChannel" /\ ~ Asked(c) /\ Tail(replies[c]) = <<>>
  BY <1>1, <1>2 DEF PhaseFits, Only
<1>6. phase[c] \in {"active", "closed", "signing key", "storing"}
  BY <1>1 DEF PhaseFits, Phases, Creating, Gone
<1>7. QED
  BY <1>3, <1>4, <1>5, <1>6 DEF Later

\* A request is served in the phase that sent it.
LEMMA ServingPhase ==
    ASSUME TypeOK, NEW c \in Channels, PhaseFits(c), NEW m \in Methods, Serving(c, m)
    PROVE  /\ Asked(c)
           /\ m = "getSigningKey" => phase[c] = "signing key"
           /\ m = "createChannel" => phase[c] = "storing"
           /\ m \in Later => phase[c] \in {"active", "closed"}
           /\ m \notin Later => replies[c] = <<>>
<1>1. Asked(c) /\ call.method = m /\ phase[c] \in Phases
  BY DEF Serving, Asked, TypeOK
<1>2. phase[c] \in {"active", "closed", "signing key", "storing"}
  BY <1>1 DEF PhaseFits, Phases, Creating, Gone
<1>3. QED
  BY <1>1, <1>2 DEF PhaseFits, Only, Later

\* The manager's answer fits the phase its request fitted.
LEMMA HandlePhases ==
    ASSUME TypeOK, NEW c \in Channels, \A d \in Channels : PhaseFits(d),
           NEW m \in Methods, Serving(c, m), UNCHANGED phase,
           \/ \E r \in Reply : r.method = m /\ Answer(c, r)
           \/ Refuse /\ m \in Later
    PROVE  \A d \in Channels : PhaseFits(d)'
<1>1. /\ Asked(c)
      /\ m = "getSigningKey" => phase[c] = "signing key"
      /\ m = "createChannel" => phase[c] = "storing"
      /\ m \in Later => phase[c] \in {"active", "closed"}
      /\ m \notin Later => replies[c] = <<>>
  BY ServingPhase
<1>2. OwnMessages(c) /\ ~ Asked(c)'
  BY <1>1, HandleOwn
<1>3. PhaseFits(c)'
  <2>1. CASE Refuse /\ m \in Later
    <3>1. replies'[c] = replies[c] /\ phase'[c] \in {"active", "closed"}
      BY <1>1, <2>1 DEF Refuse
    <3>2. QED
      BY <1>2, <3>1 DEF PhaseFits, Gone
  <2>2. ASSUME NEW r \in Reply, r.method = m, Answer(c, r)
        PROVE  PhaseFits(c)'
    <3>1. replies'[c] = Append(replies[c], r) /\ replies[c] \in Seq(Reply)
      BY <2>2 DEF Answer, TypeOK
    <3>2. /\ DOMAIN replies[c] = 1 .. Len(replies[c])
          /\ \A i \in DOMAIN replies'[c] : i # Len(replies[c]) + 1 => i \in DOMAIN replies[c]
          /\ \A i \in DOMAIN replies[c] : replies'[c][i] = replies[c][i]
          /\ replies'[c][Len(replies[c]) + 1] = r
          /\ replies[c] = <<>> => Len(replies'[c]) = 1 /\ Head(replies'[c]) = r
      BY <3>1, Answered
    <3>3. CASE m \in Later
      <4>1. \A i \in DOMAIN replies[c] : replies[c][i].method \in Later
        BY <1>1, <3>3 DEF PhaseFits
      <4>2. ASSUME NEW i \in DOMAIN replies'[c]
            PROVE  replies'[c][i].method \in Later
        BY <2>2, <3>2, <3>3, <4>1
      <4>3. QED
        BY <1>1, <1>2, <3>3, <4>2 DEF PhaseFits, Gone
    <3>4. CASE m \notin Later
      <4>1. Len(replies'[c]) = 1 /\ Head(replies'[c]).method = m
        BY <1>1, <2>2, <3>2, <3>4
      <4>2. m \in {"getSigningKey", "createChannel"}
        BY <3>4 DEF Later
      <4>3. QED
        BY <1>1, <1>2, <4>1, <4>2 DEF PhaseFits, Only, Gone
    <3>5. QED
      BY <3>3, <3>4
  <2>3. QED
    BY <2>1, <2>2
<1>4. QED
  BY <1>2, <1>3, OtherPhases

\* An answer to a later request is heard by an active or closed channel.
LEMMA HearPhases ==
    ASSUME TypeOK, NEW c \in Channels, \A d \in Channels : PhaseFits(d),
           NEW m \in Later, Arrives(c, m, TRUE), Consume(c),
           \/ UNCHANGED call
           \/ call = NoCall /\ call'.channel = c /\ call'.method \in Later,
           NEW p \in {phase[c], "closed"}, phase' = [phase EXCEPT ![c] = p]
    PROVE  \A d \in Channels : PhaseFits(d)'
<1>1. m \in Methods /\ phase[c] \in {"active", "closed"}
  BY ArrivesPhase DEF Later
<1>2. OwnMessages(c)
  BY ConsumeOwn
<1>3. phase'[c] \in {"active", "closed"} /\ \A d \in Channels \ {c} : phase'[d] = phase[d]
  BY <1>1 DEF TypeOK
<1>4. replies'[c] = Tail(replies[c]) /\ replies[c] \in Seq(Reply) /\ replies[c] # <<>>
  BY DEF Consume, TypeOK, Arrives
<1>5. ASSUME NEW i \in DOMAIN replies'[c]
      PROVE  replies'[c][i].method \in Later
  <2>1. i + 1 \in DOMAIN replies[c] /\ replies'[c][i] = replies[c][i + 1]
    BY <1>4, Consumed
  <2>2. QED
    BY <1>1, <2>1 DEF PhaseFits
<1>6. Asked(c)' => call'.method \in Later
  BY <1>1 DEF PhaseFits, Asked
<1>7. PhaseFits(c)'
  BY <1>3, <1>5, <1>6 DEF PhaseFits, Gone
<1>8. QED
  BY <1>2, <1>3, <1>7, OtherPhases

\* An active channel may send any later request.
LEMMA SendPhases ==
    ASSUME TypeOK, NEW c \in Channels, \A d \in Channels : PhaseFits(d),
           Active(c), NEW request, request.channel = c, request.method \in Later,
           Send(request), UNCHANGED <<replies, phase>>
    PROVE  \A d \in Channels : PhaseFits(d)'
<1>1. OwnMessages(c)
  BY SendOwn
<1>2. PhaseFits(c)'
  BY DEF Active, Send, PhaseFits, Gone
<1>3. QED
  BY <1>1, <1>2, OtherPhases

\* The creation of a channel goes on with its next request, or fails.
LEMMA ContinuePhases ==
    ASSUME TypeOK, NEW c \in Channels, \A d \in Channels : PhaseFits(d),
           ~ Asked(c), replies'[c] = <<>>, \A d \in Channels \ {c} : replies'[d] = replies[d],
           NEW next, NEW m, \/ next = "signing key" /\ m = "getSigningKey"
                            \/ next = "storing" /\ m = "createChannel",
           Continue(c, next, Plainly(c, m))
    PROVE  \A d \in Channels : PhaseFits(d)'
<1>1. \A d \in Channels \ {c} : phase'[d] = phase[d]
  BY DEF Continue, Fail, TypeOK
<1>2. OwnMessages(c)
  <2>1. \A d \in Channels \ {c} : Asked(d)' <=> Asked(d)
    <3>1. Plainly(c, m).channel = c
      BY DEF Plainly
    <3>2. CASE Send(Plainly(c, m))
      BY <3>1, <3>2 DEF Send, Asked
    <3>3. CASE call' = call
      BY <3>3 DEF Asked
    <3>4. QED
      BY <3>2, <3>3 DEF Continue
  <2>2. \A d \in Channels \ {c} : Asked(d) => call' = call
    BY DEF Continue, Send, Asked
  <2>3. QED
    BY <2>1, <2>2 DEF OwnMessages
<1>3. CASE Send(Plainly(c, m)) /\ phase' = [phase EXCEPT ![c] = next]
  <2>0. m \in Methods
    BY DEF Methods
  <2>1. phase'[c] = next /\ Asked(c)' /\ call'.method = m
    BY <1>3, <2>0, PlainTypes, NoCallAssumption DEF TypeOK, Send, Asked, Plainly
  <2>2. PhaseFits(c)'
    BY <2>1 DEF PhaseFits, Only, Gone
  <2>3. QED
    BY <1>1, <1>2, <2>2, OtherPhases
<1>4. CASE phase' = [phase EXCEPT ![c] = "failed"] /\ UNCHANGED call
  <2>1. phase'[c] = "failed" /\ ~ Asked(c)'
    BY <1>4 DEF TypeOK, Asked
  <2>2. PhaseFits(c)'
    BY <2>1 DEF PhaseFits, Only, Gone
  <2>3. QED
    BY <1>1, <1>2, <2>2, OtherPhases
<1>5. QED
  BY <1>3, <1>4 DEF Continue, Fail

\* What is under way for every channel keeps fitting its phase.
LEMMA PhaseStep ==
    ASSUME TypeOK, \A d \in Channels : PhaseFits(d), NEW c \in Channels,
           \/ Create(c) \/ Select(c) \/ Cancel(c) \/ Close(c) \/ Collect(c)
           \/ \E key \in PageKeys : PrepareKeyAgreementParameters(c, key)
           \/ \E valid \in BOOLEAN : ExchangeKeyAgreementSignatures(c, valid)
           \/ EnableEndToEndEncryption(c) \/ Handle(c) \/ Hear(c)
    PROVE  \A d \in Channels : PhaseFits(d)'
<1> USE DEF Methods, Later
<1>1. CASE Create(c) \/ Cancel(c) \/ Collect(c)
  <2>1. /\ ~ Asked(c) /\ replies[c] = <<>>
        /\ UNCHANGED wire
        /\ \A d \in Channels \ {c} : phase'[d] = phase[d]
        /\ phase'[c] \in {"none", "selecting"} \union Gone
    <3>1. CASE Create(c)
      BY <3>1 DEF Create, TypeOK, PhaseFits, Gone
    <3>2. CASE Cancel(c)
      BY <3>2 DEF Cancel, Fail, TypeOK, PhaseFits, Gone
    <3>3. CASE Collect(c)
      BY <3>3 DEF Collect, Outstanding, Asked, TypeOK, Gone
    <3>4. QED
      BY <1>1, <3>1, <3>2, <3>3
  <2>2. OwnMessages(c) /\ PhaseFits(c)'
    BY <2>1 DEF OwnMessages, wire, Asked, PhaseFits, Gone
  <2>3. QED
    BY <2>1, <2>2, OtherPhases
<1>2. CASE Select(c)
  <2>1. /\ ~ Asked(c) /\ replies'[c] = <<>>
        /\ \A d \in Channels \ {c} : replies'[d] = replies[d]
    BY <1>2 DEF Select, PhaseFits
  <2>2. Continue(c, "signing key", Plainly(c, "getSigningKey"))
    BY <1>2 DEF Select
  <2>3. QED
    BY <2>1, <2>2, ContinuePhases
<1>3. CASE SigningKeyArrives(c)
  <2>1. ~ Asked(c) /\ Tail(replies[c]) = <<>>
    BY <1>3, ArrivesPhase DEF SigningKeyArrives
  <2>2. replies'[c] = <<>> /\ \A d \in Channels \ {c} : replies'[d] = replies[d]
    BY <1>3, <2>1 DEF SigningKeyArrives, Consume, TypeOK
  <2>3. Continue(c, "storing", Plainly(c, "createChannel"))
    BY <1>3 DEF SigningKeyArrives
  <2>4. QED
    BY <2>1, <2>2, <2>3, ContinuePhases
<1>4. CASE Created(c)
  <2>1. ~ Asked(c) /\ Tail(replies[c]) = <<>>
    BY <1>4, ArrivesPhase DEF Created
  <2>2. replies'[c] = <<>> /\ phase'[c] = "active" /\ ~ Asked(c)'
        /\ \A d \in Channels \ {c} : phase'[d] = phase[d]
    BY <1>4, <2>1 DEF Created, Consume, TypeOK, Asked
  <2>3. OwnMessages(c)
    BY <1>4, ConsumeOwn DEF Created
  <2>4. (\A i \in DOMAIN replies[c] : replies[c][i].method \in Later)'
    BY <2>2, EmptySeq
  <2>5. PhaseFits(c)'
    BY <2>2, <2>4 DEF PhaseFits, Gone
  <2>6. QED
    BY <2>2, <2>3, <2>5, OtherPhases
<1>5. CASE Close(c)
  <2>1. Plainly(c, "closeChannel").channel = c /\ Plainly(c, "closeChannel").method \in Later
    BY DEF Plainly
  <2>2. QED
    BY <1>5, <2>1, SendPhases DEF Close, page
<1>6. CASE \E key \in PageKeys : PrepareKeyAgreementParameters(c, key)
  <2>1. PICK key \in PageKeys : PrepareKeyAgreementParameters(c, key)
    BY <1>6
  <2>2. PICK request : request = [Plainly(c, "generateX25519Key") EXCEPT !.key = key]
    OBVIOUS
  <2>3. request.channel = c /\ request.method \in Later
    BY <2>2 DEF Plainly
  <2>4. QED
    BY <2>1, <2>2, <2>3, SendPhases DEF PrepareKeyAgreementParameters, page
<1>7. CASE \E valid \in BOOLEAN : ExchangeKeyAgreementSignatures(c, valid)
  <2>1. PICK valid \in BOOLEAN : ExchangeKeyAgreementSignatures(c, valid)
    BY <1>7
  <2>2. PICK request :
            /\ Send(request)
            /\ \E text : request = [Plainly(c, "verifySignedKeyExchangeParameters") EXCEPT
                                        !.text = text, !.valid = valid]
    BY <2>1 DEF ExchangeKeyAgreementSignatures
  <2>3. request.channel = c /\ request.method \in Later
    BY <2>2 DEF Plainly
  <2>4. QED
    BY <2>1, <2>2, <2>3, SendPhases DEF ExchangeKeyAgreementSignatures, page
<1>8. CASE EnableEndToEndEncryption(c)
  <2>1. Plainly(c, "enableEndToEndEncryption").channel = c
        /\ Plainly(c, "enableEndToEndEncryption").method \in Later
    BY DEF Plainly
  <2>2. QED
    BY <1>8, <2>1, SendPhases DEF EnableEndToEndEncryption, page
<1>9. CASE Closed(c)
  BY <1>9, HearPhases DEF Closed
<1>10. CASE Prepared(c) \/ Signed(c) \/ Enabled(c) \/ Verified(c)
  <2>1. phase' = [phase EXCEPT ![c] = phase[c]]
    BY <1>10 DEF Prepared, Signed, Enabled, Verified, page, TypeOK
  <2>2. CASE Prepared(c) \/ Signed(c) \/ Enabled(c)
    BY <2>1, <2>2, HearPhases DEF Prepared, Signed, Enabled
  <2>3. CASE Verified(c)
    <3>1. UNCHANGED call \/ (call = NoCall /\ call'.channel = c /\ call'.method \in Later)
      BY <2>3 DEF Verified, Plainly
    <3>2. QED
      BY <2>1, <2>3, <3>1, HearPhases DEF Verified
  <2>4. QED
    BY <1>10, <2>2, <2>3
<1>11. CASE Handle(c)
  <2>1. phase' = phase
    BY <1>11 DEF Handle, GetSigningKey, CreateChannel, CloseChannel, GenerateX25519Key,
         VerifySignedKeyExchangeParameters, SignKeyExchangeParameters,
         HandleEnableEndToEndEncryption, page
  <2>2. \A m \in Methods : Message(m, TRUE) \in Reply /\ Message(m, TRUE).method = m
    BY PlainTypes DEF Message
  <2>3. ASSUME NEW m \in {"getSigningKey", "createChannel", "closeChannel", "enableEndToEndEncryption"},
               Serving(c, m), Answer(c, Message(m, TRUE))
        PROVE  \A d \in Channels : PhaseFits(d)'
    BY <2>1, <2>2, <2>3, HandlePhases
  <2>4. CASE GetSigningKey(c) \/ CreateChannel(c) \/ CloseChannel(c)
    BY <2>3, <2>4 DEF GetSigningKey, CreateChannel, CloseChannel
  <2>5. CASE HandleEnableEndToEndEncryption(c)
    BY <2>1, <2>3, <2>5, HandlePhases DEF HandleEnableEndToEndEncryption
  <2>6. TypeOK'
    BY <1>11, HandleTypes
  <2>7. ASSUME NEW m \in Methods, NEW r, r.method = m, Answer(c, r)
        PROVE  r \in Reply
    <3>1. replies'[c] = Append(replies[c], r) /\ replies'[c] \in Seq(Reply) /\ Len(replies[c]) \in Nat
      BY <2>6, <2>7, LenProperties DEF Answer, TypeOK
    <3>2. replies'[c][Len(replies[c]) + 1] = r /\ Len(replies'[c]) = Len(replies[c]) + 1
      BY <3>1
    <3>3. QED
      BY <3>1, <3>2, ElementOfSeq
  <2>8. CASE GenerateX25519Key(c)
    <3>1. PICK r : r = [Message("generateX25519Key", TRUE) EXCEPT !.key = call.key,
                                                                  !.scmKey = x25519[c] + 1]
      OBVIOUS
    <3>2. r.method = "generateX25519Key"
      BY <3>1 DEF Message
    <3>3. Serving(c, "generateX25519Key") /\ (Answer(c, r) \/ Refuse)
      BY <2>8, <3>1 DEF GenerateX25519Key
    <3>4. QED
      BY <2>1, <2>7, <3>2, <3>3, HandlePhases
  <2>9. CASE VerifySignedKeyExchangeParameters(c)
    <3>1. PICK r : r = [Message("verifySignedKeyExchangeParameters", TRUE) EXCEPT !.text = call.text]
      OBVIOUS
    <3>2. r.method = "verifySignedKeyExchangeParameters"
      BY <3>1 DEF Message
    <3>3. Serving(c, "verifySignedKeyExchangeParameters") /\ (Answer(c, r) \/ Refuse)
      BY <2>9, <3>1 DEF VerifySignedKeyExchangeParameters
    <3>4. QED
      BY <2>1, <2>7, <3>2, <3>3, HandlePhases
  <2>10. CASE SignKeyExchangeParameters(c)
    <3>1. PICK r : r = [Message("signKeyExchangeParameters", TRUE) EXCEPT !.text = call.text]
      OBVIOUS
    <3>2. r.method = "signKeyExchangeParameters"
      BY <3>1 DEF Message
    <3>3. Serving(c, "signKeyExchangeParameters") /\ (Answer(c, r) \/ Refuse)
      BY <2>10, <3>1 DEF SignKeyExchangeParameters
    <3>4. QED
      BY <2>1, <2>7, <3>2, <3>3, HandlePhases
  <2>11. QED
    BY <1>11, <2>4, <2>5, <2>8, <2>9, <2>10 DEF Handle
<1>12. QED
  BY <1>1, <1>2, <1>3, <1>4, <1>5, <1>6, <1>7, <1>8, <1>9, <1>10, <1>11 DEF Hear

-----------------------------------------------------------------------------
(***************************************************************************)
(* The registry of windows                                                 *)
(***************************************************************************)
\* A step that lets no channel live or die keeps the entries.
LEMMA QuietWindows ==
    ASSUME \A d \in Channels : WindowFits(d), UNCHANGED registry,
           \A d \in Channels : phase'[d] \in Live <=> phase[d] \in Live
    PROVE  \A d \in Channels : WindowFits(d)'
  BY DEF WindowFits, registry

\* A channel that is no longer live gives its window's entry up, whosever it is.
LEMMA UnregisterWindows ==
    ASSUME TypeOK, NEW c \in Channels, \A d \in Channels : WindowFits(d),
           UnregisterInWindow(c), UNCHANGED hung, phase'[c] \notin Live,
           \A d \in Channels \ {c} : phase'[d] = phase[d]
    PROVE  \A d \in Channels : WindowFits(d)'
<1>1. Window[c] \in Windows /\ Nobody \notin Channels
  BY ChannelAssumption
<1>2. /\ registered'[Window[c]] = Nobody
      /\ \A w \in Windows \ {Window[c]} : registered'[w] = registered[w]
      /\ stray \subseteq stray'
      /\ registered[Window[c]] \notin {c, Nobody} => Window[c] \in stray'
  BY <1>1 DEF UnregisterInWindow, TypeOK
<1>3. ASSUME NEW d \in Channels, DebugBuild, phase'[d] \in Live, Window[d] \notin stray'
      PROVE  registered'[Window[d]] = d
  <2>1. d # c /\ phase[d] \in Live /\ Window[d] \notin stray /\ Window[d] \in Windows
    BY <1>2, <1>3, ChannelAssumption
  <2>2. registered[Window[d]] = d
    BY <1>3, <2>1 DEF WindowFits
  <2>3. Window[d] # Window[c]
    BY <1>1, <1>2, <1>3, <2>1, <2>2
  <2>4. QED
    BY <1>2, <2>1, <2>2, <2>3
<1>4. ASSUME NEW d \in Channels, NEW w \in Windows, registered'[w] = d
      PROVE  Window[d] = w /\ (phase'[d] \in Live \/ w \in hung')
  <2>1. w # Window[c] /\ registered[w] = d
    BY <1>1, <1>2, <1>4
  <2>2. Window[d] = w /\ (phase[d] \in Live \/ w \in hung)
    BY <2>1 DEF WindowFits
  <2>3. d # c
    BY <2>1, <2>2
  <2>4. QED
    BY <2>2, <2>3
<1>5. QED
  BY <1>3, <1>4 DEF WindowFits

\* A new channel takes the entry of its window, which was free.
LEMMA CreateWindows ==
    ASSUME TypeOK, NEW c \in Channels, \A d \in Channels : WindowFits(d), Create(c)
    PROVE  \A d \in Channels : WindowFits(d)'
<1>1. Window[c] \in Windows /\ Nobody \notin Channels /\ registered[Window[c]] = Nobody
      /\ \A d \in Channels : Window[d] \in Windows
  BY ChannelAssumption DEF Create, CanRegisterInWindow
<1>2. CASE phase' = [phase EXCEPT ![c] = "failed"] /\ UNCHANGED registry
  <2>1. \A d \in Channels : phase'[d] \in Live <=> phase[d] \in Live
    BY <1>2 DEF Create, TypeOK, Live, Creating
  <2>2. QED
    BY <1>2, <2>1, QuietWindows
<1>3. CASE /\ RegisterInWindow(c)
           /\ \/ phase' = [phase EXCEPT ![c] = "selecting"] /\ UNCHANGED hung
              \/ hung' = hung \union {Window[c]} /\ UNCHANGED phase
  <2>1. /\ \A d \in Channels \ {c} : phase'[d] = phase[d]
        /\ phase'[c] \in Live \/ Window[c] \in hung'
        /\ phase[c] \notin Live
        /\ hung \subseteq hung' /\ stray' = stray
    BY <1>3 DEF TypeOK, Live, Creating, RegisterInWindow, Create
  <2>2. /\ registered'[Window[c]] = IF DebugBuild THEN c ELSE Nobody
        /\ \A w \in Windows \ {Window[c]} : registered'[w] = registered[w]
    BY <1>1, <1>3 DEF RegisterInWindow, TypeOK
  <2>3. ASSUME NEW d \in Channels, DebugBuild, phase'[d] \in Live, Window[d] \notin stray'
        PROVE  registered'[Window[d]] = d
    <3>1. CASE d = c
      BY <2>2, <2>3, <3>1
    <3>2. CASE d # c
      <4>1. registered[Window[d]] = d
        BY <2>1, <2>3, <3>2 DEF WindowFits
      <4>2. Window[d] # Window[c] /\ Window[d] \in Windows
        BY <1>1, <4>1
      <4>3. QED
        BY <2>2, <4>1, <4>2
    <3>3. QED
      BY <3>1, <3>2
  <2>4. ASSUME NEW d \in Channels, NEW w \in Windows, registered'[w] = d
        PROVE  Window[d] = w /\ (phase'[d] \in Live \/ w \in hung')
    <3>1. CASE w = Window[c]
      BY <1>1, <2>1, <2>2, <2>4, <3>1
    <3>2. CASE w # Window[c]
      <4>1. registered[w] = d
        BY <2>2, <2>4, <3>2
      <4>2. Window[d] = w /\ (phase[d] \in Live \/ w \in hung)
        BY <4>1 DEF WindowFits
      <4>3. d # c
        BY <3>2, <4>2
      <4>4. QED
        BY <2>1, <4>2, <4>3
    <3>3. QED
      BY <3>1, <3>2
  <2>5. QED
    BY <2>3, <2>4 DEF WindowFits
<1>4. QED
  BY <1>2, <1>3 DEF Create


\* Every step keeps the entries.
LEMMA WindowStep ==
    ASSUME TypeOK, \A d \in Channels : PhaseFits(d), \A d \in Channels : WindowFits(d),
           NEW c \in Channels,
           \/ Create(c) \/ Select(c) \/ Cancel(c) \/ Close(c) \/ Collect(c)
           \/ \E key \in PageKeys : PrepareKeyAgreementParameters(c, key)
           \/ \E valid \in BOOLEAN : ExchangeKeyAgreementSignatures(c, valid)
           \/ EnableEndToEndEncryption(c) \/ Handle(c) \/ Hear(c)
    PROVE  \A d \in Channels : WindowFits(d)'
<1>1. CASE Create(c)
  BY <1>1, CreateWindows
<1>2. CASE Cancel(c) \/ Collect(c) \/ Closed(c)
  <2>1. /\ UnregisterInWindow(c) /\ UNCHANGED hung
        /\ phase'[c] \notin Live
        /\ \A d \in Channels \ {c} : phase'[d] = phase[d]
    BY <1>2 DEF Cancel, Fail, Collect, Closed, TypeOK, Live, Creating
  <2>2. QED
    BY <2>1, UnregisterWindows
<1>3. ASSUME NEW next \in {"signing key", "storing"}, NEW request,
             phase[c] \in Live, Continue(c, next, request), UNCHANGED hung
      PROVE  \A d \in Channels : WindowFits(d)'
  <2>1. CASE phase' = [phase EXCEPT ![c] = next] /\ UNCHANGED <<registered, stray>>
    <3>1. \A d \in Channels : phase'[d] \in Live <=> phase[d] \in Live
      BY <1>3, <2>1 DEF TypeOK, Live, Creating
    <3>2. QED
      BY <1>3, <2>1, <3>1, QuietWindows DEF registry
  <2>2. CASE Fail(c)
    <3>1. /\ UnregisterInWindow(c) /\ phase'[c] \notin Live
          /\ \A d \in Channels \ {c} : phase'[d] = phase[d]
      BY <2>2 DEF Fail, TypeOK, Live, Creating
    <3>2. QED
      BY <1>3, <3>1, UnregisterWindows
  <2>3. QED
    BY <1>3, <2>1, <2>2 DEF Continue
<1>4. CASE Select(c)
  BY <1>3, <1>4 DEF Select, Live, Creating
<1>5. CASE SigningKeyArrives(c)
  <2>1. phase[c] = "signing key"
    BY <1>5, ArrivesPhase DEF SigningKeyArrives, Methods
  <2>2. QED
    BY <1>3, <1>5, <2>1 DEF SigningKeyArrives, Live, Creating
<1>6. CASE Created(c)
  <2>1. phase[c] = "storing"
    BY <1>6, ArrivesPhase DEF Created, Methods
  <2>2. \A d \in Channels : phase'[d] \in Live <=> phase[d] \in Live
    BY <1>6, <2>1 DEF Created, TypeOK, Live, Creating
  <2>3. QED
    BY <1>6, <2>2, QuietWindows DEF Created
<1>7. CASE \/ Close(c) \/ EnableEndToEndEncryption(c) \/ Handle(c)
           \/ \E key \in PageKeys : PrepareKeyAgreementParameters(c, key)
           \/ \E valid \in BOOLEAN : ExchangeKeyAgreementSignatures(c, valid)
           \/ Prepared(c) \/ Verified(c) \/ Signed(c) \/ Enabled(c)
  <2>1. UNCHANGED registry /\ phase' = phase
    <3>1. CASE Handle(c)
      BY <3>1 DEF Handle, GetSigningKey, CreateChannel, CloseChannel, GenerateX25519Key,
           VerifySignedKeyExchangeParameters, SignKeyExchangeParameters,
           HandleEnableEndToEndEncryption, page
    <3>2. QED
      BY <1>7, <3>1 DEF Close, EnableEndToEndEncryption, PrepareKeyAgreementParameters,
           ExchangeKeyAgreementSignatures, Prepared, Verified, Signed, Enabled, page
  <2>2. QED
    BY <2>1, QuietWindows
<1>8. QED
  BY <1>1, <1>2, <1>4, <1>5, <1>6, <1>7 DEF Hear

\* What ChannelInv says of the windows follows.
LEMMA WindowsFitSafe ==
    ASSUME TypeOK, WindowsFit
    PROVE  OneChannelUnlessStray /\ WindowsAreReleased
<1>1. OneChannelUnlessStray
  BY DEF OneChannelUnlessStray, WindowsFit, WindowFits, Live
<1>2. ASSUME NEW w \in Windows, registered[w] # Nobody, w \notin hung
      PROVE  Window[registered[w]] = w /\ phase[registered[w]] \in Live
  <2>1. registered[w] \in Channels
    BY <1>2 DEF TypeOK
  <2>2. QED
    BY <1>2, <2>1 DEF WindowsFit, WindowFits
<1>3. QED
  BY <1>1, <1>2 DEF WindowsAreReleased, Live

-----------------------------------------------------------------------------
(***************************************************************************)
(* The agreement                                                           *)
(***************************************************************************)
Fits(c) == MessagesFit(c) /\ MemoryFits(c)

\* What the two sides hold of one channel is none of the others' business.
OwnMemory(c) ==
    \A d \in Channels \ {c} :
        /\ params'[d] = params[d] /\ signature'[d] = signature[d]
        /\ encrypts'[d] = encrypts[d] /\ x25519'[d] = x25519[d]
        /\ agreed'[d] = agreed[d] /\ signed'[d] = signed[d] /\ e2ee'[d] = e2ee[d]

Remembers(c) ==
    /\ params'[c] = params[c] /\ signature'[c] = signature[c]
    /\ encrypts'[c] = encrypts[c] /\ x25519'[c] = x25519[c]
    /\ agreed'[c] = agreed[c] /\ signed'[c] = signed[c] /\ e2ee'[c] = e2ee[c]

LEMMA OtherAgreements ==
    ASSUME NEW c \in Channels, OwnMessages(c), OwnMemory(c), NEW d \in Channels, d # c, Fits(d)
    PROVE  Fits(d)'
<1>1. replies'[d] = replies[d] /\ (Asked(d)' <=> Asked(d)) /\ (Asked(d) => call' = call)
  BY DEF OwnMessages
<1>2. /\ params'[d] = params[d] /\ signature'[d] = signature[d]
      /\ encrypts'[d] = encrypts[d] /\ x25519'[d] = x25519[d]
      /\ agreed'[d] = agreed[d] /\ signed'[d] = signed[d] /\ e2ee'[d] = e2ee[d]
  BY DEF OwnMemory
<1>3. MemoryFits(d)'
  BY <1>2 DEF Fits, MemoryFits, HasParams, Accepted
<1>4. MessagesFit(d)'
  BY <1>1, <1>2 DEF Fits, MessagesFit, RequestFits, ReplyFits, HasParams, Accepted
<1>5. QED
  BY <1>3, <1>4 DEF Fits

\* What arrives fits, and so does what is left.
LEMMA Heard ==
    ASSUME TypeOK, NEW c \in Channels, MessagesFit(c), NEW m, Arrives(c, m, TRUE), Consume(c)
    PROVE  /\ Head(replies[c]) \in Reply /\ Head(replies[c]).method = m
           /\ ReplyFits(c, Head(replies[c]))
           /\ \A i \in DOMAIN replies'[c] : ReplyFits(c, replies'[c][i])
           /\ \A i, j \in DOMAIN replies'[c] :
                    /\ replies'[c][i].method = "generateX25519Key"
                    /\ replies'[c][j].method = "generateX25519Key"
                    => i = j
           /\ m = "generateX25519Key" =>
                \A i \in DOMAIN replies'[c] : replies'[c][i].method # m
<1> DEFINE r == replies[c]
<1>1. r \in Seq(Reply) /\ r # <<>> /\ replies'[c] = Tail(r) /\ Head(r).method = m
  BY DEF TypeOK, Arrives, Consume
<1>2. /\ \A i \in DOMAIN Tail(r) : i + 1 \in DOMAIN r /\ i + 1 # 1 /\ Tail(r)[i] = r[i + 1]
      /\ 1 \in DOMAIN r /\ Head(r) = r[1] /\ Head(r) \in Reply
      /\ DOMAIN Tail(r) = 1 .. Len(r) - 1 /\ Len(r) \in Nat
  BY <1>1, Consumed
<1>3. /\ \A i \in DOMAIN r : ReplyFits(c, r[i])
      /\ \A i, j \in DOMAIN r : /\ r[i].method = "generateX25519Key"
                                /\ r[j].method = "generateX25519Key"
                                => i = j
  BY DEF MessagesFit
<1>4. \A i, j \in DOMAIN Tail(r) : i + 1 = j + 1 => i = j
  BY <1>2
<1>5. replies[c] = r
  OBVIOUS
<1> HIDE DEF r
<1>6. \A i \in DOMAIN Tail(r) : ReplyFits(c, Tail(r)[i])
  BY <1>2, <1>3
<1>7. \A i, j \in DOMAIN Tail(r) :
          /\ Tail(r)[i].method = "generateX25519Key"
          /\ Tail(r)[j].method = "generateX25519Key"
          => i = j
  BY <1>2, <1>3, <1>4
<1>8. m = "generateX25519Key" => \A i \in DOMAIN Tail(r) : Tail(r)[i].method # m
  BY <1>1, <1>2, <1>3
<1>9. QED
  BY <1>1, <1>2, <1>3, <1>5, <1>6, <1>7, <1>8

\* What is left after an answer is what there was, and the answer.
LEMMA Said ==
    ASSUME TypeOK, NEW c \in Channels, MessagesFit(c), NEW x \in Reply, Answer(c, x),
           x.method = "generateX25519Key" =>
                \A i \in DOMAIN replies[c] : replies[c][i].method # x.method
    PROVE  /\ \A i \in DOMAIN replies'[c] :
                    replies'[c][i] = x \/ ReplyFits(c, replies'[c][i])
           /\ \A i, j \in DOMAIN replies'[c] :
                    /\ replies'[c][i].method = "generateX25519Key"
                    /\ replies'[c][j].method = "generateX25519Key"
                    => i = j
<1> DEFINE r == replies[c]
<1>1. r \in Seq(Reply) /\ replies'[c] = Append(r, x)
  BY DEF TypeOK, Answer
<1>2. /\ \A i \in DOMAIN r : Append(r, x)[i] = r[i]
      /\ \A i \in DOMAIN Append(r, x) : i # Len(r) + 1 => i \in DOMAIN r
      /\ Append(r, x)[Len(r) + 1] = x
  BY <1>1, Answered
<1>3. /\ \A i \in DOMAIN r : ReplyFits(c, r[i])
      /\ \A i, j \in DOMAIN r : /\ r[i].method = "generateX25519Key"
                                /\ r[j].method = "generateX25519Key"
                                => i = j
      /\ x.method = "generateX25519Key" => \A i \in DOMAIN r : r[i].method # x.method
  BY DEF MessagesFit
<1>4. PICK n : n = Len(r) + 1
  OBVIOUS
<1> HIDE DEF r
<1>5. \A i \in DOMAIN Append(r, x) : Append(r, x)[i] = x \/ ReplyFits(c, Append(r, x)[i])
  BY <1>2, <1>3, <1>4
<1>6. ASSUME NEW i \in DOMAIN Append(r, x), NEW j \in DOMAIN Append(r, x),
             Append(r, x)[i].method = "generateX25519Key",
             Append(r, x)[j].method = "generateX25519Key"
      PROVE  i = j
  BY <1>2, <1>3, <1>4, <1>6
<1>7. QED
  BY <1>1, <1>5, <1>6

\* The page's calls send requests that fit.
LEMMA SendAgreements ==
    ASSUME TypeOK, NEW c \in Channels, \A d \in Channels : Fits(d),
           NEW request, request.channel = c, Send(request), UNCHANGED replies,
           OwnMemory(c), Remembers(c),
           request.method = "generateX25519Key" => request.key \in PageKeys,
           request.method \in {"verifySignedKeyExchangeParameters", "signKeyExchangeParameters"} =>
                HasParams(c) /\ request.text \in Texts(params[c])
    PROVE  \A d \in Channels : Fits(d)'
<1>1. OwnMessages(c)
  BY SendOwn
<1>2. MemoryFits(c)'
  BY DEF Fits, MemoryFits, HasParams, Accepted, Remembers
<1>3. call' = request /\ replies'[c] = replies[c]
  BY DEF Send
<1>4. RequestFits(c)'
  BY <1>3 DEF RequestFits, HasParams, Remembers
<1>5. MessagesFit(c)'
  BY <1>3, <1>4 DEF Fits, MessagesFit, ReplyFits, HasParams, Accepted, Remembers
<1>6. QED
  BY <1>1, <1>2, <1>5, OtherAgreements DEF Fits

\* An answer that arrives leaves messages that fit, where it disturbs none.
LEMMA HearAgreements ==
    ASSUME TypeOK, NEW c \in Channels, \A d \in Channels : Fits(d),
           NEW m, Arrives(c, m, TRUE), Consume(c), OwnMemory(c),
           MemoryFits(c)', Asked(c)' => RequestFits(c)',
           UNCHANGED call \/ (call = NoCall /\ call'.channel = c),
           \A i \in DOMAIN replies'[c] :
                ReplyFits(c, replies'[c][i]) => ReplyFits(c, replies[c][i])'
    PROVE  \A d \in Channels : Fits(d)'
<1>1. OwnMessages(c)
  BY ConsumeOwn
<1>2. /\ \A i \in DOMAIN replies'[c] : ReplyFits(c, replies'[c][i])
      /\ \A i, j \in DOMAIN replies'[c] :
                    /\ replies'[c][i].method = "generateX25519Key"
                    /\ replies'[c][j].method = "generateX25519Key"
                    => i = j
  BY Heard DEF Fits
<1>3. MessagesFit(c)'
  BY <1>2 DEF MessagesFit
<1>4. QED
  BY <1>1, <1>3, OtherAgreements DEF Fits

\* So does what the manager does, where it disturbs none.
LEMMA HandleAgreements ==
    ASSUME TypeOK, NEW c \in Channels, \A d \in Channels : Fits(d), Asked(c),
           OwnMemory(c), MemoryFits(c)',
           \A y \in Reply : ReplyFits(c, y) => ReplyFits(c, y)',
           \/ Refuse
           \/ \E x \in Reply :
                /\ Answer(c, x) /\ ReplyFits(c, x)'
                /\ x.method = "generateX25519Key" =>
                    \A i \in DOMAIN replies[c] : replies[c][i].method # x.method
    PROVE  \A d \in Channels : Fits(d)'
<1>1. OwnMessages(c) /\ ~ Asked(c)'
  BY HandleOwn
<1>2. replies[c] \in Seq(Reply) /\ \A i \in DOMAIN replies[c] : replies[c][i] \in Reply
  BY DEF TypeOK
<1>3. CASE Refuse
  <2>1. replies'[c] = replies[c]
    BY <1>3 DEF Refuse
  <2>2. \A i \in DOMAIN replies'[c] : ReplyFits(c, replies[c][i])'
    BY <1>2, <2>1 DEF Fits, MessagesFit
  <2>3. MessagesFit(c)'
    BY <1>1, <2>1, <2>2 DEF Fits, MessagesFit
  <2>4. QED
    BY <1>1, <2>3, OtherAgreements DEF Fits
<1>4. CASE \E x \in Reply :
                /\ Answer(c, x) /\ ReplyFits(c, x)'
                /\ x.method = "generateX25519Key" =>
                    \A i \in DOMAIN replies[c] : replies[c][i].method # x.method
  <2>1. PICK x \in Reply :
                /\ Answer(c, x) /\ ReplyFits(c, x)'
                /\ x.method = "generateX25519Key" =>
                    \A i \in DOMAIN replies[c] : replies[c][i].method # x.method
    BY <1>4
  <2>2. /\ \A i \in DOMAIN replies'[c] :
                    replies'[c][i] = x \/ ReplyFits(c, replies'[c][i])
        /\ \A i, j \in DOMAIN replies'[c] :
                    /\ replies'[c][i].method = "generateX25519Key"
                    /\ replies'[c][j].method = "generateX25519Key"
                    => i = j
    BY <2>1, Said DEF Fits
  <2>3. \A i \in DOMAIN replies'[c] : replies'[c][i] \in Reply
    <3>1. replies' \in [Channels -> Seq(Reply)]
      BY <2>1, AnswerType
    <3>2. QED
      BY <3>1
  <2>4. \A i \in DOMAIN replies'[c] : ReplyFits(c, replies[c][i])'
    BY <2>1, <2>2, <2>3
  <2>5. MessagesFit(c)'
    BY <1>1, <2>2, <2>4 DEF MessagesFit
  <2>6. QED
    BY <1>1, <2>5, OtherAgreements DEF Fits
<1>5. QED
  BY <1>3, <1>4

\* What the manager does and the page hears keeps the agreement.
LEMMA ManagerStep ==
    ASSUME TypeOK, NEW c \in Channels, \A d \in Channels : Fits(d), Handle(c)
    PROVE  \A d \in Channels : Fits(d)'
<1>1. OwnMemory(c) /\ UNCHANGED <<params, signature, encrypts>> /\ Asked(c)
  BY DEF Handle, GetSigningKey, CreateChannel, CloseChannel, GenerateX25519Key,
     VerifySignedKeyExchangeParameters, SignKeyExchangeParameters,
     HandleEnableEndToEndEncryption, Serving, Asked, OwnMemory, TypeOK, page, manager
<1>2. Fits(c) /\ RequestFits(c) /\ call \in Request /\ x25519[c] \in 0 .. MaxKeys
      /\ signed[c] \in BOOLEAN /\ e2ee[c] \in BOOLEAN /\ encrypts[c] \in BOOLEAN
  BY <1>1 DEF Fits, MessagesFit, Asked, TypeOK
<1>3. \A m \in Methods : Message(m, TRUE) \in Reply /\ Message(m, TRUE).method = m
  BY PlainTypes DEF Message
<1>4. ASSUME Remembers(c),
             Refuse \/ \E m \in {"getSigningKey", "createChannel", "closeChannel"} :
                            Answer(c, Message(m, TRUE))
      PROVE  \A d \in Channels : Fits(d)'
  <2>1. MemoryFits(c)'
    BY <1>2, <1>4 DEF Fits, MemoryFits, HasParams, Accepted, Remembers
  <2>2. \A y \in Reply : ReplyFits(c, y) => ReplyFits(c, y)'
    BY <1>4 DEF ReplyFits, HasParams, Accepted, Remembers
  <2>3. \A m \in {"getSigningKey", "createChannel", "closeChannel"} :
            /\ m \in Methods /\ Message(m, TRUE).method = m
            /\ ReplyFits(c, Message(m, TRUE))'
    BY DEF Message, ReplyFits, Methods
  <2>4. QED
    BY <1>1, <1>3, <1>4, <2>1, <2>2, <2>3, HandleAgreements
<1>5. CASE GetSigningKey(c) \/ CreateChannel(c) \/ CloseChannel(c)
  BY <1>4, <1>5 DEF GetSigningKey, CreateChannel, CloseChannel, Remembers, page, manager
<1>6. CASE GenerateX25519Key(c)
  <2>1. CASE MayGenerate(c) /\ x25519' = [x25519 EXCEPT ![c] = @ + 1]
             /\ Answer(c, [Message("generateX25519Key", TRUE) EXCEPT !.key = call.key,
                                                                 !.scmKey = x25519[c] + 1])
    <3>1. PICK x : x = [Message("generateX25519Key", TRUE) EXCEPT !.key = call.key,
                                                                 !.scmKey = x25519[c] + 1]
      OBVIOUS
    <3>2. x25519[c] = 0 /\ x25519[c] + 1 = 1 /\ x25519'[c] = 1 /\ 1 \in 1 .. MaxKeys /\ 1 \in 0 .. MaxKeys
      BY <2>1, ChannelAssumption DEF MayGenerate, TypeOK
    <3>3. ~ HasParams(c) /\ ~ Accepted(c) /\ ~ signed[c] /\ ~ e2ee[c] /\ ~ encrypts[c]
          /\ signature[c] = NoParams
      BY <1>2, <3>2 DEF Fits, MemoryFits
    <3>4. UNCHANGED <<params, agreed, signed, e2ee, signature, encrypts>>
      BY <1>6 DEF GenerateX25519Key, page
    <3>5. MemoryFits(c)'
      BY <3>3, <3>4 DEF MemoryFits, HasParams, Accepted
    <3>6. call.key \in PageKeys
      BY <1>2, <1>6 DEF GenerateX25519Key, Serving, RequestFits
    <3>7. x = [method |-> "generateX25519Key", ok |-> TRUE, text |-> NoParams,
               key |-> call.key, scmKey |-> 1]
      BY <3>1, <3>2, Zenon DEF Message
    <3>8. x \in Reply /\ x.method = "generateX25519Key" /\ x.key = call.key /\ x.scmKey = 1
      BY <3>2, <3>6, <3>7 DEF Reply, AnyText, Methods
    <3>9. ReplyFits(c, x)'
      BY <3>2, <3>3, <3>4, <3>6, <3>8 DEF ReplyFits, HasParams
    <3>10. \A i \in DOMAIN replies[c] : replies[c][i].method # x.method
      BY <1>2, <3>2, <3>8 DEF Fits, MessagesFit, ReplyFits
    <3>11. \A y \in Reply : ReplyFits(c, y) => ReplyFits(c, y)'
      BY <3>2, <3>4 DEF ReplyFits, HasParams, Accepted
    <3>12. Answer(c, x)
      BY <2>1, <3>1
    <3>13. QED
      BY <1>1, <3>5, <3>8, <3>9, <3>10, <3>11, <3>12, HandleAgreements
  <2>2. CASE Refuse /\ UNCHANGED x25519
    BY <1>4, <1>6, <2>2 DEF GenerateX25519Key, Remembers, page
  <2>3. QED
    BY <1>6, <2>1, <2>2 DEF GenerateX25519Key
<1>7. CASE VerifySignedKeyExchangeParameters(c)
  <2>1. CASE /\ Acceptable(c, call.text.json)
             /\ agreed' = [agreed EXCEPT ![c] = call.text]
             /\ signed' = [signed EXCEPT ![c] = FALSE]
             /\ Answer(c, [Message("verifySignedKeyExchangeParameters", TRUE)
                            EXCEPT !.text = call.text])
    <3>1. PICK x : x = [Message("verifySignedKeyExchangeParameters", TRUE)
                            EXCEPT !.text = call.text]
      OBVIOUS
    <3>2. HasParams(c) /\ call.text \in Texts(params[c]) /\ call.text \in AnyText
      BY <1>2, <1>7 DEF VerifySignedKeyExchangeParameters, Serving, RequestFits, Request
    <3>3. /\ x25519[c] # 0 /\ ~ Accepted(c) /\ IsWellFormed(call.text.json)
          /\ IsBase64(Parse(call.text.json).authentication.webApp)
      BY <2>1 DEF Acceptable, Accepted
    <3>4. ~ signed[c] /\ ~ e2ee[c] /\ ~ encrypts[c] /\ signature[c] = NoParams
      BY <1>2, <3>3 DEF Fits, MemoryFits
    <3>5. /\ UNCHANGED <<params, x25519, e2ee, signature, encrypts>>
          /\ agreed'[c] = call.text /\ signed'[c] = FALSE
      BY <1>7, <2>1 DEF VerifySignedKeyExchangeParameters, page, TypeOK
    <3>6. MemoryFits(c)'
      BY <3>2, <3>3, <3>4, <3>5 DEF MemoryFits, HasParams, Accepted
    <3>7. Message("verifySignedKeyExchangeParameters", TRUE) \in Reply
      BY <1>3 DEF Methods
    <3>8. x \in Reply /\ x.method = "verifySignedKeyExchangeParameters" /\ x.text = call.text
      BY <3>1, <3>2, <3>7 DEF Reply, Message
    <3>9. ReplyFits(c, x)'
      BY <3>2, <3>5, <3>8 DEF ReplyFits, HasParams
    <3>10. \A y \in Reply : ReplyFits(c, y) => ReplyFits(c, y)'
      BY <3>3, <3>4, <3>5 DEF ReplyFits, HasParams
    <3>11. Answer(c, x)
      BY <2>1, <3>1
    <3>12. QED
      BY <1>1, <3>6, <3>8, <3>9, <3>10, <3>11, HandleAgreements
  <2>2. CASE Refuse /\ UNCHANGED <<agreed, signed>>
    BY <1>4, <1>7, <2>2 DEF VerifySignedKeyExchangeParameters, Remembers, page
  <2>3. QED
    BY <1>7, <2>1, <2>2 DEF VerifySignedKeyExchangeParameters
<1>8. CASE SignKeyExchangeParameters(c)
  <2>1. CASE /\ MaySign(c, call.text.json)
             /\ signed' = [signed EXCEPT ![c] = TRUE]
             /\ Answer(c, [Message("signKeyExchangeParameters", TRUE) EXCEPT !.text = call.text])
    <3>1. PICK x : x = [Message("signKeyExchangeParameters", TRUE) EXCEPT !.text = call.text]
      OBVIOUS
    <3>2. HasParams(c) /\ call.text \in Texts(params[c]) /\ call.text \in AnyText
      BY <1>2, <1>8 DEF SignKeyExchangeParameters, Serving, RequestFits, Request
    <3>3. Accepted(c) /\ ~ signed[c] /\ agreed[c].json = call.text.json
      BY <2>1 DEF MaySign, Accepted
    <3>4. /\ agreed[c] \in Texts(params[c]) /\ x25519[c] # 0
          /\ ~ e2ee[c] /\ ~ encrypts[c] /\ signature[c] = NoParams
      BY <1>2, <3>2, <3>3 DEF Fits, MemoryFits
    <3>5. agreed[c] = call.text
      BY <3>2, <3>3, <3>4, TextFacts
    <3>6. /\ UNCHANGED <<params, x25519, agreed, e2ee, signature, encrypts>>
          /\ signed'[c] = TRUE
      BY <1>8, <2>1 DEF SignKeyExchangeParameters, page, TypeOK
    <3>7. MemoryFits(c)'
      BY <1>2, <3>3, <3>4, <3>6 DEF Fits, MemoryFits, HasParams, Accepted
    <3>8. Message("signKeyExchangeParameters", TRUE) \in Reply
      BY <1>3 DEF Methods
    <3>9. x \in Reply /\ x.method = "signKeyExchangeParameters" /\ x.text = call.text
      BY <3>1, <3>2, <3>8 DEF Reply, Message
    <3>10. ReplyFits(c, x)'
      BY <3>3, <3>5, <3>6, <3>9 DEF ReplyFits, Accepted
    <3>11. \A y \in Reply : ReplyFits(c, y) => ReplyFits(c, y)'
      BY <3>6 DEF ReplyFits, HasParams, Accepted
    <3>12. Answer(c, x)
      BY <2>1, <3>1
    <3>13. QED
      BY <1>1, <3>7, <3>9, <3>10, <3>11, <3>12, HandleAgreements
  <2>2. CASE Refuse /\ UNCHANGED signed
    BY <1>4, <1>8, <2>2 DEF SignKeyExchangeParameters, Remembers, page
  <2>3. QED
    BY <1>8, <2>1, <2>2 DEF SignKeyExchangeParameters
<1>9. CASE HandleEnableEndToEndEncryption(c)
  <2>1. CASE /\ MayEnable(c)
             /\ e2ee' = [e2ee EXCEPT ![c] = TRUE]
             /\ Answer(c, Message("enableEndToEndEncryption", TRUE))
    <3>1. /\ Accepted(c) /\ signed[c]
          /\ IsBase64(Parse(agreed[c].json).exchange.webApp)
      BY <2>1 DEF MayEnable, IsChannelE2EReady, Accepted
    <3>2. /\ HasParams(c) /\ agreed[c] \in Texts(params[c])
          /\ IsWellFormed(agreed[c].json)
          /\ IsBase64(Parse(agreed[c].json).authentication.webApp)
      BY <1>2, <3>1 DEF Fits, MemoryFits
    <3>3. params[c] \in Params
      BY <3>2 DEF HasParams, TypeOK
    <3>4. Parse(agreed[c].json) = Means(Content(params[c]))
      BY <3>1, <3>2, <3>3, TextsStayReadable DEF TextsAreRead
    <3>5. /\ UNCHANGED <<params, x25519, agreed, signed, signature, encrypts>>
          /\ e2ee'[c] = TRUE
      BY <1>9, <2>1 DEF HandleEnableEndToEndEncryption, page, TypeOK
    <3>6. MemoryFits(c)'
      BY <1>2, <3>1, <3>4, <3>5 DEF Fits, MemoryFits, HasParams, Accepted
    <3>7. Message("enableEndToEndEncryption", TRUE) \in Reply
          /\ Message("enableEndToEndEncryption", TRUE).method = "enableEndToEndEncryption"
      BY <1>3 DEF Methods
    <3>8. ReplyFits(c, Message("enableEndToEndEncryption", TRUE))'
      BY <3>5, <3>7 DEF ReplyFits, Message
    <3>9. \A y \in Reply : ReplyFits(c, y) => ReplyFits(c, y)'
      BY <3>5 DEF ReplyFits, HasParams, Accepted
    <3>10. QED
      BY <1>1, <2>1, <3>6, <3>7, <3>8, <3>9, HandleAgreements
  <2>2. CASE Refuse /\ UNCHANGED e2ee
    BY <1>4, <1>9, <2>2 DEF HandleEnableEndToEndEncryption, Remembers, page
  <2>3. QED
    BY <1>9, <2>1, <2>2 DEF HandleEnableEndToEndEncryption
<1>10. QED
  BY <1>5, <1>6, <1>7, <1>8, <1>9 DEF Handle

LEMMA PageStep ==
    ASSUME TypeOK, NEW c \in Channels, \A d \in Channels : Fits(d),
           \/ Create(c) \/ Select(c) \/ Cancel(c) \/ Close(c) \/ Collect(c)
           \/ \E key \in PageKeys : PrepareKeyAgreementParameters(c, key)
           \/ \E valid \in BOOLEAN : ExchangeKeyAgreementSignatures(c, valid)
           \/ EnableEndToEndEncryption(c) \/ Hear(c)
    PROVE  \A d \in Channels : Fits(d)'
<1>0. Fits(c)
  OBVIOUS
<1>1. CASE Create(c) \/ Cancel(c) \/ Collect(c)
  <2>1. UNCHANGED <<params, signature, encrypts, wire, manager>>
    BY <1>1 DEF Create, Cancel, Collect
  <2>2. QED
    BY <2>1 DEF Fits, MessagesFit, MemoryFits, RequestFits, ReplyFits, HasParams, Accepted,
       Asked, wire, manager
<1>2. CASE Select(c)
  <2>1. UNCHANGED <<params, signature, encrypts, replies, manager>>
    BY <1>2 DEF Select
  <2>2. OwnMemory(c) /\ Remembers(c)
    BY <2>1 DEF OwnMemory, Remembers, manager
  <2>3. CASE Send(Plainly(c, "getSigningKey"))
    <3>1. Plainly(c, "getSigningKey").channel = c
          /\ Plainly(c, "getSigningKey").method = "getSigningKey"
      BY DEF Plainly
    <3>2. QED
      BY <2>1, <2>2, <2>3, <3>1, SendAgreements
  <2>4. CASE UNCHANGED call
    BY <2>1, <2>4 DEF Fits, MessagesFit, MemoryFits, RequestFits, ReplyFits, HasParams, Accepted,
       Asked, manager
  <2>5. QED
    BY <1>2, <2>3, <2>4 DEF Select, Continue
<1>3. CASE Close(c) \/ EnableEndToEndEncryption(c)
  <2>1. UNCHANGED <<page, replies, manager>>
    BY <1>3 DEF Close, EnableEndToEndEncryption
  <2>2. OwnMemory(c) /\ Remembers(c) /\ UNCHANGED replies
    BY <2>1 DEF OwnMemory, Remembers, manager, page
  <2>3. PICK m \in {"closeChannel", "enableEndToEndEncryption"} : Send(Plainly(c, m))
    BY <1>3 DEF Close, EnableEndToEndEncryption
  <2>4. Plainly(c, m).channel = c /\ Plainly(c, m).method = m
    BY DEF Plainly
  <2>5. QED
    BY <2>2, <2>3, <2>4, SendAgreements
<1>4. CASE \E key \in PageKeys : PrepareKeyAgreementParameters(c, key)
  <2>1. PICK key \in PageKeys : PrepareKeyAgreementParameters(c, key)
    BY <1>4
  <2>2. OwnMemory(c) /\ Remembers(c) /\ UNCHANGED replies
    BY <2>1 DEF PrepareKeyAgreementParameters, OwnMemory, Remembers, manager, page
  <2>3. PICK request : request = [Plainly(c, "generateX25519Key") EXCEPT !.key = key]
    OBVIOUS
  <2>4. request.channel = c /\ request.method = "generateX25519Key" /\ request.key = key
    BY <2>3 DEF Plainly
  <2>5. Send(request)
    BY <2>1, <2>3 DEF PrepareKeyAgreementParameters
  <2>6. QED
    BY <2>2, <2>4, <2>5, SendAgreements
<1>5. CASE \E valid \in BOOLEAN : ExchangeKeyAgreementSignatures(c, valid)
  <2>1. PICK valid \in BOOLEAN : ExchangeKeyAgreementSignatures(c, valid)
    BY <1>5
  <2>2. OwnMemory(c) /\ Remembers(c) /\ UNCHANGED replies /\ HasParams(c)
    BY <2>1 DEF ExchangeKeyAgreementSignatures, OwnMemory, Remembers, manager, page, HasParams
  <2>3. PICK text \in Texts(params[c]) :
            Send([Plainly(c, "verifySignedKeyExchangeParameters") EXCEPT !.text = text,
                                                                   !.valid = valid])
    BY <2>1 DEF ExchangeKeyAgreementSignatures
  <2>4. PICK request :
            request = [Plainly(c, "verifySignedKeyExchangeParameters") EXCEPT !.text = text,
                                                                   !.valid = valid]
    OBVIOUS
  <2>5. /\ request.channel = c /\ request.method = "verifySignedKeyExchangeParameters"
        /\ request.text = text
    BY <2>4 DEF Plainly
  <2>6. Send(request)
    BY <2>3, <2>4
  <2>7. QED
    BY <2>2, <2>5, <2>6, SendAgreements
<1>6. CASE SigningKeyArrives(c) \/ Created(c) \/ Closed(c)
  <2>1. /\ UNCHANGED <<params, signature, encrypts, manager>>
        /\ Consume(c)
        /\ \E m \in Methods : Arrives(c, m, TRUE)
    BY <1>6 DEF SigningKeyArrives, Created, Closed, Methods
  <2>2. OwnMemory(c) /\ Remembers(c)
    BY <2>1 DEF OwnMemory, Remembers, manager
  <2>3. \/ UNCHANGED call
        \/ call = NoCall /\ call'.channel = c /\ call'.method = "createChannel"
    <3>1. Plainly(c, "createChannel").channel = c
          /\ Plainly(c, "createChannel").method = "createChannel"
      BY DEF Plainly
    <3>2. QED
      BY <1>6, <3>1 DEF SigningKeyArrives, Created, Closed, Continue, Send
  <2>4. MemoryFits(c)'
    BY <1>0, <2>2 DEF Fits, MemoryFits, HasParams, Accepted, Remembers
  <2>5. Asked(c)' => RequestFits(c)'
    BY <1>0, <2>2, <2>3 DEF Fits, MessagesFit, RequestFits, Asked, HasParams, Remembers
  <2>6. \A i \in DOMAIN replies'[c] :
            ReplyFits(c, replies'[c][i]) => ReplyFits(c, replies[c][i])'
    BY <2>2 DEF ReplyFits, HasParams, Accepted, Remembers
  <2>7. QED
    BY <2>1, <2>2, <2>3, <2>4, <2>5, <2>6, HearAgreements
<1>7. CASE Prepared(c)
  <2>1. PICK reply : reply = Head(replies[c])
    OBVIOUS
  <2>2. /\ Arrives(c, "generateX25519Key", TRUE) /\ Consume(c)
        /\ UNCHANGED <<signature, encrypts, call, manager>>
    BY <1>7 DEF Prepared
  <2>3. OwnMemory(c)
    BY <1>7 DEF Prepared, OwnMemory, manager, TypeOK
  <2>4. /\ ReplyFits(c, reply) /\ reply.method = "generateX25519Key"
        /\ \A i \in DOMAIN replies'[c] : ReplyFits(c, replies'[c][i])
        /\ \A i \in DOMAIN replies'[c] : replies'[c][i].method # "generateX25519Key"
    BY <1>0, <2>1, <2>2, Heard DEF Fits
  <2>5. ~ HasParams(c) /\ x25519[c] # 0
    BY <2>4 DEF ReplyFits
  <2>6. ~ Accepted(c) /\ ~ signed[c] /\ ~ e2ee[c] /\ ~ encrypts[c] /\ signature[c] = NoParams
    BY <1>0, <2>5 DEF Fits, MemoryFits
  <2>7. MemoryFits(c)'
    BY <2>2, <2>5, <2>6 DEF MemoryFits, HasParams, Accepted, manager
  <2>8. Asked(c)' => RequestFits(c)'
    BY <1>0, <2>2, <2>5 DEF Fits, MessagesFit, RequestFits, Asked
  <2>9. \A i \in DOMAIN replies'[c] :
            ReplyFits(c, replies'[c][i]) => ReplyFits(c, replies[c][i])'
    BY <2>2, <2>4, <2>5, <2>6 DEF ReplyFits, Accepted, manager
  <2>10. QED
    BY <2>2, <2>3, <2>7, <2>8, <2>9, HearAgreements
<1>8. CASE Verified(c)
  <2>1. PICK reply : reply = Head(replies[c])
    OBVIOUS
  <2>2. /\ Arrives(c, "verifySignedKeyExchangeParameters", TRUE) /\ Consume(c)
        /\ UNCHANGED <<page, manager>>
    BY <1>8 DEF Verified
  <2>3. OwnMemory(c) /\ Remembers(c)
    BY <2>2 DEF OwnMemory, Remembers, page, manager
  <2>4. ReplyFits(c, reply) /\ reply.method = "verifySignedKeyExchangeParameters"
    BY <1>0, <2>1, <2>2, Heard DEF Fits
  <2>5. HasParams(c) /\ reply.text \in Texts(params[c])
    BY <2>4 DEF ReplyFits
  <2>6. MemoryFits(c)'
    BY <1>0, <2>3 DEF Fits, MemoryFits, HasParams, Accepted, Remembers
  <2>7. \/ UNCHANGED call
        \/ /\ call = NoCall
           /\ call' = [Plainly(c, "signKeyExchangeParameters") EXCEPT !.text = reply.text]
    BY <1>8, <2>1 DEF Verified
  <2>8. \/ UNCHANGED call
        \/ /\ call = NoCall
           /\ call'.channel = c /\ call'.method = "signKeyExchangeParameters"
           /\ call'.text = reply.text
    BY <2>7 DEF Plainly
  <2>9. Asked(c)' => RequestFits(c)'
    <3>1. HasParams(c)' /\ params'[c] = params[c]
      BY <2>3, <2>5 DEF HasParams, Remembers
    <3>2. CASE UNCHANGED call
      BY <1>0, <3>1, <3>2 DEF Fits, MessagesFit, RequestFits, Asked, HasParams
    <3>3. CASE call'.method = "signKeyExchangeParameters" /\ call'.text = reply.text
      BY <2>5, <3>1, <3>3 DEF RequestFits
    <3>4. QED
      BY <2>8, <3>2, <3>3
  <2>10. \A i \in DOMAIN replies'[c] :
            ReplyFits(c, replies'[c][i]) => ReplyFits(c, replies[c][i])'
    BY <2>3 DEF ReplyFits, HasParams, Accepted, Remembers
  <2>11. QED
    BY <2>2, <2>3, <2>6, <2>8, <2>9, <2>10, HearAgreements
<1>9. CASE Signed(c)
  <2>1. PICK reply : reply = Head(replies[c])
    OBVIOUS
  <2>2. /\ Arrives(c, "signKeyExchangeParameters", TRUE) /\ Consume(c)
        /\ UNCHANGED <<params, encrypts, call, manager>>
        /\ signature'[c] = reply.text
        /\ OwnMemory(c)
    BY <1>9, <2>1 DEF Signed, TypeOK, OwnMemory, manager
  <2>3. ReplyFits(c, reply) /\ reply.method = "signKeyExchangeParameters"
    BY <1>0, <2>1, <2>2, Heard DEF Fits
  <2>4. Accepted(c) /\ signed[c] /\ reply.text = agreed[c]
    BY <2>3 DEF ReplyFits
  <2>5. MemoryFits(c)'
    BY <1>0, <2>2, <2>4 DEF Fits, MemoryFits, HasParams, Accepted, manager
  <2>6. Asked(c)' => RequestFits(c)'
    BY <1>0, <2>2 DEF Fits, MessagesFit, RequestFits, Asked, HasParams
  <2>7. \A i \in DOMAIN replies'[c] :
            ReplyFits(c, replies'[c][i]) => ReplyFits(c, replies[c][i])'
    BY <2>2 DEF ReplyFits, HasParams, Accepted, manager
  <2>8. QED
    BY <2>2, <2>5, <2>6, <2>7, HearAgreements
<1>10. CASE Enabled(c)
  <2>1. PICK reply : reply = Head(replies[c])
    OBVIOUS
  <2>2. /\ Arrives(c, "enableEndToEndEncryption", TRUE) /\ Consume(c)
        /\ UNCHANGED <<params, signature, call, manager>>
        /\ encrypts'[c] = TRUE
        /\ OwnMemory(c)
    BY <1>10, <2>1 DEF Enabled, TypeOK, OwnMemory, manager
  <2>3. ReplyFits(c, reply) /\ reply.method = "enableEndToEndEncryption"
    BY <1>0, <2>1, <2>2, Heard DEF Fits
  <2>4. e2ee[c]
    BY <2>3 DEF ReplyFits
  <2>5. MemoryFits(c)'
    BY <1>0, <2>2, <2>4 DEF Fits, MemoryFits, HasParams, Accepted, manager
  <2>6. Asked(c)' => RequestFits(c)'
    BY <1>0, <2>2 DEF Fits, MessagesFit, RequestFits, Asked, HasParams
  <2>7. \A i \in DOMAIN replies'[c] :
            ReplyFits(c, replies'[c][i]) => ReplyFits(c, replies[c][i])'
    BY <2>2 DEF ReplyFits, HasParams, Accepted, manager
  <2>8. QED
    BY <2>2, <2>5, <2>6, <2>7, HearAgreements
<1>11. QED
  BY <1>1, <1>2, <1>3, <1>4, <1>5, <1>6, <1>7, <1>8, <1>9, <1>10 DEF Hear

-----------------------------------------------------------------------------
(***************************************************************************)
(* Patterns: what CompareParts accepts is what the pattern stands for.     *)
(***************************************************************************)
LEMMA SequenceFacts ==
  ASSUME NEW s, IsSequence(s), s # <<>>
  PROVE  Len(s) \in Nat \ {0} /\ DOMAIN s = 1 .. Len(s)
<1>1. Len(s) \in Nat /\ DOMAIN s = 1 .. Len(s)
  BY LenProperties DEF IsSequence
<1>2. Len(s) # 0
  BY EmptySeq DEF IsSequence
<1> QED  BY <1>1, <1>2

\* The parts of the candidate up to j stand for parts of the pattern up to i.
Trails(search, candidate, j, i, f) ==
  /\ f[1] = 1 /\ f[j] = i
  /\ \A k \in 1 .. j : search[f[k]] \in {Wild, candidate[k]}
  /\ \A k \in 1 .. j - 1 : \/ f[k + 1] = f[k] + 1
                           \/ f[k + 1] = f[k] /\ search[f[k]] = Wild

Trail(search, candidate, j, i) ==
  \E f \in [1 .. j -> 1 .. Len(search)] : Trails(search, candidate, j, i, f)

LEMMA TrailStarts ==
  ASSUME NEW search, NEW candidate, Len(search) \in Nat \ {0},
         search[1] \in {Wild, candidate[1]}
  PROVE  Trail(search, candidate, 1, 1)
<1> DEFINE f == [k \in 1 .. 1 |-> 1]
<1>1. f \in [1 .. 1 -> 1 .. Len(search)] /\ f[1] = 1
  OBVIOUS
<1> HIDE DEF f
<1>2. Trails(search, candidate, 1, 1, f)
  BY <1>1 DEF Trails
<1> QED  BY <1>1, <1>2 DEF Trail

LEMMA TrailGrows ==
  ASSUME NEW search, NEW candidate, Len(search) \in Nat \ {0},
         NEW j \in Nat \ {0}, NEW i \in 1 .. Len(search), Trail(search, candidate, j, i),
         NEW n \in 1 .. Len(search), n = i + 1 \/ (n = i /\ search[i] = Wild),
         search[n] \in {Wild, candidate[j + 1]}
  PROVE  Trail(search, candidate, j + 1, n)
<1>1. PICK f \in [1 .. j -> 1 .. Len(search)] : Trails(search, candidate, j, i, f)
  BY DEF Trail
<1> DEFINE g == [k \in 1 .. j + 1 |-> IF k <= j THEN f[k] ELSE n]
<1>2. /\ g \in [1 .. j + 1 -> 1 .. Len(search)]
      /\ g[j + 1] = n
      /\ \A k \in 1 .. j : g[k] = f[k]
  OBVIOUS
<1> HIDE DEF g
<1>3. g[1] = 1 /\ g[j] = i
  BY <1>1, <1>2 DEF Trails
<1>4. ASSUME NEW k \in 1 .. j + 1
      PROVE  search[g[k]] \in {Wild, candidate[k]}
  <2>1. CASE k = j + 1
    BY <1>2, <2>1
  <2>2. CASE k # j + 1
    <3>1. k \in 1 .. j
      BY <2>2
    <3> QED  BY <1>1, <1>2, <3>1 DEF Trails
  <2> QED  BY <2>1, <2>2
<1>5. ASSUME NEW k \in 1 .. j
      PROVE  g[k + 1] = g[k] + 1 \/ (g[k + 1] = g[k] /\ search[g[k]] = Wild)
  <2>1. CASE k = j
    BY <1>2, <1>3, <2>1
  <2>2. CASE k # j
    <3>1. k \in 1 .. j - 1 /\ k + 1 \in 1 .. j
      BY <2>2
    <3> QED  BY <1>1, <1>2, <3>1 DEF Trails
  <2> QED  BY <2>1, <2>2
<1>6. Trails(search, candidate, j + 1, n, g)
  BY <1>2, <1>3, <1>4, <1>5 DEF Trails
<1> QED  BY <1>2, <1>6 DEF Trail

\* A wildcard at the end of a pattern stands for all that follows.
LEMMA TrailSpreads ==
  ASSUME NEW search, NEW candidate, Len(search) \in Nat \ {0},
         NEW l \in Nat, NEW j \in 1 .. l,
         search[Len(search)] = Wild, Trail(search, candidate, j, Len(search))
  PROVE  Trail(search, candidate, l, Len(search))
<1> DEFINE m == Len(search)
<1>1. PICK f \in [1 .. j -> 1 .. m] : Trails(search, candidate, j, m, f)
  BY DEF Trail
<1> DEFINE g == [k \in 1 .. l |-> IF k <= j THEN f[k] ELSE m]
<1>2. /\ g \in [1 .. l -> 1 .. m]
      /\ \A k \in 1 .. l : k > j => g[k] = m
      /\ \A k \in 1 .. j : g[k] = f[k]
  OBVIOUS
<1> HIDE DEF g
<1>3. g[1] = 1 /\ g[j] = m /\ g[l] = m
  <2>1. g[1] = 1 /\ g[j] = m
    BY <1>1, <1>2 DEF Trails
  <2>2. l = j \/ l > j
    OBVIOUS
  <2> QED  BY <1>2, <2>1, <2>2
<1>4. ASSUME NEW k \in 1 .. l
      PROVE  search[g[k]] \in {Wild, candidate[k]}
  <2>1. CASE k > j
    BY <1>2, <2>1
  <2>2. CASE ~ (k > j)
    <3>1. k \in 1 .. j
      BY <2>2
    <3> QED  BY <1>1, <1>2, <3>1 DEF Trails
  <2> QED  BY <2>1, <2>2
<1>5. ASSUME NEW k \in 1 .. l - 1
      PROVE  g[k + 1] = g[k] + 1 \/ (g[k + 1] = g[k] /\ search[g[k]] = Wild)
  <2>1. CASE k < j
    <3>1. k \in 1 .. j - 1 /\ k + 1 \in 1 .. j /\ k \in 1 .. j
      BY <2>1
    <3> QED  BY <1>1, <1>2, <3>1 DEF Trails
  <2>2. CASE ~ (k < j)
    <3>1. k + 1 \in 1 .. l /\ k + 1 > j /\ (k = j \/ k > j) /\ k \in 1 .. l
      BY <2>2
    <3>2. g[k + 1] = m /\ g[k] = m
      BY <1>2, <1>3, <3>1
    <3> QED  BY <3>2
  <2> QED  BY <2>1, <2>2
<1>6. Trails(search, candidate, l, m, g)
  BY <1>3, <1>4, <1>5 DEF Trails
<1> QED  BY <1>2, <1>6 DEF Trail

LEMMA TrailCovers ==
  ASSUME NEW search, NEW candidate, NEW trailing \in BOOLEAN,
         IsSequence(search), search # <<>>, IsSequence(candidate), candidate # <<>>,
         NEW i, Trail(search, candidate, Len(candidate), i),
         \/ i = Len(search)
         \/ trailing /\ i = Len(search) - 1 /\ search[Len(search)] = Wild
  PROVE  Covers(search, candidate, trailing)
<1>1. PICK f \in [1 .. Len(candidate) -> 1 .. Len(search)] :
        Trails(search, candidate, Len(candidate), i, f)
  BY DEF Trail
<1>2. DOMAIN search = 1 .. Len(search) /\ DOMAIN candidate = 1 .. Len(candidate)
  BY SequenceFacts
<1>3. Stands(search, candidate, trailing, f)
  BY <1>1, <1>2 DEF Trails, Stands
<1> QED  BY <1>1, <1>2, <1>3 DEF Covers

-----------------------------------------------------------------------------
\* Whether the iterator sees the end of a list.
Ends(parts, stuck) == ~ (stuck /\ parts[Len(parts)] \in ShortParts)

LEMMA FinishedAtEnd ==
  ASSUME NEW parts, NEW k, NEW stuck
  PROVE  Finished(parts, k, stuck) <=> k = Len(parts) /\ Ends(parts, stuck)
  BY DEF Finished, Ends

States == [i : Nat, j : Nat, frozen : BOOLEAN, result : {"none", "yes", "no"}]

\* What the loop of CompareParts knows of the parts it has taken.
Knows(search, candidate, s) ==
  /\ s.i \in 0 .. Len(search) /\ s.j \in 0 .. Len(candidate)
  /\ s.result = "none" /\ s.j = 0 => s.i = 0 /\ ~ s.frozen
  /\ s.result = "none" /\ s.j # 0 =>
       /\ s.i # 0 /\ Trail(search, candidate, s.j, s.i)
       /\ s.frozen => search[s.i] = Wild
  /\ s.result = "yes" => Trail(search, candidate, Len(candidate), Len(search))

Sound(search, candidate, stuck, s) ==
  /\ s \in States
  /\ stuck => s.result # "yes"
  /\ Ends(search, stuck) /\ Ends(candidate, stuck) => Knows(search, candidate, s)

\* What one turn does: refuse, take the part, accept the rest, or go on behind
\* a wildcard.
LEMMA AdvanceCases ==
  ASSUME NEW search, NEW candidate, NEW stuck, NEW s,
         NEW a, a = Advance(search, candidate, stuck, s),
         NEW j, j = Following(candidate, s.j),
         NEW i, i = IF s.frozen THEN s.i ELSE Following(search, s.i),
         NEW n, n = Following(search, i)
  PROVE  \/ a = [s EXCEPT !.result = "no"]
         \/ /\ s.frozen \/ ~ Finished(search, s.i, stuck)
            /\ \/ /\ search[i] = candidate[j]
                  /\ a = [i |-> i, j |-> j, frozen |-> s.frozen, result |-> "none"]
               \/ /\ search[i] = Wild /\ Finished(search, i, stuck)
                  /\ a = [s EXCEPT !.result = "yes"]
               \/ /\ search[i] = Wild /\ ~ Finished(search, i, stuck)
                  /\ s.frozen /\ search[n] \in {Wild, candidate[j]}
                  /\ a = [i |-> n, j |-> j, frozen |-> search[n] = Wild, result |-> "none"]
               \/ /\ search[i] = Wild
                  /\ a = [i |-> i, j |-> j, frozen |-> TRUE, result |-> "none"]
<1> DEFINE no == (~ s.frozen /\ Finished(search, s.i, stuck)) \/ search[i] \notin {Wild, candidate[j]}
           on == s.frozen /\ search[n] \in {Wild, candidate[j]}
<1>1. a =
        IF no THEN [s EXCEPT !.result = "no"]
        ELSE IF search[i] = candidate[j]
             THEN [i |-> i, j |-> j, frozen |-> s.frozen, result |-> "none"]
        ELSE IF Finished(search, i, stuck) THEN [s EXCEPT !.result = "yes"]
        ELSE IF on THEN [i |-> n, j |-> j, frozen |-> search[n] = Wild, result |-> "none"]
        ELSE [i |-> i, j |-> j, frozen |-> TRUE, result |-> "none"]
  BY Zenon DEF Advance
<1>2. ~ no => /\ s.frozen \/ ~ Finished(search, s.i, stuck)
              /\ search[i] = Wild \/ search[i] = candidate[j]
  BY Zenon
<1>3. CASE no
  BY <1>1, <1>3, Zenon
<1>4. CASE ~ no /\ search[i] = candidate[j]
  BY <1>1, <1>2, <1>4, Zenon
<1>5. CASE ~ no /\ search[i] # candidate[j] /\ Finished(search, i, stuck)
  BY <1>1, <1>2, <1>5, Zenon
<1>6. CASE ~ no /\ search[i] # candidate[j] /\ ~ Finished(search, i, stuck) /\ on
  BY <1>1, <1>2, <1>6, Zenon
<1>7. CASE ~ no /\ search[i] # candidate[j] /\ ~ Finished(search, i, stuck) /\ ~ on
  BY <1>1, <1>2, <1>7, Zenon
<1> QED  BY <1>3, <1>4, <1>5, <1>6, <1>7, Zenon

LEMMA AdvanceSound ==
  ASSUME NEW search, NEW candidate, NEW stuck \in BOOLEAN, NEW s,
         IsSequence(search), search # <<>>, IsSequence(candidate), candidate # <<>>,
         Sound(search, candidate, stuck, s), s.result = "none",
         ~ Finished(candidate, s.j, stuck)
  PROVE  Sound(search, candidate, stuck, Advance(search, candidate, stuck, s))
<1> DEFINE a == Advance(search, candidate, stuck, s)
           m == Len(search)
           l == Len(candidate)
           j == Following(candidate, s.j)
           i == IF s.frozen THEN s.i ELSE Following(search, s.i)
           n == Following(search, i)
<1>1. m \in Nat \ {0} /\ l \in Nat \ {0}
  BY SequenceFacts
<1>2. s \in States /\ s.i \in Nat /\ s.j \in Nat /\ s.frozen \in BOOLEAN
  BY DEF Sound, States
<1>3. j \in Nat /\ i \in Nat /\ n \in Nat
  BY <1>1, <1>2 DEF Following
<1>4. \/ a = [s EXCEPT !.result = "no"]
      \/ /\ s.frozen \/ ~ Finished(search, s.i, stuck)
         /\ \/ /\ search[i] = candidate[j]
               /\ a = [i |-> i, j |-> j, frozen |-> s.frozen, result |-> "none"]
            \/ /\ search[i] = Wild /\ Finished(search, i, stuck)
               /\ a = [s EXCEPT !.result = "yes"]
            \/ /\ search[i] = Wild /\ ~ Finished(search, i, stuck)
               /\ s.frozen /\ search[n] \in {Wild, candidate[j]}
               /\ a = [i |-> n, j |-> j, frozen |-> search[n] = Wild, result |-> "none"]
            \/ /\ search[i] = Wild
               /\ a = [i |-> i, j |-> j, frozen |-> TRUE, result |-> "none"]
  <2>1. /\ a = Advance(search, candidate, stuck, s) /\ j = Following(candidate, s.j)
        /\ i = (IF s.frozen THEN s.i ELSE Following(search, s.i))
        /\ n = Following(search, i)
    OBVIOUS
  <2> HIDE DEF a, i, j, n
  <2> QED  BY <2>1, AdvanceCases
\* While nothing is stuck, the loop has more to take, and takes the next part.
<1> DEFINE Usual == Ends(search, stuck) /\ Ends(candidate, stuck)
<1>5. ASSUME Usual
      PROVE  /\ j = s.j + 1 /\ j \in 1 .. l /\ Knows(search, candidate, s)
             /\ s.frozen => s.j # 0 /\ s.i \in 1 .. m /\ search[s.i] = Wild
             /\ s.j # 0 => s.i \in 1 .. m /\ Trail(search, candidate, s.j, s.i)
             /\ s.j = 0 => s.i = 0 /\ ~ s.frozen
  <2>1. Knows(search, candidate, s) /\ s.j # l
    BY <1>5, FinishedAtEnd DEF Sound
  <2> QED  BY <1>1, <1>2, <2>1 DEF Knows, Following
<1>6. ASSUME Usual, s.frozen \/ ~ Finished(search, s.i, stuck), search[i] \in {Wild, candidate[j]}
      PROVE  i \in 1 .. m /\ Trail(search, candidate, j, i)
  <2>1. CASE s.frozen
    <3>1. i = s.i
      BY <2>1
    <3> QED  BY <1>1, <1>2, <1>5, <1>6, <2>1, <3>1, TrailGrows
  <2>2. CASE ~ s.frozen
    <3>1. s.i # m
      BY <1>6, <2>2, FinishedAtEnd
    <3>2. i = s.i + 1 /\ i \in 1 .. m
      BY <1>1, <1>5, <1>6, <2>2, <3>1 DEF Following, Knows
    <3>3. CASE s.j = 0
      <4>1. i = 1 /\ j = 1
        BY <1>5, <1>6, <3>2, <3>3
      <4>2. search[1] \in {Wild, candidate[1]}
        BY <1>6, <4>1
      <4> HIDE DEF i, j
      <4> QED  BY <1>1, <3>2, <4>1, <4>2, TrailStarts
    <3>4. CASE s.j # 0
      BY <1>1, <1>2, <1>5, <1>6, <3>2, <3>4, TrailGrows
    <3> QED  BY <3>3, <3>4
  <2> QED  BY <1>2, <2>1, <2>2
<1> HIDE DEF a, i, j, n
<1>7. CASE a = [s EXCEPT !.result = "no"]
  <2>1. a \in States /\ a.result = "no" /\ a.i = s.i /\ a.j = s.j
    BY <1>2, <1>7 DEF States
  <2> QED  BY <1>5, <2>1 DEF Sound, Knows, a
<1>8. CASE /\ s.frozen \/ ~ Finished(search, s.i, stuck)
           /\ search[i] = candidate[j]
           /\ a = [i |-> i, j |-> j, frozen |-> s.frozen, result |-> "none"]
  <2>1. /\ a \in States /\ a.result = "none" /\ a.i = i /\ a.j = j /\ a.frozen = s.frozen
    BY <1>2, <1>3, <1>8 DEF States
  <2>2. Usual => Knows(search, candidate, a)
    <3> SUFFICES ASSUME Usual PROVE Knows(search, candidate, a)
      OBVIOUS
    <3>1. i \in 1 .. m /\ Trail(search, candidate, j, i) /\ j \in 1 .. l
      BY <1>5, <1>6, <1>8
    <3>2. s.frozen => search[i] = Wild
      BY <1>5 DEF i
    <3> QED  BY <1>1, <2>1, <3>1, <3>2 DEF Knows
  <2> QED  BY <2>1, <2>2 DEF Sound, a
<1>9. CASE /\ s.frozen \/ ~ Finished(search, s.i, stuck)
           /\ search[i] = Wild /\ Finished(search, i, stuck)
           /\ a = [s EXCEPT !.result = "yes"]
  <2>1. /\ a \in States /\ a.result = "yes" /\ a.i = s.i /\ a.j = s.j
    BY <1>2, <1>9 DEF States
  <2>2. i = m /\ Ends(search, stuck)
    BY <1>9, FinishedAtEnd
  <2>3. ~ stuck
    BY <1>9, <2>2, CertificateAssumption DEF Ends
  <2>4. Usual => Knows(search, candidate, a)
    <3> SUFFICES ASSUME Usual PROVE Knows(search, candidate, a)
      OBVIOUS
    <3>1. Trail(search, candidate, j, m) /\ j \in 1 .. l /\ search[m] = Wild
      BY <1>5, <1>6, <1>9, <2>2
    <3>2. Trail(search, candidate, l, m)
      BY <1>1, <3>1, TrailSpreads
    <3> QED  BY <1>5, <2>1, <3>2 DEF Knows
  <2> QED  BY <2>1, <2>3, <2>4 DEF Sound, a
<1>10. CASE /\ search[i] = Wild /\ ~ Finished(search, i, stuck)
            /\ s.frozen /\ search[n] \in {Wild, candidate[j]}
            /\ a = [i |-> n, j |-> j, frozen |-> search[n] = Wild, result |-> "none"]
  <2> DEFINE wild == search[n] = Wild
  <2>0. wild \in BOOLEAN
    OBVIOUS
  <2>1. /\ a \in States /\ a.result = "none" /\ a.i = n /\ a.j = j /\ a.frozen = wild
    BY <1>3, <1>10, <2>0 DEF States
  <2>2. Usual => Knows(search, candidate, a)
    <3> SUFFICES ASSUME Usual PROVE Knows(search, candidate, a)
      OBVIOUS
    <3>1. i = s.i /\ s.i \in 1 .. m /\ search[s.i] = Wild /\ s.j # 0 /\ Trail(search, candidate, s.j, s.i)
      BY <1>5, <1>10 DEF i
    <3>2. n = s.i + 1 /\ n \in 1 .. m
      BY <1>1, <1>10, <3>1, FinishedAtEnd DEF n, Following
    <3>3. Trail(search, candidate, j, n) /\ j \in 1 .. l
      BY <1>1, <1>2, <1>5, <1>10, <3>1, <3>2, TrailGrows
    <3>4. a.frozen => search[n] = Wild
      BY <2>1, Zenon
    <3> HIDE DEF wild
    <3> QED  BY <1>1, <2>1, <3>2, <3>3, <3>4 DEF Knows
  <2> QED  BY <2>1, <2>2 DEF Sound, a
<1>11. CASE /\ s.frozen \/ ~ Finished(search, s.i, stuck)
            /\ search[i] = Wild
            /\ a = [i |-> i, j |-> j, frozen |-> TRUE, result |-> "none"]
  <2>1. /\ a \in States /\ a.result = "none" /\ a.i = i /\ a.j = j /\ a.frozen = TRUE
    BY <1>3, <1>11 DEF States
  <2>2. Usual => Knows(search, candidate, a)
    <3> SUFFICES ASSUME Usual PROVE Knows(search, candidate, a)
      OBVIOUS
    <3>1. i \in 1 .. m /\ Trail(search, candidate, j, i) /\ j \in 1 .. l
      BY <1>5, <1>6, <1>11
    <3> QED  BY <1>1, <1>11, <2>1, <3>1 DEF Knows
  <2> QED  BY <2>1, <2>2 DEF Sound, a
<1> QED  BY <1>4, <1>7, <1>8, <1>9, <1>10, <1>11 DEF a

\* A turn of the loop, which may be over.
Take(search, candidate, stuck, s) ==
  IF s.result # "none" \/ Finished(candidate, s.j, stuck) THEN s
  ELSE Advance(search, candidate, stuck, s)

Takes(search, candidate, stuck, g, n) ==
  /\ g[0] = Start
  /\ \A k \in 1 .. n : g[k] = Take(search, candidate, stuck, g[k - 1])

IsUpTo(g, n) == g = [k \in 0 .. n |-> g[k]]

\* The function of turns exists.
LEMMA TurnsExist ==
  ASSUME NEW search, NEW candidate, NEW stuck, NEW N \in Nat
  PROVE  \E g : Takes(search, candidate, stuck, g, N) /\ IsUpTo(g, N)
<1> DEFINE Has(n) == \E g : Takes(search, candidate, stuck, g, n) /\ IsUpTo(g, n)
           B == {n \in 0 .. N : ~ Has(n)}
<1>1. SUFFICES ASSUME B # {} PROVE FALSE
  BY DEF Takes
<1>2. B \subseteq Nat
  OBVIOUS
<1>3. PICK n \in B : \A k \in B : ~ (k < n)
  BY <1>1, <1>2, LeastOf
<1>4. n # 0
  <2> DEFINE g0 == [k \in 0 .. 0 |-> Start]
  <2>1. g0[0] = Start /\ IsUpTo(g0, 0)
    BY DEF IsUpTo
  <2>2. Takes(search, candidate, stuck, g0, 0)
    BY <2>1 DEF Takes
  <2> QED  BY <2>1, <2>2
<1>5. n - 1 \in 0 .. N /\ n \in 1 .. N /\ n - 1 < n
  BY <1>4
<1>6. Has(n - 1)
  BY <1>3, <1>5
<1>7. PICK g : Takes(search, candidate, stuck, g, n - 1) /\ IsUpTo(g, n - 1)
  BY <1>6
<1> DEFINE h == [k \in 0 .. n |-> IF k < n THEN g[k] ELSE Take(search, candidate, stuck, g[n - 1])]
<1>8. IsUpTo(h, n)
  BY DEF IsUpTo
<1>10. \A k \in 0 .. n - 1 : h[k] = g[k]
  BY <1>5
<1>11. h[n] = Take(search, candidate, stuck, g[n - 1])
  BY <1>5
<1> HIDE DEF h
<1>9. Takes(search, candidate, stuck, h, n)
  <2>1. h[0] = Start
    <3>1. 0 \in 0 .. n - 1 /\ g[0] = Start
      BY <1>5, <1>7 DEF Takes
    <3> QED  BY <1>10, <3>1
  <2>2. ASSUME NEW k \in 1 .. n
        PROVE  h[k] = Take(search, candidate, stuck, h[k - 1])
    <3>1. k - 1 \in 0 .. n - 1 /\ h[k - 1] = g[k - 1]
      <4>1. k - 1 \in 0 .. n - 1
        BY <1>5
      <4> QED  BY <1>10, <4>1
    <3>2. CASE k = n
      BY <1>11, <3>1, <3>2
    <3>3. CASE k # n
      <4>1. k \in 1 .. n - 1 /\ k \in 0 .. n - 1
        BY <1>5, <3>3
      <4> QED  BY <1>7, <1>10, <3>1, <4>1 DEF Takes
    <3> QED  BY <3>2, <3>3
  <2> QED  BY <2>1, <2>2 DEF Takes
<1> QED  BY <1>3, <1>8, <1>9

\* The loop's last state is one that it reached turn by turn.
LEMMA ComparedByTaking ==
  ASSUME NEW search, NEW candidate, NEW trailing, NEW stuck,
         IsSequence(search), IsSequence(candidate), search # <<>>, candidate # <<>>,
         search # <<Wild>>,
         CompareParts(search, candidate, trailing, stuck) = "yes"
  PROVE  \E g, n : /\ n \in Nat /\ Takes(search, candidate, stuck, g, n)
                   /\ \/ g[n].result = "yes"
                      \/ /\ Finished(candidate, g[n].j, stuck)
                         /\ g[n].result = "none"
                         /\ Remainder(search, stuck, trailing, g[n].i)
<1> DEFINE N == Enough(search, candidate)
           F(t) == [n \in 0 .. N |->
                      IF n = 0 THEN Start
                      ELSE IF t[n - 1].result # "none" \/ Finished(candidate, t[n - 1].j, stuck)
                           THEN t[n - 1]
                           ELSE Advance(search, candidate, stuck, t[n - 1])]
           Turn == CHOOSE t : t = F(t)
<1>1. N \in Nat
  <2>1. Len(search) \in Nat /\ Len(candidate) \in Nat
    BY SequenceFacts
  <2> QED  BY <2>1 DEF Enough
<1>2. CompareParts(search, candidate, trailing, stuck) =
        IF <<>> \in {search, candidate} THEN "error"
        ELSE IF search = <<Wild>> THEN "yes"
        ELSE IF Turn[N].result # "none" THEN Turn[N].result
        ELSE IF ~ Finished(candidate, Turn[N].j, stuck) THEN "hangs"
        ELSE IF Remainder(search, stuck, trailing, Turn[N].i) THEN "yes" ELSE "no"
  BY Zenon DEF CompareParts
<1>3. \E t : t = F(t)
  <2>1. PICK g : Takes(search, candidate, stuck, g, N) /\ IsUpTo(g, N)
    <3> HIDE DEF N, F
    <3> QED  BY <1>1, TurnsExist, Zenon
  <2>2. ASSUME NEW k \in 0 .. N PROVE g[k] = F(g)[k]
    <3>1. CASE k = 0
      BY <2>1, <3>1 DEF Takes
    <3>2. CASE k # 0
      <4>1. k \in 1 .. N
        BY <1>1, <3>2
      <4>2. g[k] = Take(search, candidate, stuck, g[k - 1])
        BY <2>1, <4>1 DEF Takes
      <4> QED  BY <3>2, <4>2 DEF Take
    <3> QED  BY <3>1, <3>2
  <2> DEFINE f == F(g)
  <2>3. f = [k \in 0 .. N |-> f[k]]
    OBVIOUS
  <2> HIDE DEF N, F
  <2>4. [k \in 0 .. N |-> g[k]] = [k \in 0 .. N |-> f[k]]
    BY <2>2
  <2>5. g = F(g)
    BY <2>1, <2>3, <2>4 DEF IsUpTo
  <2> QED  BY <2>5
<1>4. Turn = F(Turn)
  <2> HIDE DEF F
  <2> QED  BY <1>3
<1> HIDE DEF Turn
<1>5. Takes(search, candidate, stuck, Turn, N)
  <2>1. Turn[0] = Start
    <3>1. Turn[0] = F(Turn)[0]
      BY <1>4
    <3> QED  BY <1>1, <3>1
  <2>2. ASSUME NEW k \in 1 .. N
        PROVE  Turn[k] = Take(search, candidate, stuck, Turn[k - 1])
    <3>1. Turn[k] = F(Turn)[k]
      BY <1>4
    <3>2. k \in 0 .. N /\ k # 0
      BY <1>1
    <3> HIDE DEF N
    <3> QED  BY <3>1, <3>2 DEF Take
  <2> HIDE DEF N
  <2> QED  BY <2>1, <2>2 DEF Takes
<1> HIDE DEF N, F
<1>6. \/ Turn[N].result = "yes"
      \/ /\ Finished(candidate, Turn[N].j, stuck) /\ Turn[N].result = "none"
         /\ Remainder(search, stuck, trailing, Turn[N].i)
  BY <1>2
<1> QED  BY <1>1, <1>5, <1>6

\* A pattern that CompareParts accepts covers the string, whatever the iterator
\* read of an unwritten boolean.
LEMMA ComparedIsCovered ==
  ASSUME NEW search, NEW candidate, NEW trailing \in BOOLEAN, NEW stuck \in BOOLEAN,
         IsSequence(search), IsSequence(candidate),
         CompareParts(search, candidate, trailing, stuck) = "yes"
  PROVE  Covers(search, candidate, trailing)
<1>1. search # <<>> /\ candidate # <<>>
  <2> SUFFICES ASSUME <<>> \in {search, candidate} PROVE FALSE
    OBVIOUS
  <2>1. CompareParts(search, candidate, trailing, stuck) = "error"
    BY Zenon DEF CompareParts
  <2> QED  BY <2>1
<1>2. CASE search = <<Wild>>
  BY <1>2 DEF Covers
<1>3. CASE search # <<Wild>>
  <2>1. PICK g, n : /\ n \in Nat /\ Takes(search, candidate, stuck, g, n)
                    /\ \/ g[n].result = "yes"
                       \/ /\ Finished(candidate, g[n].j, stuck)
                          /\ g[n].result = "none"
                          /\ Remainder(search, stuck, trailing, g[n].i)
    BY <1>1, <1>3, ComparedByTaking
  <2>2. Len(search) \in Nat \ {0} /\ Len(candidate) \in Nat \ {0}
    BY <1>1, SequenceFacts
  <2> DEFINE B == {k \in 0 .. n : ~ Sound(search, candidate, stuck, g[k])}
  <2>3. ASSUME B # {} PROVE FALSE
    <3>1. B \subseteq Nat
      BY <2>1
    <3>2. PICK k \in B : \A b \in B : ~ (b < k)
      BY <2>3, <3>1, LeastOf
    <3>3. k # 0
      <4>1. g[0] = Start
        BY <2>1 DEF Takes
      <4>2. Sound(search, candidate, stuck, Start)
        BY <2>2 DEF Sound, Start, States, Knows
      <4> QED  BY <3>2, <4>1, <4>2
    <3>4. k \in 1 .. n /\ k - 1 \in 0 .. n /\ k - 1 < k
      BY <2>1, <3>2, <3>3
    <3>5. Sound(search, candidate, stuck, g[k - 1])
      BY <3>2, <3>4
    <3>6. g[k] = Take(search, candidate, stuck, g[k - 1])
      BY <2>1, <3>4 DEF Takes
    <3>7. Sound(search, candidate, stuck, g[k])
      <4>1. CASE g[k - 1].result # "none" \/ Finished(candidate, g[k - 1].j, stuck)
        BY <3>5, <3>6, <4>1 DEF Take
      <4>2. CASE ~ (g[k - 1].result # "none" \/ Finished(candidate, g[k - 1].j, stuck))
        <5>1. g[k] = Advance(search, candidate, stuck, g[k - 1])
          BY <3>6, <4>2 DEF Take
        <5> QED  BY <1>1, <3>5, <4>2, <5>1, AdvanceSound
      <4> QED  BY <4>1, <4>2
    <3> QED  BY <3>2, <3>7
  <2> DEFINE s == g[n]
  <2>4. n \in 0 .. n
    BY <2>1
  <2>5. Sound(search, candidate, stuck, s)
    BY <2>3, <2>4
  <2>6. CASE s.result = "yes"
    <3>1. ~ stuck
      BY <2>5, <2>6 DEF Sound
    <3>2. Trail(search, candidate, Len(candidate), Len(search))
      BY <2>5, <2>6, <3>1 DEF Sound, Ends, Knows
    <3> QED  BY <1>1, <3>2, TrailCovers
  <2>7. CASE /\ Finished(candidate, s.j, stuck) /\ s.result = "none"
             /\ Remainder(search, stuck, trailing, s.i)
    <3>1. s.j = Len(candidate) /\ Ends(candidate, stuck)
      BY <2>7, FinishedAtEnd
    <3> DEFINE last == Following(search, s.i)
    <3>2. \/ Finished(search, s.i, stuck)
          \/ trailing /\ Finished(search, last, stuck) /\ search[last] = Wild
      BY <2>7 DEF Remainder
    <3>3. /\ Ends(search, stuck)
          /\ s.i = Len(search) \/ (trailing /\ last = Len(search) /\ search[last] = Wild)
      BY <3>2, FinishedAtEnd
    <3>4. s.i \in 0 .. Len(search) /\ Trail(search, candidate, Len(candidate), s.i)
      BY <2>2, <2>5, <2>7, <3>1, <3>3 DEF Sound, Knows
    <3>5. last = Len(search) => s.i = Len(search) \/ s.i = Len(search) - 1
      BY <2>2, <3>4 DEF Following
    <3>6. \/ s.i = Len(search)
          \/ trailing /\ s.i = Len(search) - 1 /\ search[Len(search)] = Wild
      BY <3>3, <3>5
    <3> HIDE DEF s
    <3> QED  BY <1>1, <3>4, <3>6, TrailCovers
  <2> QED  BY <2>1, <2>6, <2>7
<1> QED  BY <1>2, <1>3

\* A key that an extension allows in a document is listed for it.
LEMMA AllowedIsPermitted ==
  ASSUME NEW allowlist, NEW key, NEW url, NEW stuck \in BOOLEAN,
         IsSequence(allowlist),
         \A n \in DOMAIN allowlist : IsSequence(allowlist[n].host) /\ IsSequence(allowlist[n].path),
         IsSequence(url.host), IsSequence(url.path),
         IsAllowed(allowlist, key, url, stuck) = "yes"
  PROVE  \E n \in DOMAIN allowlist : Permits(allowlist[n], key, url)
<1> DEFINE verdict(n) == Matches(allowlist[n], key, url, stuck)
           decided == {n \in DOMAIN allowlist : verdict(n) # "no"}
           first == CHOOSE n \in decided : \A k \in decided : n <= k
<1>1. IsAllowed(allowlist, key, url, stuck) = IF decided = {} THEN "no" ELSE verdict(first)
  BY Zenon DEF IsAllowed
<1>2. DOMAIN allowlist \subseteq Nat
  <2>1. Len(allowlist) \in Nat /\ DOMAIN allowlist = 1 .. Len(allowlist)
    BY LenProperties DEF IsSequence
  <2> QED  BY <2>1
<1>3. decided # {} /\ decided \subseteq Nat
  BY <1>1, <1>2
<1>4. \E n \in decided : \A k \in decided : n <= k
  <2> HIDE DEF decided
  <2>1. PICK n \in decided : \A k \in decided : ~ (k < n)
    BY <1>3, LeastOf
  <2>2. \A k \in decided : n <= k
    BY <1>3, <2>1
  <2> QED  BY <2>2
<1>5. first \in decided
  <2> HIDE DEF decided
  <2> QED  BY <1>4
<1>6. verdict(first) = "yes"
  BY <1>1, <1>3
<1> HIDE DEF first
<1> DEFINE entry == allowlist[first]
<1>7. first \in DOMAIN allowlist /\ Matches(entry, key, url, stuck) = "yes"
  BY <1>5, <1>6
<1>8. IsSequence(entry.host) /\ IsSequence(entry.path)
  BY <1>7
<1> HIDE DEF entry
<1>9. /\ entry.key = key /\ url.scheme = "https" /\ entry.port = url.port
      /\ CompareParts(entry.host, url.host, FALSE, stuck) = "yes"
      /\ CompareParts(entry.path, url.path, TRUE, stuck) = "yes"
  BY <1>7 DEF Matches
<1>10. Permits(entry, key, url)
  BY <1>8, <1>9, ComparedIsCovered DEF Permits
<1> QED  BY <1>7, <1>10 DEF entry

-----------------------------------------------------------------------------
(***************************************************************************)
(* The theorems                                                            *)
(***************************************************************************)
Inv == TypeOK /\ WindowsFit /\ AgreementFits

LEMMA InvInit == Init => Inv
<1> SUFFICES ASSUME Init PROVE Inv
  OBVIOUS
<1>1. TypeOK
  BY ChannelAssumption DEF Init, TypeOK, Phases, AnyText
<1>2. \A c \in Channels : ~ Asked(c) /\ replies[c] = <<>> /\ DOMAIN replies[c] = {}
  BY DEF Init, Asked
<1>3. WindowsFit
  BY <1>2, ChannelAssumption DEF Init, WindowsFit, PhaseFits, WindowFits, Live, Creating, Gone
<1>4. AgreementFits
  BY <1>2 DEF Init, AgreementFits, MessagesFit, MemoryFits, HasParams, Accepted
<1>5. QED
  BY <1>1, <1>3, <1>4 DEF Inv

LEMMA InvStep == Inv /\ [Next]_vars => Inv'
<1> SUFFICES ASSUME Inv, [Next]_vars PROVE Inv'
  OBVIOUS
<1>1. TypeOK'
  BY TypeStep DEF Inv
<1>2. /\ TypeOK /\ \A d \in Channels : PhaseFits(d) /\ WindowFits(d)
      /\ \A d \in Channels : Fits(d)
  BY DEF Inv, WindowsFit, AgreementFits, Fits
<1>3. CASE Next
  <2>1. PICK c \in Channels :
           \/ Create(c) \/ Select(c) \/ Cancel(c) \/ Close(c) \/ Collect(c)
           \/ \E key \in PageKeys : PrepareKeyAgreementParameters(c, key)
           \/ \E valid \in BOOLEAN : ExchangeKeyAgreementSignatures(c, valid)
           \/ EnableEndToEndEncryption(c) \/ Handle(c) \/ Hear(c)
    BY <1>3 DEF Next
  <2>2. \A d \in Channels : PhaseFits(d)'
    BY <1>2, <2>1, PhaseStep
  <2>3. \A d \in Channels : WindowFits(d)'
    BY <1>2, <2>1, WindowStep
  <2>4. \A d \in Channels : Fits(d)'
    BY <1>2, <2>1, PageStep, ManagerStep
  <2>5. QED
    BY <1>1, <2>2, <2>3, <2>4 DEF Inv, WindowsFit, AgreementFits, Fits
<1>4. CASE UNCHANGED vars
  <2>1. UNCHANGED <<registered, stray, hung, phase, params, signature, encrypts, call,
                    replies, stored, x25519, agreed, signed, e2ee>>
    BY <1>4 DEF vars, registry, page, wire, manager
  <2>2. ASSUME NEW c \in Channels
        PROVE  PhaseFits(c)' /\ WindowFits(c)' /\ Fits(c)'
    <3>1. PhaseFits(c)'
      BY <1>2, <2>1 DEF PhaseFits, Only, Asked
    <3>2. WindowFits(c)'
      BY <1>2, <2>1 DEF WindowFits
    <3>3. MessagesFit(c)'
      BY <1>2, <2>1 DEF Fits, MessagesFit, RequestFits, ReplyFits, HasParams, Accepted, Asked
    <3>4. MemoryFits(c)'
      BY <1>2, <2>1 DEF Fits, MemoryFits, HasParams, Accepted
    <3>5. QED
      BY <3>1, <3>2, <3>3, <3>4 DEF Fits
  <2>3. QED
    BY <1>1, <2>2 DEF Inv, WindowsFit, AgreementFits, Fits
<1>5. QED
  BY <1>3, <1>4

LEMMA InvAlways == Spec => []Inv
  BY InvInit, InvStep, PTL DEF Spec

\* At most one channel of a window is live unless the window's entry was removed
\* for another one, no window is kept by a channel that is not, and everything
\* has its type (RegisterInWindow, UnregisterInWindow and their callers).
THEOREM WindowsStaySound == Spec => []ChannelInv
<1>1. Inv => ChannelInv
  BY WindowsFitSafe DEF Inv, ChannelInv
<1>2. QED
  BY <1>1, InvAlways, PTL

\* What the page and the manager hold of the parameters agrees, and a side only
\* encrypts once both have signed them, whatever order the requests and answers
\* of the channels come in and whatever characters the page's keys have
\* (BerytusChannel.cpp, workers/main.ts).
THEOREM EncryptionStaysAgreed == Spec => []EncryptionIsAgreed
<1>1. ASSUME Inv
      PROVE  EncryptionIsAgreed
  <2>1. ASSUME NEW c \in Channels, agreed[c] # NoParams
        PROVE  agreed[c].of = params[c]
    BY <1>1, <2>1, TextFacts DEF Inv, AgreementFits, MemoryFits, Accepted
  <2>2. PartiesAgree
    BY <1>1, <2>1 DEF PartiesAgree, Inv, AgreementFits, MemoryFits
  <2>3. QED
    BY <1>1, <2>2 DEF EncryptionIsAgreed, Inv, AgreementFits, MemoryFits, Accepted, HasParams
<1>2. Inv => EncryptionIsAgreed
  BY <1>1
<1>3. QED
  BY <1>2, InvAlways, PTL

\* A channel is under way only if the certificate of its window allows its key.
LEMMA KeysStep == Inv /\ KeysAreAllowed /\ [Next]_vars => KeysAreAllowed'
<1> SUFFICES ASSUME Inv, KeysAreAllowed, [Next]_vars,
                    NEW d \in Channels, phase'[d] \notin {"none", "failed"}, WebApp[d] # Anonymous
             PROVE  d \in Listed
  BY DEF KeysAreAllowed, Listed
<1>1. TypeOK /\ \A c \in Channels : PhaseFits(c)
  BY DEF Inv, WindowsFit
<1>2. phase[d] \notin {"none", "failed"} => d \in Listed
  BY DEF KeysAreAllowed
<1>3. CASE phase'[d] = phase[d]
  BY <1>2, <1>3
<1>4. ASSUME NEW c \in Channels, Create(c), phase'[d] # phase[d]
      PROVE  d \in Listed
  <2>1. c = d
    BY <1>1, <1>4 DEF Create, TypeOK
  <2>2. PICK stuck \in Unwritten : Verdict[d][stuck] = "yes"
    BY <1>1, <1>4, <2>1 DEF Create, TypeOK
  <2>3. stuck \in BOOLEAN /\ Window[d] \in Windows
    BY ChannelAssumption
  <2>4. IsAllowed(Allowlist[Window[d]], WebApp[d], Document[Window[d]], stuck) = "yes"
    BY <2>2, <2>3 DEF Verdict
  <2>5. \E n \in DOMAIN Allowlist[Window[d]] :
          Permits(Allowlist[Window[d]][n], WebApp[d], Document[Window[d]])
    BY <2>3, <2>4, ChannelAssumption, AllowedIsPermitted
  <2> QED  BY <2>5 DEF Listed
<1>5. ASSUME NEW c \in Channels, phase[c] \notin {"none", "failed"},
             \A b \in Channels \ {c} : phase'[b] = phase[b]
      PROVE  d \in Listed
  <2>1. CASE c = d
    BY <1>2, <1>5, <2>1
  <2>2. CASE c # d
    BY <1>3, <1>5, <2>2
  <2> QED  BY <2>1, <2>2
<1>6. ASSUME NEW c \in Channels, Select(c) \/ Cancel(c) \/ Collect(c)
      PROVE  d \in Listed
  <2>1. phase[c] \notin {"none", "failed"}
    BY <1>6 DEF Select, Cancel, Collect
  <2>2. \A b \in Channels \ {c} : phase'[b] = phase[b]
    BY <1>1, <1>6 DEF Select, Cancel, Collect, Continue, Fail, TypeOK
  <2> QED  BY <1>5, <2>1, <2>2
<1>7. ASSUME NEW c \in Channels, Hear(c), phase'[d] # phase[d]
      PROVE  d \in Listed
  <2>1. phase[c] \notin {"none", "failed"}
    <3>1. replies[c] # <<>>
      BY <1>7 DEF Hear, SigningKeyArrives, Created, Closed, Prepared, Verified, Signed, Enabled,
                  Arrives
    <3> QED  BY <1>1, <3>1 DEF PhaseFits, Gone
  <2>2. \A b \in Channels \ {c} : phase'[b] = phase[b]
    BY <1>1, <1>7 DEF Hear, SigningKeyArrives, Created, Closed, Prepared, Verified, Signed, Enabled,
                      Continue, Fail, TypeOK, page
  <2> QED  BY <1>5, <2>1, <2>2
<1>8. ASSUME NEW c \in Channels,
             \/ Close(c) \/ Handle(c)
             \/ \E key \in PageKeys : PrepareKeyAgreementParameters(c, key)
             \/ \E valid \in BOOLEAN : ExchangeKeyAgreementSignatures(c, valid)
             \/ EnableEndToEndEncryption(c)
      PROVE  phase' = phase
  <2>1. UNCHANGED page
    BY <1>8 DEF Close, Handle, PrepareKeyAgreementParameters, ExchangeKeyAgreementSignatures,
                EnableEndToEndEncryption, GetSigningKey, CreateChannel, CloseChannel,
                GenerateX25519Key, VerifySignedKeyExchangeParameters, SignKeyExchangeParameters,
                HandleEnableEndToEndEncryption
  <2> QED  BY <2>1 DEF page
<1>9. CASE UNCHANGED vars
  BY <1>3, <1>9 DEF vars, page
<1> QED  BY <1>3, <1>4, <1>6, <1>7, <1>8, <1>9 DEF Next

\* A web application uses its signing key only in documents that the
\* certificate lists for it, wherever wildcards stand in the list and whatever
\* is read of the unwritten boolean of PartIterator::Traverse
\* (BerytusX509Extension.cpp, BerytusChannel.cpp:262-290).
THEOREM KeysStayAllowed == Spec => []KeysAreAllowed
<1>1. Init => KeysAreAllowed
  BY DEF Init, KeysAreAllowed
<1> QED  BY <1>1, KeysStep, InvAlways, PTL DEF Spec
=============================================================================
