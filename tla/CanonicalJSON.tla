--------------------------- MODULE CanonicalJSON ---------------------------
(***************************************************************************)
(* The JSON that both parties of a key agreement sign: how the channel     *)
(* writes its parameters (dom/berytus/BerytusKeyAgreementParameters.cpp)   *)
(* and what the manager's JSON.parse makes of the text.                    *)
(*                                                                         *)
(* A string is a sequence of characters, of which only the kind matters.   *)
(* A document is the sequence of its members, each with the names that     *)
(* lead to it.                                                             *)
(***************************************************************************)
EXTENDS Naturals, Sequences

Short == "slash"            \* written with a backslash
Control == "control"        \* written as \u and its number
Characters == {"letter", Short, Control}

Token(form, ch) == [form |-> form, ch |-> ch]
NoToken == Token("none", "none")

\* How the memory of a variable that is gone may read.
Stale == {"kept", "overwritten"}

-----------------------------------------------------------------------------
(* The parameters.  The salts and the digest, which is over the first salt, *)
(* the channel's id, the time, the origin and the certificate, are those of *)
(* one session and of no other.                                             *)
Fingerprint(c) == [hash |-> "SHA-256", salt |-> c, digest |-> c, version |-> "v0.3"]
Session(c) == [id |-> c, timestamp |-> c, fingerprint |-> Fingerprint(c)]
Authentication(webApp, scm) ==
    [name |-> "Ed25519", public |-> [webApp |-> webApp, scm |-> scm]]
Exchange(webApp, scm) == [name |-> "X25519", public |-> [webApp |-> webApp, scm |-> scm]]
Derivation(c) ==
    [name |-> "HKDF", hash |-> "SHA-256", salt |-> c, info |-> "berytus03 derived"]
Generation == [name |-> "AES-GCM", length |-> "256"]

-----------------------------------------------------------------------------
(* Writing                                                                 *)
\* What the loop appends when toAppend refers to a token of an earlier turn.
Leftover(toAppend, ch, stale) ==
    CASE toAppend = NoToken -> <<>>
      [] toAppend # NoToken /\ stale = "kept" -> <<toAppend>>
      [] OTHER -> <<Token("raw", ch)>>

\* One turn of the loop of ToCanonicalJSON(nsString).  A control character is
\* written at once and leaves toAppend as it is.
WriteCharacter(s, ch, stale) ==
    LET token == Token(IF ch = Short THEN "short" ELSE "raw", ch)
    IN  IF ch = Control
        THEN [s EXCEPT !.json = @ \o <<Token("number", ch)>> \o Leftover(s.toAppend, ch, stale)]
        ELSE [json |-> Append(s.json, token), toAppend |-> token]

StringText(chars, stale) ==
    LET written[n \in 0 .. Len(chars)] ==
            IF n = 0 THEN [json |-> <<>>, toAppend |-> NoToken]
            ELSE WriteCharacter(written[n - 1], chars[n], stale)
    IN  written[Len(chars)].json

\* A number, a buffer or a literal: nothing in it needs an escape.
Plain(value) == <<Token("raw", value)>>

\* JSONObjectWriter, in the object that the names at lead to.
Member(at, name, text) == <<[path |-> Append(at, name), text |-> text]>>

\* CryptoBuffer: a JSONArrayWriter of its bytes.
Buffer(of) == Plain(of)

PublicText(at, keys, stale) ==
    Member(at, "scm", StringText(keys.scm, stale))
    \o Member(at, "webApp", StringText(keys.webApp, stale))

FingerprintText(at, f) ==
    Member(at, "hash", Plain(f.hash)) \o Member(at, "salt", Buffer(f.salt))
    \o Member(at, "value", Buffer(f.digest)) \o Member(at, "version", Plain(f.version))

SessionText(at, session) ==
    FingerprintText(Append(at, "fingerprint"), session.fingerprint)
    \o Member(at, "id", Plain(session.id)) \o Member(at, "timestamp", Plain(session.timestamp))

AuthenticationText(at, a, stale) ==
    Member(at, "name", Plain(a.name)) \o PublicText(Append(at, "public"), a.public, stale)

ExchangeText(at, x, stale) ==
    Member(at, "name", Plain(x.name)) \o PublicText(Append(at, "public"), x.public, stale)

DerivationText(at, d) ==
    Member(at, "hash", Plain(d.hash)) \o Member(at, "info", Buffer(d.info))
    \o Member(at, "name", Plain(d.name)) \o Member(at, "salt", Buffer(d.salt))

GenerationText(at, g) ==
    Member(at, "length", Plain(g.length)) \o Member(at, "name", Plain(g.name))

ToCanonicalJSON(p, stale) ==
    AuthenticationText(<<"authentication">>, p.authentication, stale)
    \o DerivationText(<<"derivation">>, p.derivation)
    \o ExchangeText(<<"exchange">>, p.exchange, stale)
    \o GenerationText(<<"generation">>, p.generation)
    \o SessionText(<<"session">>, p.session)

-----------------------------------------------------------------------------
(* Reading                                                                 *)
\* JSON.parse refuses a control character that is not escaped.
IsWellFormed(json) ==
    \A i \in DOMAIN json : \A k \in DOMAIN json[i].text :
        json[i].text[k] # Token("raw", Control)

ValueOf(json, path) ==
    LET text == json[CHOOSE i \in DOMAIN json : json[i].path = path].text
    IN  [k \in DOMAIN text |-> text[k].ch]

PublicKeys(json, name) ==
    [webApp |-> ValueOf(json, <<name, "public", "webApp">>),
     scm |-> ValueOf(json, <<name, "public", "scm">>)]

\* The members the manager compares and uses.
Parse(json) ==
    [session |-> ValueOf(json, <<"session", "id">>),
     salt |-> ValueOf(json, <<"derivation", "salt">>),
     authentication |-> PublicKeys(json, "authentication"),
     exchange |-> PublicKeys(json, "exchange")]

\* What Parse should give.
Means(p) ==
    [session |-> <<p.session.id>>, salt |-> <<p.derivation.salt>>,
     authentication |-> p.authentication.public, exchange |-> p.exchange.public]

\* Uint8Array.fromBase64 and atob take no control character.
IsBase64(chars) == \A k \in DOMAIN chars : chars[k] # Control
=============================================================================
