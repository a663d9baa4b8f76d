---------------------------- MODULE Certificate ----------------------------
(***************************************************************************)
(* Which signing keys a document may use: the allow list of the Berytus    *)
(* X.509 extension and the matching of its URL patterns                    *)
(* (dom/berytus/BerytusX509Extension.cpp).  A host or a path is the        *)
(* sequence of parts its PartIterator yields.                              *)
(***************************************************************************)
EXTENDS Integers, Sequences

CONSTANT ShortParts     \* the parts that are one character long

Wild == "*"

ASSUME CertificateAssumption == Wild \in ShortParts

\* A list, of whatever its members are.
IsSequence(s) == s \in Seq({s[n] : n \in DOMAIN s})

\* The iterator at part k of a string.  Traverse leaves peekedDelimiter
\* unwritten when the last part is one character long; stuck is the value it
\* then reads.  If it is TRUE the iterator stays on that part.
Finished(parts, k, stuck) ==
    k = Len(parts) /\ ~ (stuck /\ parts[k] \in ShortParts)

Following(parts, k) == IF k = Len(parts) THEN k ELSE k + 1

Start == [i |-> 0, j |-> 0, frozen |-> FALSE, result |-> "none"]

\* Mutant of Advance: a frozen wildcard gives way to any part.
AdvanceLoosely(search, candidate, stuck, s) ==
    LET j == Following(candidate, s.j)
        i == Following(search, s.i)
    IN  IF Finished(search, s.i, stuck) THEN [s EXCEPT !.result = "no"]
        ELSE IF search[i] \in {Wild, candidate[j]} THEN [s EXCEPT !.i = i, !.j = j]
        ELSE [s EXCEPT !.i = i, !.j = j, !.result = IF s.i > 0 /\ search[s.i] = Wild
                                                    THEN "none" ELSE "no"]

\* One turn of the loop of CompareParts, which takes one part of the candidate.
Advance(search, candidate, stuck, s) ==
    LET j == Following(candidate, s.j)
        i == IF s.frozen THEN s.i ELSE Following(search, s.i)
        next == search[Following(search, i)]
        at(k, frozen) == [i |-> k, j |-> j, frozen |-> frozen, result |-> "none"]
    IN  IF (~ s.frozen /\ Finished(search, s.i, stuck)) \/ search[i] \notin {Wild, candidate[j]}
        THEN [s EXCEPT !.result = "no"]
        ELSE IF search[i] = candidate[j] THEN at(i, s.frozen)
        ELSE IF Finished(search, i, stuck) THEN [s EXCEPT !.result = "yes"]
        ELSE IF s.frozen /\ next \in {Wild, candidate[j]}
             THEN at(Following(search, i), next = Wild)
             ELSE at(i, TRUE)

\* The candidate is consumed: what is left of the search string decides.
Remainder(search, stuck, ignoreTrailing, i) ==
    LET last == Following(search, i)
    IN  \/ Finished(search, i, stuck)
        \/ ignoreTrailing /\ Finished(search, last, stuck) /\ search[last] = Wild

\* Past Enough turns the loop has met a state again, and never ends.
Enough(search, candidate) == 2 * (Len(search) + Len(candidate))

CompareParts(search, candidate, ignoreTrailing, stuck) ==
    LET Turn[n \in 0 .. Enough(search, candidate)] ==
            IF n = 0 THEN Start
            ELSE LET s == Turn[n - 1]
                 IN  IF s.result # "none" \/ Finished(candidate, s.j, stuck) THEN s
                     ELSE Advance(search, candidate, stuck, s)
        end == Turn[Enough(search, candidate)]
    IN  IF <<>> \in {search, candidate} THEN "error"
        ELSE IF search = <<Wild>> THEN "yes"
        ELSE IF end.result # "none" THEN end.result
        ELSE IF ~ Finished(candidate, end.j, stuck) THEN "hangs"
        ELSE IF Remainder(search, stuck, ignoreTrailing, end.i) THEN "yes" ELSE "no"

\* SigningKeyEntry::Matches and Url::Matches: the key, the scheme, the port,
\* the host, then the path.
Matches(entry, key, url, stuck) ==
    LET host == CompareParts(entry.host, url.host, FALSE, stuck)
    IN  IF entry.key # key \/ url.scheme # "https" \/ entry.port # url.port THEN "no"
        ELSE IF host # "yes" THEN host
        ELSE CompareParts(entry.path, url.path, TRUE, stuck)

\* IsAllowed: the first entry that matches, fails, or never lets go.
IsAllowed(allowlist, key, url, stuck) ==
    LET decided == {n \in DOMAIN allowlist : Matches(allowlist[n], key, url, stuck) # "no"}
    IN  IF decided = {} THEN "no"
        ELSE Matches(allowlist[CHOOSE n \in decided : \A k \in decided : n <= k],
                     key, url, stuck)

-----------------------------------------------------------------------------
(* What a pattern means: a wildcard stands for one part or more, and the   *)
(* last one of a path for none as well.                                    *)
Stands(search, candidate, trailing, f) ==
    /\ f[1] = 1
    /\ \A j \in DOMAIN candidate : search[f[j]] \in {Wild, candidate[j]}
    /\ \A j \in 1 .. Len(candidate) - 1 :
        \/ f[j + 1] = f[j] + 1
        \/ f[j + 1] = f[j] /\ search[f[j]] = Wild
    /\ LET last == f[Len(candidate)]
       IN  \/ last = Len(search)
           \/ trailing /\ last = Len(search) - 1 /\ search[Len(search)] = Wild

Covers(search, candidate, trailing) ==
    \/ search = <<Wild>>
    \/ \E f \in [DOMAIN candidate -> DOMAIN search] : Stands(search, candidate, trailing, f)

Permits(entry, key, url) ==
    /\ entry.key = key /\ url.scheme = "https" /\ entry.port = url.port
    /\ Covers(entry.host, url.host, FALSE)
    /\ Covers(entry.path, url.path, TRUE)
=============================================================================
