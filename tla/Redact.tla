------------------------------- MODULE Redact -------------------------------
(***************************************************************************)
(* Detection and masking of sensitive text (core/src/redact.rs).           *)
(*                                                                         *)
(* A text is a sequence of words.  What a regular expression does to a     *)
(* word is given by the constants: the patterns that match it, whether it  *)
(* is long and random enough for the catch-all, and what its masked sample *)
(* still shows.  A word that a pattern has replaced is its sample; what a  *)
(* later pattern masks in the rest of it is not represented.               *)
(***************************************************************************)
EXTENDS FiniteSets, Filter

CONSTANTS
    Matches,        \* word |-> the names of the patterns that match it
    Random,         \* the words that look_like_secret is true of
    Shows,          \* word |-> what its sample shows of it
    MaxPerType      \* findings of one kind in a text

\* RAW_PATTERNS, in order.
Patterns == <<
    [name |-> "api_key",      severity |-> "CRITICAL"],
    [name |-> "gcp_api_key",  severity |-> "CRITICAL"],
    [name |-> "stripe_key",   severity |-> "CRITICAL"],
    [name |-> "github_token", severity |-> "CRITICAL"],
    [name |-> "private_key",  severity |-> "CRITICAL"],
    [name |-> "db_conn",      severity |-> "CRITICAL"],
    [name |-> "jwt",          severity |-> "HIGH"],
    [name |-> "credit_card",  severity |-> "HIGH"],
    [name |-> "ssn",          severity |-> "HIGH"],
    [name |-> "bearer_token", severity |-> "HIGH"],
    [name |-> "email",        severity |-> "MEDIUM"],
    [name |-> "ip_internal",  severity |-> "MEDIUM"] >>

HighEntropy == [name |-> "high_entropy_secret", severity |-> "HIGH"]

SeverityRank == [CRITICAL |-> 4, HIGH |-> 3, MEDIUM |-> 2, LOW |-> 1, INFO |-> 0]

\* The samples that are the same for all words of the kind.
Uniform == {"bearer_token", "private_key", "jwt"}

Plain(word) == [mask |-> "none", word |-> word]

RedactSample(kind, word) ==
    [mask |-> kind, word |-> IF kind \in Uniform THEN "****" ELSE Shows[word]]

IsMatch(p, w) == w.mask = "none" /\ p.name \in Matches[w.word]

LooksLikeSecret(p, w) == w.mask = "none" /\ w.word \in Random

\* Each pattern replaces in what the ones before it have left: a word becomes
\* the sample of the first pattern that matches it.
ApplyPatterns(text) ==
    LET hits(w) == {k \in DOMAIN Patterns : IsMatch(Patterns[k], w)}
    IN  [i \in DOMAIN text |->
            IF hits(text[i]) = {} THEN text[i]
            ELSE RedactSample(Patterns[Min(hits(text[i]))].name, text[i].word)]

\* The catch-all, over what the patterns have left.
ReplaceTokens(text) ==
    [i \in DOMAIN text |->
        IF LooksLikeSecret(HighEntropy, text[i])
        THEN RedactSample(HighEntropy.name, text[i].word) ELSE text[i]]

\* redact_text (fuzzy) and redact_transcript.
RedactInner(text, fuzzy) ==
    IF fuzzy THEN ReplaceTokens(ApplyPatterns(text)) ELSE ApplyPatterns(text)

\* The findings of one pattern in the words it matches: one for each sample, and
\* so many of them.
Findings(p, words) ==
    LET found(fs, w) ==
            LET f == [kind |-> p.name, severity |-> p.severity,
                      sample |-> RedactSample(p.name, w.word).word]
            IN  IF Contains(fs, f) \/ Len(fs) >= MaxPerType THEN fs ELSE Append(fs, f)
    IN  FoldLeft(found, <<>>, words)

\* scan (fuzzy) and scan_transcript: each pattern looks at the text itself, the
\* catch-all at what the patterns have left.
ScanInner(text, fuzzy) ==
    LET matched(p) == Only(text, {w \in Range(text) : IsMatch(p, w)})
        rest == ApplyPatterns(text)
        left == Only(rest, {w \in Range(rest) : LooksLikeSecret(HighEntropy, w)})
    IN  FlattenSeq([k \in DOMAIN Patterns |-> Findings(Patterns[k], matched(Patterns[k]))])
        \o IF fuzzy THEN Findings(HighEntropy, left) ELSE <<>>

TopSeverity(findings) ==
    LET ranks == {SeverityRank[findings[i].severity] : i \in DOMAIN findings} \cup {0}
    IN  CHOOSE s \in DOMAIN SeverityRank : SeverityRank[s] = Max(ranks)

=============================================================================
