----------------------------- MODULE Redaction ------------------------------
(***************************************************************************)
(* app/redaction.py around its patterns: what a match is replaced by, and  *)
(* sanitize_for_boundary, by whose field a text is kept, replaced whole or *)
(* searched.  A record is sanitized when it is made, sanitized again as it *)
(* is stored, and refused by the publisher if that would change it.        *)
(*                                                                         *)
(* A text is two things next to each other: what is recognised of either   *)
(* must not depend on the other.  A token holds 32 hexadecimal digits;     *)
(* whether 13 to 19 decimal ones stand together in them is chosen.         *)
(***************************************************************************)
EXTENDS PiiPattern

CONSTANTS
    Leads,      \* what a text may begin with
    Things,     \* what it may speak of
    Gaps,       \* what may stand between two things
    Fields      \* kinds of field: "server", "secret" or "other"

VARIABLES
    said,     \* the text as the caller wrote it, in four parts
    field,    \* the field it is put in
    runs,     \* digests may have a run of digits as long as a card number
    record,   \* what the field holds
    stored,   \* what the audit sink stored of it
    stage     \* how far the record is

vars == <<said, field, runs, record, stored, stage>>

-----------------------------------------------------------------------------

OnlyDigits(t) == SelectSeq(t, LAMBDA s : s.kind \in Digit)

DigitValue(c) == IF c = "0" THEN 0 ELSE CHOOSE n \in 1..9 : Figures[n] = c

\* Every second digit from the right is doubled, and 9 taken off if it is more.
LuhnValid(t) ==
    LET digits == Reverse(OnlyDigits(t))
        Weigh(i) ==
            LET n == DigitValue(digits[i].kind)
            IN  IF i % 2 = 1 THEN n ELSE IF 2 * n > 9 THEN 2 * n - 9 ELSE 2 * n
    IN  /\ Len(digits) \in 13..19
        /\ MapThenSumSet(Weigh, DOMAIN digits) % 10 = 0

Strip(t) ==
    LET ink == {i \in DOMAIN t : t[i].kind # " "}
    IN  IF ink = {} THEN <<>> ELSE SubSeq(t, Min(ink), Max(ink))

Folded(t) == [i \in DOMAIN t |-> IF t[i].kind = "A" THEN Symbol("a", <<>>) ELSE t[i]]

\* Mistake: a number is taken as it was written.
CanonicalizeAsWritten(kind, t) == IF kind = "email" THEN Folded(Strip(t)) ELSE Strip(t)

Canonicalize(kind, t) ==
    CASE kind = "email" -> Folded(Strip(t))
      [] kind \in {"phone", "card", "ssn"} -> OnlyDigits(t)
      [] OTHER -> Strip(t)

\* The digest of a value stands for the value.
TokenFor(kind, t) == Symbol(kind, Canonicalize(kind, t))

Replaced(kind, t) ==
    CASE kind = "datetime" -> t
      [] kind = "card" /\ ~ LuhnValid(t) -> <<TokenFor("numeric_identifier", t)>>
      [] OTHER -> <<TokenFor(kind, t)>>

\* The search goes on behind a match.  In a token it can find nothing but a run
\* of digits, and cuts the token at it.
Redact(t, cut) ==
    LET Search(done, i) ==
            IF i <= done.upto THEN done
            ELSE IF Matches(t, i) # <<>>
                 THEN LET end == MatchEnd(t, i)
                      IN  [text |-> done.text \o Replaced(Matches(t, i)[1], SubSeq(t, i, end)),
                           upto |-> end]
            ELSE [text |-> Append(done.text,
                             IF cut /\ IsToken(t[i]) THEN Symbol("cut", <<t[i]>>) ELSE t[i]),
                  upto |-> i]
    IN  FoldLeftDomain(Search, [text |-> <<>>, upto |-> 0], t).text

\* What storage.py: _memory_tokens keeps of a text besides its words.
PrivacyTokens(t) == {s \in ToSet(t) : IsToken(s) /\ s.kind # "cut"}

LoneToken(t) == Len(t) = 1 /\ IsToken(t[1]) /\ t[1].kind # "cut"

\* Mistake: a field that is replaced whole is replaced whatever it holds.
SanitizeAgain(f, t, cut) ==
    CASE t = <<>> \/ f = "server" -> t
      [] f = "secret" -> <<TokenFor(f, t)>>
      [] OTHER -> IF LoneToken(t) THEN t ELSE Redact(t, cut)

Sanitize(f, t, cut) ==
    CASE t = <<>> \/ LoneToken(t) \/ f = "server" -> t
      [] f = "secret" -> <<TokenFor(f, t)>>
      [] OTHER -> Redact(t, cut)

-----------------------------------------------------------------------------

Init ==
    /\ said \in {<<lead, one, gap, two>> :
                    lead \in Leads, one \in Things, gap \in Gaps, two \in Things \cup {<<>>}}
    /\ field \in Fields
    /\ runs \in BOOLEAN
    /\ record = FlattenSeq(said)
    /\ stored = <<>>
    /\ stage = "made"

\* main.py:104, :125 and :179, and ingestion's services.py:22.
SanitizeRecord ==
    /\ stage = "made"
    /\ record' = Sanitize(field, record, runs)
    /\ stage' = "sanitized"
    /\ UNCHANGED <<said, field, runs, stored>>

\* audit.py:143, whatever was done to the record before.
StoreRecord ==
    /\ stage = "sanitized"
    /\ stored' = Sanitize(field, record, runs)
    /\ stage' = "stored"
    /\ UNCHANGED <<said, field, runs, record>>

\* publisher.py:62: the event is refused if sanitizing would change it.
PublishRecord ==
    /\ stage = "stored"
    /\ stage' = IF Sanitize(field, record, runs) = record THEN "published" ELSE "refused"
    /\ UNCHANGED <<said, field, runs, record, stored>>

Next == SanitizeRecord \/ StoreRecord \/ PublishRecord

Spec == Init /\ [][Next]_vars

-----------------------------------------------------------------------------

\* What numbers are written with besides their digits.
Formatting == Separator \cup {"+", "(", ")"}

\* Two things with more between them than could be in a number or an address.
Apart == \E i \in DOMAIN said[3] : said[3][i].kind \notin Formatting \cup {"."}

\* What was sanitized once is stored as it is and never refused.  Two cases
\* aside: things with nothing between, where an e-mail address is seen only once
\* the number at its side is a token, and a token in a text that a run cuts.
BoundaryStable ==
    stage = "refused" \/ (stage = "published" /\ stored # record) =>
        /\ field = "other"
        /\ said[3] = <<>> \/ (runs /\ ~ LoneToken(record))

\* A text whatever its letter case and its formatting.
Essence(t) == SelectSeq(Folded(t), LAMBDA s : s.kind \notin Formatting)

\* A question that is nothing but this thing, in this writing or another one
\* with the same token.  A number that is no card keeps its formatting.
Questions(thing) ==
    {q \in Things :
        /\ Essence(q) = Essence(thing)
        /\ LoneToken(Redact(q, FALSE))
        /\ Redact(q, FALSE)[1].kind = "numeric_identifier" => q = thing}

\* "Enabling deterministic search": a question with an identifier finds the
\* documents that speak of it, however it is written and whatever else they say.
QuestionFinds ==
    field = "other" /\ stage = "sanitized" /\ Apart =>
        \A k \in {2, 4} : \A q \in Questions(said[k]) :
            Redact(q, FALSE)[1] \in PrivacyTokens(record)

IsDatetime(t) == t # <<>> /\ Len(t) \in ShapeEnds(t, 1, DatetimeShapes)

InClear(t, d) == \E i \in 0..Len(d) - Len(t) : SubSeq(d, i + 1, i + Len(t)) = t

\* "Operational data, not telephone numbers": the timestamps of records and
\* events stay readable, and with them every event can be published.
TimestampsKept ==
    field = "other" /\ stage = "sanitized" /\ Apart =>
        \A k \in {2, 4} : IsDatetime(said[k]) => InClear(said[k], record)

=============================================================================
