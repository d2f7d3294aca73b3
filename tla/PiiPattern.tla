----------------------------- MODULE PiiPattern -----------------------------
(***************************************************************************)
(* app/redaction.py: PII_PATTERN, one alternation of five patterns, as re  *)
(* searches a text with it.  A text is a sequence of symbols: characters,  *)
(* and the tokens that stand for what an earlier search replaced.          *)
(***************************************************************************)
EXTENDS Integers, SequencesExt, FiniteSetsExt

Symbol(kind, value) == [kind |-> kind, value |-> value]
Text(s) == [i \in DOMAIN s |-> Symbol(s[i], <<>>)]

Figures == <<"1", "2", "3", "4", "5", "6", "7", "8", "9">>
Digit == {"0"} \cup ToSet(Figures)
Letter == {"a", "A", "b", "c", "T", "Z"}
Word == Digit \cup Letter
Separator == {" ", "-"}
Character == Word \cup Separator \cup {"(", ")", "+", "@", ".", ",", ":"}

\* "<PII_...>" ends in characters that no pattern takes, nor takes for a word.
IsToken(symbol) == symbol.kind \notin Character

\* The character at i, or "" beyond the text.
At(t, i) == IF i \in DOMAIN t THEN t[i].kind ELSE ""

Beside(t, a, b, chars) == At(t, a - 1) \in chars \/ At(t, b + 1) \in chars
Boundary(t, i) == (At(t, i - 1) \in Word) # (At(t, i) \in Word)

-----------------------------------------------------------------------------

\* A shape is a sequence of sets of characters; Fits: t has it from a on.
Digits(n) == [i \in 1..n |-> Digit]
Fits(t, a, shape) == \A i \in DOMAIN shape : At(t, a + i - 1) \in shape[i]

Dash == <<{"-"}>>
Colon == <<{":"}>>

SsnShapes == {Digits(3) \o Dash \o Digits(2) \o Dash \o Digits(4)}

DateShape == Digits(4) \o Dash \o Digits(2) \o Dash \o Digits(2)
Seconds ==
    {<<>>, Colon \o Digits(2)}
        \cup {Colon \o Digits(2) \o <<{"."}>> \o Digits(n) : n \in 1..6}
Zones ==
    {<<>>, <<{"Z"}>>}
        \cup {<<{"+", "-"}>> \o Digits(2) \o colon \o Digits(2) : colon \in {<<>>, Colon}}
Times ==
    {<<{"T", " "}>> \o Digits(2) \o Colon \o Digits(2) \o s \o z : s \in Seconds, z \in Zones}
DatetimeShapes == {DateShape} \cup {DateShape \o time : time \in Times}

\* Where a match of one of the shapes that starts at a can end.
ShapeEnds(t, a, shapes) ==
    {b \in {a + Len(s) - 1 : s \in {s \in shapes : Fits(t, a, s)}} :
        ~ Beside(t, a, b, Digit)}

\* The last position of the run of chars that starts at a; a - 1 if none does.
RunEnd(t, a, chars) ==
    LET stops == {i \in a..Len(t) : At(t, i) \notin chars}
    IN  IF stops = {} THEN Len(t) ELSE Min(stops) - 1

DigitsIn(t, a, b) == {i \in a..b : At(t, i) \in Digit}

\* 13 to 19 digits, each with one separator after it or none.
CardEnds(t, a) ==
    IF At(t, a) \notin Digit THEN {}
    ELSE {b \in a + 12 .. RunEnd(t, a, Digit \cup Separator) :
             /\ \A i \in a + 1 .. b : At(t, i) \in Separator => At(t, i - 1) \in Digit
             /\ Cardinality(DigitsIn(t, a, b)) \in 13..19
             /\ ~ Beside(t, a, b, Digit)}

EmailEnds(t, a) ==
    LET at == RunEnd(t, a, Word \cup {".", "+", "-"}) + 1
        domain == RunEnd(t, at + 1, Word \cup {".", "-"})
    IN  IF at = a \/ At(t, at) # "@" \/ ~ Boundary(t, a) THEN {}
        ELSE {b \in at + 1 .. domain :
                 /\ Boundary(t, b + 1)
                 /\ \E dot \in at + 2 .. b - 2 :
                       /\ At(t, dot) = "."
                       /\ \A i \in dot + 1 .. b : At(t, i) \in Letter}

PhoneEnds(t, a) ==
    LET first == IF At(t, a) = "+" THEN a + 1 ELSE a
    IN  IF At(t, first) \notin Digit THEN {}
        ELSE {b \in first + 8 .. RunEnd(t, first, Digit \cup Separator \cup {"(", ")"}) :
                 At(t, b) \in Digit /\ ~ Beside(t, a, b, Word)}

-----------------------------------------------------------------------------

\* Mistake: dates are looked for last.
PrecedenceDatesLast == <<"ssn", "card", "email", "phone", "datetime">>

Precedence == <<"datetime", "ssn", "card", "email", "phone">>

Ends(t, a, kind) ==
    CASE kind = "datetime" -> ShapeEnds(t, a, DatetimeShapes)
      [] kind = "ssn" -> ShapeEnds(t, a, SsnShapes)
      [] kind = "card" -> CardEnds(t, a)
      [] kind = "email" -> EmailEnds(t, a)
      [] kind = "phone" -> PhoneEnds(t, a)

\* The first pattern of the alternation that matches at a, as long as it can.
Matches(t, a) == SelectSeq(Precedence, LAMBDA kind : Ends(t, a, kind) # {})
MatchEnd(t, a) == Max(Ends(t, a, Matches(t, a)[1]))

=============================================================================
