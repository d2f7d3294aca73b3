------------------------- MODULE RequestMeshProofs -------------------------
(***************************************************************************)
(* What RequestMesh promises of its routes, for any number of requests and *)
(* chunks.                                                                 *)
(*                                                                         *)
(* A handler that has begun is a script: records, events and single calls  *)
(* on the search index in front, and one step at its end that decides how  *)
(* to go on.  The invariant speaks of that last step, and of what is due:  *)
(* done, or in front of it.  Doing a step in front changes nothing of it.  *)
(***************************************************************************)
EXTENDS RequestMesh, FiniteSetTheorems, SequenceTheorems, TLAPS

FrontOps == {"record", "publish", "index", "unindex"}
Calls == {"index", "unindex"}
LastOps == {"receive_ingest", "split", "add", "audit", "delete",
            "receive_payment", "tokenize", "score",
            "receive_ask", "model", "query", "infer", "audit_ask", "reply"}
Ops == FrontOps \cup LastOps
Names == {"request", "document", "chunks", "payment", "llm", "store",
          "PROCESSING", "COMPLETED", "COMPENSATED",
          "STORE_ADD_FAILED", "AUDIT_WRITE_FAILED", "ROLLBACK_FAILED",
          "UNHANDLED_FAILURE", "DOWNSTREAM_TIMEOUT_FAIL_CLOSED",
          "DOWNSTREAM_FAILURE_FAIL_SAFE",
          "IngestionCompensated", "AuditRecordLogged", "TelemetryIngested",
          "PaymentTransactionIngested", "PaymentRiskScored", "PaymentCompensated",
          "TransactionProcessed", "TransactionCompensated",
          "none", "retrieval_store", "llm_inference", "200", "500", "502", "503"}
Args == Names \cup Nat
Steps == [op : Ops, arg : Args]
Entries ==
    {entry \in [op : {"record", "lost", "tried", "publish"}, arg : Args] :
        entry.op = "tried" => entry.arg \notin Owners}

Script(s) ==
    /\ s \in Seq(Steps) /\ Len(s) > 0
    /\ \A i \in 1..Len(s) : (s[i].op \notin FrontOps <=> i = Len(s))
    /\ \A i, j \in 1..Len(s) : s[i] = s[j] => i = j
    /\ \A i, j \in 1..Len(s) : i < j /\ s[j].op \in Calls => s[i].op \in Calls

Front(s) == {s[i] : i \in 1..(Len(s) - 1)}
LastOf(s) == s[Len(s)]

LEMMA FrontOfEmpty == Front(<< >>) = {}
  BY DEF Front

LEMMA HeadOfScript ==
    ASSUME NEW s, Script(s)
    PROVE  /\ s # << >> /\ Head(s) \in Steps /\ LastOf(s) \in Steps
           /\ LastOf(s).op \notin FrontOps
           /\ \A x \in Front(s) : x \in Steps /\ x.op \in FrontOps
           /\ Head(s).op \notin FrontOps => Head(s) = LastOf(s) /\ Front(s) = {}
           /\ Head(s).op \in FrontOps =>
                /\ Head(s) \in Front(s) /\ Script(Tail(s))
                /\ Front(Tail(s)) = Front(s) \ {Head(s)}
                /\ LastOf(Tail(s)) = LastOf(s)
           /\ Head(s).op \notin Calls => \A x \in Front(s) : x.op \notin Calls
  <1>1. /\ s \in Seq(Steps) /\ Len(s) \in Nat /\ Len(s) > 0 /\ s # << >>
        /\ \A i \in 1..Len(s) : s[i] \in Steps
        /\ Head(s) = s[1] /\ 1 \in 1..Len(s) /\ Len(s) \in 1..Len(s)
    BY LenProperties, ElementOfSeq DEF Script
  <1>2. /\ LastOf(s) \in Steps /\ LastOf(s).op \notin FrontOps
        /\ Head(s) \in Steps
    BY <1>1 DEF Script, LastOf
  <1>3. \A x \in Front(s) : x \in Steps /\ x.op \in FrontOps
    BY <1>1 DEF Script, Front
  <1>4. ASSUME Head(s).op \notin FrontOps PROVE Head(s) = LastOf(s) /\ Front(s) = {}
    <2>1. Len(s) = 1
      BY <1>1, <1>4 DEF Script
    <2> QED  BY <2>1, <1>1 DEF LastOf, Front
  <1>5. ASSUME Head(s).op \in FrontOps
        PROVE  /\ Head(s) \in Front(s) /\ Script(Tail(s))
               /\ Front(Tail(s)) = Front(s) \ {Head(s)}
               /\ LastOf(Tail(s)) = LastOf(s)
    <2> DEFINE t == Tail(s)
    <2>1. Len(s) > 1
      BY <1>1, <1>5 DEF Script
    <2>2. /\ t \in Seq(Steps) /\ Len(t) = Len(s) - 1
          /\ \A i \in 1..Len(s) - 1 : t[i] = s[i + 1]
      BY <1>1, HeadTailProperties
    <2> HIDE DEF t
    <2>3. Script(t)
      <3>1. ASSUME NEW i \in 1..Len(t), NEW j \in 1..Len(t)
            PROVE  /\ t[i].op \notin FrontOps <=> i = Len(t)
                   /\ t[i] = t[j] => i = j
                   /\ i < j /\ t[j].op \in Calls => t[i].op \in Calls
        <4>1. /\ i + 1 \in 1..Len(s) /\ j + 1 \in 1..Len(s)
              /\ t[i] = s[i + 1] /\ t[j] = s[j + 1]
              /\ i + 1 = Len(s) <=> i = Len(t)
              /\ (i + 1 = j + 1 => i = j) /\ (i < j => i + 1 < j + 1)
          BY <1>1, <2>2
        <4> QED  BY <4>1 DEF Script
      <3> QED  BY <1>1, <2>1, <2>2, <3>1 DEF Script
    <2>4. LastOf(t) = LastOf(s)
      BY <1>1, <2>1, <2>2 DEF LastOf
    <2>5. Head(s) \in Front(s)
      BY <1>1, <2>1 DEF Front
    <2>6. ASSUME NEW x \in Front(t) PROVE x \in Front(s) \ {Head(s)}
      <3>1. PICK i \in 1..(Len(t) - 1) : x = t[i]
        BY DEF Front
      <3>2. /\ i + 1 \in 1..(Len(s) - 1) /\ i + 1 # 1 /\ i \in 1..(Len(s) - 1)
            /\ i + 1 \in 1..Len(s) /\ 1 \in 1..Len(s)
        BY <1>1, <2>2
      <3>3. s[i + 1] # s[1] /\ s[1] = Head(s)
        BY <1>1, <3>2 DEF Script
      <3>4. s[i + 1] \in Front(s)
        BY <3>2 DEF Front
      <3>5. x = s[i + 1]
        BY <2>2, <3>1, <3>2
      <3> QED  BY <3>3, <3>4, <3>5
    <2>7. ASSUME NEW x \in Front(s), x # Head(s) PROVE x \in Front(t)
      <3>1. PICK i \in 1..(Len(s) - 1) : x = s[i]
        BY DEF Front
      <3>2. i # 1
        BY <1>1, <2>7, <3>1
      <3>3. i - 1 \in 1..(Len(t) - 1) /\ i - 1 \in 1..(Len(s) - 1) /\ (i - 1) + 1 = i
        BY <1>1, <2>2, <3>2
      <3>4. t[i - 1] = x
        BY <2>2, <3>1, <3>3
      <3> QED  BY <3>3, <3>4 DEF Front
    <2> QED  BY <2>3, <2>4, <2>5, <2>6, <2>7 DEF t
  <1>6. ASSUME Head(s).op \notin Calls, NEW x \in Front(s) PROVE x.op \notin Calls
    <2>1. PICK i \in 1..(Len(s) - 1) : x = s[i]
      BY DEF Front
    <2>2. i \in 1..Len(s) /\ (i = 1 \/ 1 < i)
      BY <1>1
    <2> QED  BY <1>1, <1>6, <2>1, <2>2 DEF Script
  <1> QED  BY <1>1, <1>2, <1>3, <1>4, <1>5, <1>6

\* A script of one step, and a step before a script.
LEMMA OneStep ==
    ASSUME NEW x \in Steps, x.op \notin FrontOps
    PROVE  Script(<<x>>) /\ Front(<<x>>) = {} /\ LastOf(<<x>>) = x
  BY DEF Script, Front, LastOf

LEMMA Before ==
    ASSUME NEW a \in Seq(Steps), NEW b, Script(b),
           \A i \in 1..Len(a) : a[i].op \in FrontOps /\ a[i] \notin Front(b),
           \A i, j \in 1..Len(a) : a[i] = a[j] => i = j,
           \/ \A i \in 1..Len(a) : a[i].op \in Calls
           \/ /\ \A i \in 1..Len(a) : a[i].op \notin Calls
              /\ \A x \in Front(b) : x.op \notin Calls
    PROVE  /\ Script(a \o b) /\ LastOf(a \o b) = LastOf(b)
           /\ Front(a \o b) = {a[i] : i \in 1..Len(a)} \cup Front(b)
  <1> DEFINE m == Len(a)
             n == Len(b)
             c == a \o b
  <1>1. /\ b \in Seq(Steps) /\ m \in Nat /\ n \in Nat /\ n > 0
        /\ \A i \in 1..n : (b[i].op \notin FrontOps <=> i = n)
        /\ \A i, j \in 1..n : b[i] = b[j] => i = j
    BY LenProperties DEF Script
  <1>2. /\ c \in Seq(Steps) /\ Len(c) = m + n
        /\ \A i \in 1..m + n : c[i] = IF i <= m THEN a[i] ELSE b[i - m]
    BY <1>1, ConcatProperties
  <1>3. \A i \in 1..m : a[i].op \in FrontOps /\ a[i] \notin Front(b)
    OBVIOUS
  <1>4. \A i, j \in 1..m : a[i] = a[j] => i = j
    OBVIOUS
  <1>5. LastOf(b) = b[n] /\ Front(b) = {b[i] : i \in 1..(n - 1)}
        /\ LastOf(c) = c[Len(c)] /\ Front(c) = {c[i] : i \in 1..(Len(c) - 1)}
    BY DEF LastOf, Front
  <1>6. {a[i] : i \in 1..m} = {a[i] : i \in 1..Len(a)}
    OBVIOUS
  <1> HIDE DEF c, m, n
  <1>7. LastOf(c) = b[n]
    BY <1>1, <1>2, <1>5
  <1>8. ASSUME NEW i \in 1..m + n
        PROVE  \/ i \in 1..m /\ c[i] = a[i]
               \/ i > m /\ i - m \in 1..n /\ c[i] = b[i - m]
    BY <1>1, <1>2
  <1>9. \A i \in 1..Len(c) : (c[i].op \notin FrontOps <=> i = Len(c))
    <2> SUFFICES ASSUME NEW i \in 1..m + n PROVE c[i].op \notin FrontOps <=> i = m + n
      BY <1>2
    <2>1. CASE i \in 1..m /\ c[i] = a[i]
      BY <2>1, <1>1, <1>3
    <2>2. CASE i > m /\ i - m \in 1..n /\ c[i] = b[i - m]
      <3>1. b[i - m].op \notin FrontOps <=> i - m = n
        BY <2>2, <1>1
      <3> QED  BY <2>2, <3>1, <1>1
    <2> QED  BY <1>8, <2>1, <2>2
  <1>10. ASSUME NEW i \in 1..m, NEW j \in 1..n PROVE a[i] # b[j]
    <2>1. CASE j = n
      BY <2>1, <1>1, <1>3
    <2>2. CASE j # n
      <3>1. j \in 1..(n - 1)
        BY <2>2, <1>1
      <3> QED  BY <3>1, <1>3, <1>5
    <2> QED  BY <2>1, <2>2
  <1>11. \A i, j \in 1..Len(c) : c[i] = c[j] => i = j
    <2> SUFFICES ASSUME NEW i \in 1..m + n, NEW j \in 1..m + n, c[i] = c[j] PROVE i = j
      BY <1>2
    <2>1. CASE i \in 1..m /\ j \in 1..m
      BY <2>1, <1>2, <1>1, <1>4
    <2>2. CASE i > m /\ j > m
      <3>1. /\ i - m \in 1..n /\ c[i] = b[i - m]
            /\ j - m \in 1..n /\ c[j] = b[j - m]
        BY <2>2, <1>8, <1>1
      <3>2. i - m = j - m
        BY <3>1, <1>1
      <3> QED  BY <3>2, <1>1
    <2>3. CASE (i \in 1..m /\ j > m) \/ (i > m /\ j \in 1..m)
      BY <2>3, <1>8, <1>10, <1>1
    <2> QED  BY <2>1, <2>2, <2>3, <1>1
  <1>12. Front(c) = {a[i] : i \in 1..m} \cup Front(b)
    <2>1. ASSUME NEW i \in 1..(Len(c) - 1) PROVE c[i] \in {a[k] : k \in 1..m} \cup Front(b)
      <3>1. i \in 1..m + n /\ i # m + n
        BY <1>1, <1>2
      <3> QED  BY <3>1, <1>8, <1>5, <1>1
    <2>2. ASSUME NEW i \in 1..m PROVE a[i] \in Front(c)
      <3>1. i \in 1..(Len(c) - 1) /\ c[i] = a[i]
        BY <1>1, <1>2
      <3> QED  BY <3>1, <1>5
    <2>3. ASSUME NEW i \in 1..(n - 1) PROVE b[i] \in Front(c)
      <3>1. m + i \in 1..(Len(c) - 1) /\ c[m + i] = b[i]
        BY <1>1, <1>2
      <3> QED  BY <3>1, <1>5
    <2>4. \A x \in Front(c) : x \in {a[k] : k \in 1..m} \cup Front(b)
      BY <2>1, <1>5
    <2>5. \A x \in {a[k] : k \in 1..m} : x \in Front(c)
      BY <2>2
    <2>6. \A x \in Front(b) : x \in Front(c)
      BY <2>3, <1>5
    <2> QED  BY <2>4, <2>5, <2>6
  <1>13. ASSUME NEW i \in 1..m + n, NEW j \in 1..m + n, i < j, c[j].op \in Calls
         PROVE  c[i].op \in Calls
    <2>1. CASE \A k \in 1..m : a[k].op \in Calls
      <3>1. CASE i \in 1..m
        BY <2>1, <3>1, <1>1, <1>2
      <3>2. CASE i > m
        <4>1. /\ i - m \in 1..n /\ j - m \in 1..n /\ i - m < j - m
              /\ c[i] = b[i - m] /\ c[j] = b[j - m]
          BY <3>2, <1>13, <1>1, <1>2
        <4> QED  BY <4>1, <1>13 DEF Script, n
      <3> QED  BY <3>1, <3>2, <1>1
    <2>2. CASE (\A k \in 1..m : a[k].op \notin Calls) /\ \A x \in Front(b) : x.op \notin Calls
      <3>1. CASE j \in 1..m
        BY <2>2, <3>1, <1>13, <1>1, <1>2
      <3>2. CASE j > m
        <4>1. j - m \in 1..n /\ c[j] = b[j - m]
          BY <3>2, <1>1, <1>2
        <4>2. CASE j - m = n
          BY <4>1, <4>2, <1>1, <1>13 DEF FrontOps, Calls
        <4>3. CASE j - m # n
          <5>1. j - m \in 1..(n - 1)
            BY <4>1, <4>3, <1>1
          <5> QED  BY <4>1, <5>1, <1>5, <1>13, <2>2
        <4> QED  BY <4>2, <4>3
      <3> QED  BY <3>1, <3>2, <1>1
    <2> QED  BY <2>1, <2>2 DEF m
  <1>14. Script(c)
    <2>1. \A i, j \in 1..Len(c) : i < j /\ c[j].op \in Calls => c[i].op \in Calls
      BY <1>2, <1>13
    <2> QED  BY <1>1, <1>2, <1>9, <1>11, <2>1 DEF Script
  <1> QED  BY <1>5, <1>6, <1>7, <1>12, <1>14 DEF c

LEMMA NamesAreArgs == \A s \in Names : s \in Args
  BY DEF Args

LEMMA OpsSplit == \A o : o \in Ops <=> o \in FrontOps \/ o \in LastOps
  BY DEF Ops

LEMMA OpsDisjoint == \A o : ~ (o \in FrontOps /\ o \in LastOps)
  BY DEF FrontOps, LastOps

LEMMA StepFacts ==
    /\ \A op, arg : Step(op, arg).op = op /\ Step(op, arg).arg = arg
    /\ \A op \in Ops, arg \in Args : Step(op, arg) \in Steps
  BY DEF Step, Steps

LEMMA NoteSay ==
    /\ \A x : Note(x).op = "record" /\ Note(x).arg = x
    /\ \A x : Say(x).op = "publish" /\ Say(x).arg = x
    /\ \A x : Answer(x).op = "reply" /\ Answer(x).arg = x
    /\ \A x \in Names : Note(x) \in Steps /\ Say(x) \in Steps /\ Answer(x) \in Steps
    /\ {"record", "publish"} \subseteq FrontOps /\ "reply" \in LastOps
    /\ "reply" \notin FrontOps
    /\ \A x : Note(x).op \notin Calls /\ Say(x).op \notin Calls
  <1>1. /\ {"record", "publish"} \subseteq FrontOps /\ "reply" \in LastOps
        /\ "record" \notin Calls /\ "publish" \notin Calls
    BY DEF FrontOps, LastOps, Calls
  <1>2. "record" \in Ops /\ "publish" \in Ops /\ "reply" \in Ops
    BY <1>1, OpsSplit
  <1> QED  BY <1>1, <1>2, NamesAreArgs, StepFacts, OpsDisjoint DEF Note, Say, Answer

LEMMA StepIsItsParts == \A x \in Steps : Step(x.op, x.arg) = x
  BY DEF Step, Steps

LEMMA OneBefore ==
    ASSUME NEW x \in Steps, NEW b, Script(b), x.op \in FrontOps, x \notin Front(b),
           x.op \notin Calls, \A y \in Front(b) : y.op \notin Calls
    PROVE  /\ Script(<<x>> \o b) /\ LastOf(<<x>> \o b) = LastOf(b)
           /\ Front(<<x>> \o b) = {x} \cup Front(b)
  <1> DEFINE a == <<x>>
  <1>1. a \in Seq(Steps) /\ Len(a) = 1 /\ a[1] = x /\ 1..Len(a) = {1}
    OBVIOUS
  <1> HIDE DEF a
  <1>2. {a[i] : i \in 1..Len(a)} = {x}
    BY <1>1
  <1>3. /\ \A i \in 1..Len(a) : /\ a[i].op \in FrontOps /\ a[i] \notin Front(b)
                                 /\ a[i].op \notin Calls
        /\ \A i, j \in 1..Len(a) : a[i] = a[j] => i = j
    BY <1>1
  <1>4. /\ Script(a \o b) /\ LastOf(a \o b) = LastOf(b)
        /\ Front(a \o b) = {a[i] : i \in 1..Len(a)} \cup Front(b)
    BY <1>1, <1>3, Before
  <1> QED  BY <1>2, <1>4 DEF a

LEMMA TwoBefore ==
    ASSUME NEW x \in Steps, NEW y \in Steps, NEW b, Script(b),
           x.op \in FrontOps, y.op \in FrontOps, x # y,
           x \notin Front(b), y \notin Front(b), x.op \notin Calls, y.op \notin Calls,
           \A z \in Front(b) : z.op \notin Calls
    PROVE  /\ Script(<<x, y>> \o b) /\ LastOf(<<x, y>> \o b) = LastOf(b)
           /\ Front(<<x, y>> \o b) = {x, y} \cup Front(b)
  <1> DEFINE a == <<x, y>>
  <1>1. a \in Seq(Steps) /\ Len(a) = 2 /\ a[1] = x /\ a[2] = y /\ 1..Len(a) = {1, 2}
    OBVIOUS
  <1> HIDE DEF a
  <1>2. {a[i] : i \in 1..Len(a)} = {x, y}
    BY <1>1
  <1>3. /\ \A i \in 1..Len(a) : /\ a[i].op \in FrontOps /\ a[i] \notin Front(b)
                                 /\ a[i].op \notin Calls
        /\ \A i, j \in 1..Len(a) : a[i] = a[j] => i = j
    BY <1>1
  <1>4. /\ Script(a \o b) /\ LastOf(a \o b) = LastOf(b)
        /\ Front(a \o b) = {a[i] : i \in 1..Len(a)} \cup Front(b)
    BY <1>1, <1>3, Before
  <1> QED  BY <1>2, <1>4 DEF a

LEMMA TwoSteps ==
    ASSUME NEW x \in Steps, NEW l \in Steps, x.op \in FrontOps, l.op \notin FrontOps,
           x.op \notin Calls
    PROVE  Script(<<x, l>>) /\ Front(<<x, l>>) = {x} /\ LastOf(<<x, l>>) = l
  <1> DEFINE s == <<x, l>>
  <1>1. s \in Seq(Steps) /\ Len(s) = 2 /\ s[1] = x /\ s[2] = l
    OBVIOUS
  <1> HIDE DEF s
  <1>2. l.op \notin Calls
    BY DEF FrontOps, Calls
  <1>3. \A i, j \in 1..Len(s) : i < j => i = 1 /\ j = 2
    BY <1>1
  <1>4. Script(s)
    BY <1>1, <1>2, <1>3 DEF Script
  <1>5. Front(s) = {x} /\ LastOf(s) = l
    BY <1>1 DEF Front, LastOf
  <1> QED  BY <1>4, <1>5 DEF s

LEMMA ThreeSteps ==
    ASSUME NEW x \in Steps, NEW y \in Steps, NEW l \in Steps,
           x.op \in FrontOps, y.op \in FrontOps, x # y, l.op \notin FrontOps,
           x.op \notin Calls, y.op \notin Calls
    PROVE  Script(<<x, y, l>>) /\ Front(<<x, y, l>>) = {x, y} /\ LastOf(<<x, y, l>>) = l
  <1> DEFINE s == <<x, y, l>>
  <1>1. s \in Seq(Steps) /\ Len(s) = 3 /\ s[1] = x /\ s[2] = y /\ s[3] = l
    OBVIOUS
  <1> HIDE DEF s
  <1>2. l.op \notin Calls
    BY DEF FrontOps, Calls
  <1>3. \A i, j \in 1..Len(s) : i < j => s[j].op \notin Calls
    BY <1>1, <1>2
  <1>4. s[1] # s[2] /\ s[1] # s[3] /\ s[2] # s[3]
    BY <1>1
  <1>5. \A i, j \in 1..Len(s) : s[i] = s[j] => i = j
    <2>1. \A i \in 1..Len(s) : i = 1 \/ i = 2 \/ i = 3
      BY <1>1
    <2> QED  BY <1>4, <2>1
  <1>6. \A i \in 1..Len(s) : s[i].op \notin FrontOps <=> i = Len(s)
    BY <1>1
  <1>7. Script(s)
    BY <1>1, <1>3, <1>5, <1>6 DEF Script
  <1>8. Front(s) = {x, y} /\ LastOf(s) = l
    BY <1>1 DEF Front, LastOf
  <1> QED  BY <1>7, <1>8 DEF s

-----------------------------------------------------------------------------
(* The scripts of the routes. *)

\* s is a script with these steps in front and this one at its end.
Reads(s, front, last) == Script(s) /\ Front(s) = front /\ LastOf(s) = last

LEMMA TransitionBefore ==
    ASSUME NEW b, NEW front, NEW last, Reads(b, front, last), NEW state \in States,
           Note(state) \notin front, Say(state) \notin front,
           \A x \in front : x.op \notin Calls
    PROVE  Reads(Transition(state) \o b, {Note(state), Say(state)} \cup front, last)
  <1>1. state \in Names
    BY DEF States, Names
  <1>2. /\ Note(state) \in Steps /\ Note(state).op \in FrontOps
        /\ Say(state) \in Steps /\ Say(state).op \in FrontOps
        /\ Note(state) # Say(state)
        /\ Note(state).op \notin Calls /\ Say(state).op \notin Calls
    BY <1>1, NoteSay
  <1>3. Script(b) /\ Front(b) = front /\ LastOf(b) = last
    BY DEF Reads
  <1> QED  BY <1>2, <1>3, TwoBefore DEF Reads, Transition

LEMMA BeginningReads ==
    ASSUME NEW op \in {"split", "tokenize", "model"}, NEW arg \in Names
    PROVE  Reads(Transition("PROCESSING") \o <<Step(op, arg)>>,
                 {Note("PROCESSING"), Say("PROCESSING")}, Step(op, arg))
  <1>1. Step(op, arg) \in Steps /\ Step(op, arg).op \notin FrontOps
    <2>1. op \in LastOps
      BY DEF LastOps
    <2> QED  BY <2>1, StepFacts, OpsSplit, OpsDisjoint, NamesAreArgs
  <1>2. Reads(<<Step(op, arg)>>, {}, Step(op, arg))
    BY <1>1, OneStep DEF Reads
  <1>3. "PROCESSING" \in States
    BY DEF States
  <1>4. Reads(Transition("PROCESSING") \o <<Step(op, arg)>>,
              {Note("PROCESSING"), Say("PROCESSING")} \cup {}, Step(op, arg))
    BY <1>2, <1>3, TransitionBefore
  <1> QED  BY <1>4

\* Transition, record, event and answer, as most failures end.
LEMMA FailureReads ==
    ASSUME NEW reason \in Names, reason # "COMPENSATED",
           NEW event \in Names, event # "COMPENSATED", NEW code \in Names
    PROVE  Reads(Transition("COMPENSATED") \o <<Note(reason), Say(event), Answer(code)>>,
                 {Note("COMPENSATED"), Say("COMPENSATED")}
                    \cup {Note(reason), Say(event)}, Answer(code))
  <1> DEFINE b == <<Note(reason), Say(event), Answer(code)>>
             front == {Note(reason), Say(event)}
  <1>1. Reads(b, front, Answer(code))
    BY NoteSay, ThreeSteps DEF Reads
  <1>2. /\ Note("COMPENSATED") \notin front /\ Say("COMPENSATED") \notin front
        /\ \A x \in front : x.op \notin Calls
    BY NoteSay
  <1>3. "COMPENSATED" \in States
    BY DEF States
  <1> HIDE DEF b, front
  <1>4. Reads(Transition("COMPENSATED") \o b,
              {Note("COMPENSATED"), Say("COMPENSATED")} \cup front, Answer(code))
    BY <1>1, <1>2, <1>3, TransitionBefore
  <1> QED  BY <1>4 DEF b, front

LEMMA CompensatedReads ==
    ASSUME NEW reason \in Names, reason # "COMPENSATED", NEW code \in Names
    PROVE  Reads(Compensated(reason, code),
                 {Note("COMPENSATED"), Say("COMPENSATED")}
                    \cup {Note(reason), Say("IngestionCompensated")}, Answer(code))
  <1>1. "IngestionCompensated" \in Names
    BY DEF Names
  <1> QED  BY <1>1, FailureReads DEF Compensated

LEMMA AskAuditFailedReads ==
    Reads(AskAuditFailed,
          {Note("COMPENSATED"), Say("COMPENSATED")}
             \cup {Note("AUDIT_WRITE_FAILED"), Say("TransactionCompensated")}, Answer("503"))
  <1>1. {"AUDIT_WRITE_FAILED", "TransactionCompensated", "503"} \subseteq Names
    BY DEF Names
  <1> QED  BY <1>1, FailureReads DEF AskAuditFailed

\* Transition, one event or record, answer.
LEMMA EndingReads ==
    ASSUME NEW state \in States, NEW x \in Steps, x.op \in FrontOps, x.op \notin Calls,
           x # Note(state), x # Say(state), NEW code \in Names
    PROVE  Reads(Transition(state) \o <<x, Answer(code)>>,
                 {Note(state), Say(state)} \cup {x}, Answer(code))
  <1>1. Reads(<<x, Answer(code)>>, {x}, Answer(code))
    BY NoteSay, TwoSteps DEF Reads
  <1>2. Note(state) \notin {x} /\ Say(state) \notin {x} /\ \A y \in {x} : y.op \notin Calls
    OBVIOUS
  <1> QED  BY <1>1, <1>2, TransitionBefore

LEMMA CompletedReads ==
    ASSUME NEW state \in {"COMPLETED", "COMPENSATED"}
    PROVE  Reads(Transition(state) \o <<Say("AuditRecordLogged"), Answer("200")>>,
                 {Note(state), Say(state)} \cup {Say("AuditRecordLogged")}, Answer("200"))
  <1>1. /\ {"AuditRecordLogged", "200"} \subseteq Names /\ state \in States
        /\ state # "AuditRecordLogged"
    BY DEF Names, States
  <1>2. /\ Say("AuditRecordLogged") \in Steps /\ Say("AuditRecordLogged").op \in FrontOps
        /\ Say("AuditRecordLogged") # Note(state) /\ Say("AuditRecordLogged") # Say(state)
        /\ Say("AuditRecordLogged").op \notin Calls
    BY <1>1, NoteSay
  <1> QED  BY <1>1, <1>2, EndingReads

LEMMA RollbackFailedReads ==
    Reads(RollbackFailed,
          {Note("ROLLBACK_FAILED")} \cup
             ({Note("COMPENSATED"), Say("COMPENSATED")}
                \cup {Note("AUDIT_WRITE_FAILED"), Say("IngestionCompensated")}), Answer("503"))
  <1> DEFINE front == {Note("COMPENSATED"), Say("COMPENSATED")}
                        \cup {Note("AUDIT_WRITE_FAILED"), Say("IngestionCompensated")}
  <1>1. {"ROLLBACK_FAILED", "AUDIT_WRITE_FAILED", "503"} \subseteq Names
    BY DEF Names
  <1>2. Reads(AuditWriteFailed, front, Answer("503"))
    BY <1>1, CompensatedReads DEF AuditWriteFailed
  <1>3. /\ Note("ROLLBACK_FAILED") \notin front
        /\ Note("ROLLBACK_FAILED").op \notin Calls /\ \A x \in front : x.op \notin Calls
        /\ Note("ROLLBACK_FAILED") \in Steps /\ Note("ROLLBACK_FAILED").op \in FrontOps
    BY <1>1, NoteSay
  <1> HIDE DEF front
  <1>4. Reads(<<Note("ROLLBACK_FAILED")>> \o AuditWriteFailed,
              {Note("ROLLBACK_FAILED")} \cup front, Answer("503"))
    BY <1>2, <1>3, OneBefore DEF Reads
  <1> QED  BY <1>4 DEF RollbackFailed, front

\* The calls on the search index, before what they lead to.
LEMMA EachChunkReads ==
    ASSUME NEW op \in {"index", "unindex"}, NEW b, NEW front, NEW last,
           Reads(b, front, last), \A i \in 1..Chunks : Step(op, i) \notin front
    PROVE  Reads(EachChunk(op) \o b, {Step(op, i) : i \in 1..Chunks} \cup front, last)
  <1> DEFINE a == EachChunk(op)
  <1>1. op \in FrontOps /\ op \in Ops /\ op \in Calls
    BY OpsSplit DEF FrontOps, Calls
  <1>2. \A i \in 1..Chunks : Step(op, i) \in Steps /\ Step(op, i).op = op /\ Step(op, i).arg = i
    BY <1>1, StepFacts, RoutesPartition DEF Args
  <1>3. /\ a \in Seq(Steps) /\ Len(a) = Chunks
        /\ \A i \in 1..Chunks : a[i] = Step(op, i)
    BY <1>2, RoutesPartition DEF EachChunk
  <1> HIDE DEF a
  <1>4. /\ \A i \in 1..Len(a) : a[i].op \in FrontOps /\ a[i] \notin Front(b)
        /\ \A i, j \in 1..Len(a) : a[i] = a[j] => i = j
        /\ \A i \in 1..Len(a) : a[i].op \in Calls
    BY <1>1, <1>2, <1>3 DEF Reads
  <1>5. {a[i] : i \in 1..Len(a)} = {Step(op, i) : i \in 1..Chunks}
    BY <1>3
  <1>6. /\ Script(a \o b) /\ LastOf(a \o b) = LastOf(b)
        /\ Front(a \o b) = {a[i] : i \in 1..Len(a)} \cup Front(b)
    BY <1>3, <1>4, Before DEF Reads
  <1> QED  BY <1>5, <1>6 DEF Reads, a

LEMMA IndexingReads ==
    Reads(EachChunk("index") \o <<Step("audit", "chunks")>>,
          {Step("index", i) : i \in 1..Chunks} \cup {}, Step("audit", "chunks"))
  <1>1. "audit" \in LastOps /\ "chunks" \in Names
    BY DEF LastOps, Names
  <1>2. Step("audit", "chunks") \in Steps /\ Step("audit", "chunks").op \notin FrontOps
    BY <1>1, StepFacts, NamesAreArgs, OpsSplit, OpsDisjoint
  <1>3. Reads(<<Step("audit", "chunks")>>, {}, Step("audit", "chunks"))
    BY <1>2, OneStep DEF Reads
  <1> QED  BY <1>3, EachChunkReads

LEMMA UnindexingReads ==
    Reads(EachChunk("unindex") \o AuditWriteFailed,
          {Step("unindex", i) : i \in 1..Chunks} \cup
             ({Note("COMPENSATED"), Say("COMPENSATED")}
                \cup {Note("AUDIT_WRITE_FAILED"), Say("IngestionCompensated")}), Answer("503"))
  <1> DEFINE front == {Note("COMPENSATED"), Say("COMPENSATED")}
                        \cup {Note("AUDIT_WRITE_FAILED"), Say("IngestionCompensated")}
  <1>1. {"AUDIT_WRITE_FAILED", "503"} \subseteq Names
    BY DEF Names
  <1>2. Reads(AuditWriteFailed, front, Answer("503"))
    BY <1>1, CompensatedReads DEF AuditWriteFailed
  <1>3. \A i \in 1..Chunks : Step("unindex", i) \notin front
    BY StepFacts, NoteSay
  <1> HIDE DEF front
  <1>4. Reads(EachChunk("unindex") \o AuditWriteFailed,
              {Step("unindex", i) : i \in 1..Chunks} \cup front, Answer("503"))
    BY <1>2, <1>3, EachChunkReads
  <1> QED  BY <1>4 DEF front

LEMMA PaymentFailedReads ==
    Reads(PaymentFailed,
          {Note("COMPENSATED"), Say("COMPENSATED")} \cup {Note("UNHANDLED_FAILURE")},
          Answer("502"))
  <1>1. {"UNHANDLED_FAILURE", "502"} \subseteq Names /\ "COMPENSATED" \in States
    BY DEF Names, States
  <1>2. /\ Note("UNHANDLED_FAILURE") \in Steps /\ Note("UNHANDLED_FAILURE").op \in FrontOps
        /\ Note("UNHANDLED_FAILURE") # Note("COMPENSATED")
        /\ Note("UNHANDLED_FAILURE") # Say("COMPENSATED")
        /\ Note("UNHANDLED_FAILURE").op \notin Calls
    BY <1>1, NoteSay
  <1> QED  BY <1>1, <1>2, EndingReads DEF PaymentFailed

LEMMA ScoredReads ==
    Reads(Scored,
          {Say("PaymentRiskScored")} \cup ({Note("COMPLETED"), Say("COMPLETED")} \cup {}),
          Answer("200"))
  <1> DEFINE x == Say("PaymentRiskScored")
             t == Transition("COMPLETED")
             b == <<Answer("200")>>
  <1>1. {"PaymentRiskScored", "200", "COMPLETED"} \subseteq Names /\ "COMPLETED" \in States
    BY DEF Names, States
  <1>2. Reads(b, {}, Answer("200")) /\ b \in Seq(Steps)
    BY <1>1, NoteSay, OneStep DEF Reads, Script
  <1>3. Reads(t \o b, {Note("COMPLETED"), Say("COMPLETED")} \cup {}, Answer("200"))
    BY <1>1, <1>2, TransitionBefore
  <1>4. /\ x \in Steps /\ x.op \in FrontOps
        /\ x \notin {Note("COMPLETED"), Say("COMPLETED")} \cup {}
        /\ x.op \notin Calls
        /\ \A y \in {Note("COMPLETED"), Say("COMPLETED")} \cup {} : y.op \notin Calls
    BY <1>1, NoteSay
  <1>5. <<x>> \in Seq(Steps) /\ t \in Seq(Steps)
    BY <1>1, <1>4, NoteSay DEF Transition
  <1> HIDE DEF x, t, b
  <1>6. (<<x>> \o t) \o b = <<x>> \o (t \o b)
    BY <1>2, <1>5, ConcatAssociative
  <1>7. Reads(<<x>> \o (t \o b), {x} \cup ({Note("COMPLETED"), Say("COMPLETED")} \cup {}),
              Answer("200"))
    BY <1>3, <1>4, OneBefore DEF Reads
  <1> QED  BY <1>6, <1>7 DEF Scored, x, t, b

LEMMA ReviewedClosedReads ==
    Reads(ReviewedClosed,
          {Say("PaymentCompensated"), Say("PaymentRiskScored")} \cup
             ({Note("COMPENSATED"), Say("COMPENSATED")}
                \cup {Note("DOWNSTREAM_TIMEOUT_FAIL_CLOSED")}),
          Answer("200"))
  <1> DEFINE x == Say("PaymentCompensated")
             y == Say("PaymentRiskScored")
             z == Note("DOWNSTREAM_TIMEOUT_FAIL_CLOSED")
             t == Transition("COMPENSATED")
             b == <<z, Answer("200")>>
             front == {Note("COMPENSATED"), Say("COMPENSATED")} \cup {z}
  <1>1. /\ {"PaymentCompensated", "PaymentRiskScored", "COMPENSATED", "200",
            "DOWNSTREAM_TIMEOUT_FAIL_CLOSED"} \subseteq Names
        /\ "COMPENSATED" \in States
    BY DEF Names, States
  <1>2. /\ x \in Steps /\ x.op \in FrontOps /\ y \in Steps /\ y.op \in FrontOps
        /\ x # y /\ x \notin front /\ y \notin front
        /\ z \in Steps /\ z.op \in FrontOps
        /\ z # Note("COMPENSATED") /\ z # Say("COMPENSATED")
        /\ x.op \notin Calls /\ y.op \notin Calls /\ z.op \notin Calls
        /\ \A w \in front : w.op \notin Calls
    BY <1>1, NoteSay
  <1>3. <<x, y>> \in Seq(Steps) /\ t \in Seq(Steps) /\ b \in Seq(Steps)
    BY <1>1, <1>2, NoteSay DEF Transition
  <1> HIDE DEF x, y, z
  <1>4. Reads(t \o b, front, Answer("200"))
    BY <1>1, <1>2, EndingReads
  <1> HIDE DEF t, b, front
  <1>5. (<<x, y>> \o t) \o b = <<x, y>> \o (t \o b)
    BY <1>3, ConcatAssociative
  <1>6. Reads(<<x, y>> \o (t \o b), {x, y} \cup front, Answer("200"))
    BY <1>2, <1>4, TwoBefore DEF Reads
  <1> QED  BY <1>5, <1>6 DEF ReviewedClosed, x, y, z, t, b, front

LEMMA OutcomeReads ==
    ASSUME NEW failure \in Failures
    PROVE  Reads(Outcome(failure),
                 {Say("TransactionProcessed")} \cup
                   (IF failure = "none" THEN {}
                    ELSE {Say("TransactionCompensated"),
                          Note("DOWNSTREAM_FAILURE_FAIL_SAFE")}),
                 Step("audit_ask", failure))
  <1> DEFINE x == Say("TransactionProcessed")
             y == Say("TransactionCompensated")
             z == Note("DOWNSTREAM_FAILURE_FAIL_SAFE")
             l == Step("audit_ask", failure)
             b == <<l>>
  <1>1. /\ {"TransactionProcessed", "TransactionCompensated",
            "DOWNSTREAM_FAILURE_FAIL_SAFE", failure} \subseteq Names
        /\ "audit_ask" \in LastOps
    BY DEF Names, Failures, LastOps
  <1>2. /\ x \in Steps /\ x.op \in FrontOps /\ y \in Steps /\ y.op \in FrontOps
        /\ z \in Steps /\ z.op \in FrontOps /\ x # y /\ x # z /\ y # z
        /\ x.op \notin Calls /\ y.op \notin Calls /\ z.op \notin Calls
    BY <1>1, NoteSay
  <1>3. l \in Steps /\ l.op \notin FrontOps
    BY <1>1, StepFacts, NamesAreArgs, OpsSplit, OpsDisjoint
  <1>4. Reads(b, {}, l) /\ b \in Seq(Steps)
    BY <1>3, OneStep DEF Reads, Script
  <1>5. <<x>> \in Seq(Steps) /\ <<y, z>> \in Seq(Steps)
    BY <1>2
  <1>6. CASE failure = "none"
    <2>1. Outcome(failure) = (<<x>> \o << >>) \o b
      BY <1>6 DEF Outcome
    <2> HIDE DEF x, y, z, l, b
    <2>2. <<x>> \o << >> = <<x>>
      BY <1>5, ConcatEmptySeq
    <2>3. Reads(<<x>> \o b, {x} \cup {}, l)
      BY <1>2, <1>4, OneBefore DEF Reads
    <2> QED  BY <2>1, <2>2, <2>3, <1>6 DEF x, l
  <1>7. CASE failure # "none"
    <2>1. Outcome(failure) = (<<x>> \o <<y, z>>) \o b
      BY <1>7 DEF Outcome
    <2> HIDE DEF x, y, z, l, b
    <2>2. (<<x>> \o <<y, z>>) \o b = <<x>> \o (<<y, z>> \o b)
      BY <1>4, <1>5, ConcatAssociative
    <2>3. Reads(<<y, z>> \o b, {y, z} \cup {}, l)
      BY <1>2, <1>4, TwoBefore DEF Reads
    <2>4. x \notin {y, z} \cup {} /\ \A w \in {y, z} \cup {} : w.op \notin Calls
      BY <1>2
    <2>5. Reads(<<x>> \o (<<y, z>> \o b), {x} \cup ({y, z} \cup {}), l)
      BY <2>3, <2>4, <1>2, OneBefore DEF Reads
    <2>6. {x} \cup ({y, z} \cup {}) = {x} \cup {y, z}
      OBVIOUS
    <2> QED  BY <2>1, <2>2, <2>5, <2>6, <1>7 DEF x, y, z, l
  <1> QED  BY <1>6, <1>7

-----------------------------------------------------------------------------
(* The inductive invariant, request by request. *)

\* The step a request's handler comes to next that decides anything, and its
\* answer once it has given it.
Phase(r) == IF todo[r] = << >> THEN Answer(reply[r]) ELSE LastOf(todo[r])

\* The step an entry of the log is of, whatever became of its record.
Tried(entry) == IF entry.op = "publish" THEN entry ELSE Note(entry.arg)

Done(r, x) == \E i \in 1..Len(log[r]) : Tried(log[r][i]) = x
Due(r, x) == Done(r, x) \/ x \in Front(todo[r])

Codes == {"200", "500", "502", "503"}

Types ==
    /\ up \in BOOLEAN
    /\ todo \in [Requests -> Seq(Steps)]
    /\ log \in [Requests -> Seq(Entries)]
    /\ stage \in [Requests -> States \cup {"INITIALIZED"}]
    /\ reply \in [Requests -> Replies]
    /\ audited \subseteq Requests /\ raised \subseteq Requests
    /\ vector \subseteq Ingests
    /\ search \in [Ingests -> SUBSET (1..Chunks)]

Base(r) ==
    /\ todo[r] = << >> \/ Script(todo[r])
    /\ todo[r] = << >> <=> reply[r] # "none"
    /\ Phase(r).op = "reply" => Phase(r).arg \in Codes

Untouched(r) == r \notin vector /\ search[r] = {}

\* What an ingest has done, by the step it comes to next.
IngestInv(r) ==
    /\ Phase(r) \in {Step("receive_ingest", "request"), Step("split", "document"),
                     Step("add", "chunks"), Step("audit", "chunks"), Step("delete", "chunks"),
                     Answer("200"), Answer("500"), Answer("502"), Answer("503")}
    /\ Phase(r).op \in {"receive_ingest", "split", "add"} \/ Phase(r) = Answer("500") =>
         Untouched(r)
    /\ Phase(r).op = "split" => Due(r, Say("PROCESSING"))
    /\ Phase(r).op = "add" =>
         Done(r, Say("PROCESSING")) /\ Due(r, Say("TelemetryIngested"))
    /\ (Phase(r).op \in {"audit", "delete"}
           \/ Phase(r) \in {Answer("200"), Answer("502"), Answer("503")}) =>
         Done(r, Say("PROCESSING")) /\ Done(r, Say("TelemetryIngested"))
    /\ Phase(r).op = "audit" =>
         /\ r \in vector
         /\ \A i \in 1..Chunks : i \in search[r] \/ Step("index", i) \in Front(todo[r])
    /\ Phase(r).op = "delete" => Complete(r)
    /\ Phase(r) = Answer("200") => Complete(r)
    /\ Phase(r) = Answer("502") => Due(r, Note("STORE_ADD_FAILED"))
    /\ Phase(r) = Answer("503") =>
         /\ Due(r, Note("AUDIT_WRITE_FAILED"))
         /\ \/ Due(r, Note("ROLLBACK_FAILED"))
            \/ /\ r \notin vector
               /\ \A i \in search[r] : Step("unindex", i) \in Front(todo[r])
    /\ Phase(r) \in {Answer("500"), Answer("502"), Answer("503")} =>
         Due(r, Say("IngestionCompensated"))
    /\ \A x \in Front(todo[r]) :
         /\ x.op = "index" => Phase(r) = Step("audit", "chunks")
         /\ x.op = "unindex" =>
              Phase(r) = Answer("503") /\ Say("COMPENSATED") \in Front(todo[r])
         /\ x.op \in {"index", "unindex"} => x.arg \in 1..Chunks

PaymentInv(r) ==
    /\ Phase(r) \in {Step("receive_payment", "request"), Step("tokenize", "payment"),
                     Step("score", "payment"), Answer("200"), Answer("502")}
    /\ Phase(r).op \in {"receive_payment", "tokenize"} \/ Phase(r) = Answer("502") =>
         ~ Due(r, Say("PaymentTransactionIngested"))

AskInv(r) ==
    /\ Phase(r) \in {Step("receive_ask", "request"), Step("model", "llm"),
                     Step("query", "store"), Step("infer", "llm"),
                     Answer("200"), Answer("500"), Answer("503")}
                    \cup {Step("audit_ask", f) : f \in Failures}
    /\ Phase(r).op = "audit_ask" /\ Phase(r).arg # "none" =>
         Due(r, Say("TransactionCompensated"))

\* The audit write of an ingest or a question: what is stored of it, what the
\* handler was told, and what the handler tells of it.
AuditInv(r) ==
    /\ r \in raised <=> Phase(r).op = "delete" \/ Phase(r) = Answer("503")
    /\ Phase(r) = Answer("200") => r \in audited
    /\ r \in audited =>
         \/ r \in raised \/ Phase(r) = Answer("200")
         \/ Phase(r).op \in AuditOps /\ Front(todo[r]) = {}
    /\ Due(r, Say("AuditRecordLogged")) <=> Phase(r) = Answer("200")

\* The transitions: at most one is in front of a handler's next decision.
Tells(r, from, to) ==
    /\ \A x \in States : Say(x) \in Front(todo[r]) => x = to
    /\ stage[r] = IF Say(to) \in Front(todo[r]) THEN from ELSE to

Silent(r, at) == stage[r] = at /\ \A x \in States : Say(x) \notin Front(todo[r])

Announced(r) ==
    (r \in Payments => Due(r, Say("PaymentTransactionIngested"))) =>
       \/ Due(r, Say("IngestionCompensated"))
       \/ Due(r, Say("TransactionCompensated"))
       \/ Due(r, Say("PaymentCompensated"))

StageInv(r) ==
    /\ Phase(r).op \in {"receive_ingest", "receive_payment", "receive_ask"} =>
         Silent(r, "INITIALIZED")
    /\ Phase(r).op \in {"split", "tokenize", "model"} => Tells(r, "INITIALIZED", "PROCESSING")
    /\ Phase(r).op \in {"add", "audit", "delete", "score", "query", "infer", "audit_ask"} =>
         Silent(r, "PROCESSING")
    /\ Phase(r).op = "reply" =>
         \/ Phase(r).arg = "200" /\ Tells(r, "PROCESSING", "COMPLETED")
         \/ Announced(r) /\ Tells(r, "PROCESSING", "COMPENSATED")
         \/ /\ r \in Asks /\ ~ ModelConfigured /\ Phase(r).arg = "500"
            /\ Silent(r, "PROCESSING")

Local(r) ==
    /\ Base(r)
    /\ r \in Ingests => IngestInv(r)
    /\ r \in Payments => PaymentInv(r)
    /\ r \in Asks => AskInv(r)
    /\ r \in Audits => AuditInv(r)
    /\ StageInv(r)

IInv == Types /\ \A r \in Requests : Local(r)

-----------------------------------------------------------------------------
(* What the kinds of steps do to a request. *)

LEMMA AtFacts ==
    ASSUME NEW r \in Requests, Types, Base(r), NEW op, At(r, op)
    PROVE  /\ up /\ todo[r] # << >> /\ Script(todo[r]) /\ reply[r] = "none"
           /\ Head(todo[r]).op = op /\ Head(todo[r]) \in Steps
           /\ Phase(r) = LastOf(todo[r]) /\ Phase(r) \in Steps
           /\ op \notin FrontOps => /\ Phase(r) = Head(todo[r]) /\ Phase(r).op = op
                                    /\ Front(todo[r]) = {}
                                    /\ \A x : Due(r, x) <=> Done(r, x)
           /\ op \in FrontOps => Head(todo[r]) \in Front(todo[r])
  <1>1. /\ up /\ todo[r] # << >> /\ Script(todo[r]) /\ reply[r] = "none"
        /\ Head(todo[r]).op = op
    BY DEF At, Base
  <1>2. Phase(r) = LastOf(todo[r])
    BY <1>1 DEF Phase
  <1> QED  BY <1>1, <1>2, HeadOfScript DEF Due

LEMMA SameLog ==
    ASSUME NEW r \in Requests, log'[r] = log[r], stage' = stage
    PROVE  /\ \A x : Done(r, x)' <=> Done(r, x)
           /\ stage'[r] = stage[r]
           /\ \A op, x : Logged(r, op, x)' <=> Logged(r, op, x)
  BY DEF Done, Logged

LEMMA ContinueFacts ==
    ASSUME NEW r \in Requests, Types, Base(r), NEW op, At(r, op),
           NEW new, NEW front, NEW last, Reads(new, front, last), Continue(r, new),
           log' = log, stage' = stage, reply' = reply, last.op = "reply" => last.arg \in Codes
    PROVE  /\ Base(r)' /\ Phase(r)' = last /\ Front(todo[r])' = front
           /\ \A x : Done(r, x)' <=> Done(r, x)
           /\ \A x : Due(r, x)' <=> Done(r, x) \/ x \in front
           /\ stage'[r] = stage[r]
           /\ todo' \in [Requests -> Seq(Steps)]
           /\ \A q \in Requests : q # r => todo'[q] = todo[q]
  <1>1. Script(new) /\ Front(new) = front /\ LastOf(new) = last
    BY DEF Reads
  <1>2. new \in Seq(Steps) /\ new # << >>
    BY <1>1, HeadOfScript DEF Script
  <1>3. /\ todo'[r] = new /\ todo' \in [Requests -> Seq(Steps)]
        /\ \A q \in Requests : q # r => todo'[q] = todo[q]
    BY <1>2 DEF Continue, Types
  <1>4. Phase(r)' = last /\ Front(todo[r])' = front
    BY <1>1, <1>2, <1>3 DEF Phase
  <1>5. reply'[r] = "none"
    BY AtFacts
  <1>6. Base(r)'
    BY <1>1, <1>2, <1>3, <1>4, <1>5 DEF Base
  <1>7. (\A x : Done(r, x)' <=> Done(r, x)) /\ stage'[r] = stage[r]
    BY SameLog
  <1>8. \A x : Due(r, x)' <=> Done(r, x) \/ x \in front
    BY <1>4, <1>7 DEF Due
  <1> QED  BY <1>3, <1>4, <1>6, <1>7, <1>8

\* A call on the search index that succeeds.
LEMMA CallFacts ==
    ASSUME NEW r \in Requests, Types, Base(r), NEW op \in FrontOps, At(r, op),
           Continue(r, Tail(todo[r])), log' = log, stage' = stage, reply' = reply,
           op \notin {"record", "publish"}
    PROVE  /\ Base(r)' /\ Phase(r)' = Phase(r)
           /\ Front(todo[r])' = Front(todo[r]) \ {Head(todo[r])}
           /\ \A x : Done(r, x)' <=> Done(r, x)
           /\ \A x : x # Head(todo[r]) => (Due(r, x)' <=> Due(r, x))
           /\ stage'[r] = stage[r]
           /\ todo' \in [Requests -> Seq(Steps)]
           /\ \A q \in Requests : q # r => todo'[q] = todo[q]
  <1>1. /\ Script(Tail(todo[r])) /\ LastOf(Tail(todo[r])) = LastOf(todo[r])
        /\ Front(Tail(todo[r])) = Front(todo[r]) \ {Head(todo[r])}
        /\ Phase(r) = LastOf(todo[r])
    BY AtFacts, HeadOfScript
  <1>2. Reads(Tail(todo[r]), Front(todo[r]) \ {Head(todo[r])}, Phase(r))
    BY <1>1 DEF Reads
  <1>3. Phase(r).op = "reply" => Phase(r).arg \in Codes
    BY DEF Base
  <1>4. /\ Base(r)' /\ Phase(r)' = Phase(r)
        /\ Front(todo[r])' = Front(todo[r]) \ {Head(todo[r])}
        /\ \A x : Done(r, x)' <=> Done(r, x)
        /\ \A x : Due(r, x)' <=> Done(r, x) \/ x \in Front(todo[r]) \ {Head(todo[r])}
        /\ stage'[r] = stage[r]
        /\ todo' \in [Requests -> Seq(Steps)]
        /\ \A q \in Requests : q # r => todo'[q] = todo[q]
    BY <1>2, <1>3, ContinueFacts
  <1> QED  BY <1>4 DEF Due

\* A record or an event: nothing falls due and nothing is forgotten.
LEMMA LogFacts ==
    ASSUME NEW r \in Requests, Types, Base(r), RecordEffect(r) \/ PublishEffect(r)
    PROVE  /\ Base(r)' /\ Phase(r)' = Phase(r)
           /\ Front(todo[r])' = Front(todo[r]) \ {Head(todo[r])}
           /\ Head(todo[r]) \in Front(todo[r]) /\ Head(todo[r]) \in Steps
           /\ Head(todo[r]).op \in {"record", "publish"}
           /\ \A x \in Front(todo[r]) : x.op \notin Calls
           /\ \A x : Done(r, x)' <=> Done(r, x) \/ x = Head(todo[r])
           /\ \A x : Due(r, x)' <=> Due(r, x)
           /\ todo' \in [Requests -> Seq(Steps)] /\ log' \in [Requests -> Seq(Entries)]
           /\ \A q \in Requests : q # r => todo'[q] = todo[q] /\ log'[q] = log[q]
           /\ UNCHANGED <<up, audited, raised, reply>>
           /\ stage'[r] = IF Head(todo[r]).op = "publish" /\ Head(todo[r]).arg \in States
                          THEN Head(todo[r]).arg ELSE stage[r]
           /\ stage' \in [Requests -> States \cup {"INITIALIZED"}]
           /\ \A q \in Requests : q # r => stage'[q] = stage[q]
  <1> DEFINE h == Head(todo[r])
             t == Tail(todo[r])
             l == log[r]
  <1> DEFINE Logs(op, e) ==
          /\ At(r, op) /\ Continue(r, t) /\ log' = [log EXCEPT ![r] = Append(l, e)]
          /\ UNCHANGED <<up, audited, raised, reply>>
          /\ op = "publish" => e = h
          /\ op = "record" => \E outcome \in Outcomes(h.arg) : e = Step(outcome, h.arg)
          /\ stage' = IF op = "publish" /\ h.arg \in States
                      THEN [stage EXCEPT ![r] = h.arg] ELSE stage
  <1>0. \E op \in {"record", "publish"} : \E e : Logs(op, e)
    <2>1. CASE RecordEffect(r)
      <3>1. PICK outcome \in Outcomes(h.arg) :
              log' = [log EXCEPT ![r] = Append(l, Step(outcome, h.arg))]
        BY <2>1 DEF RecordEffect
      <3>2. Logs("record", Step(outcome, h.arg))
        BY <2>1, <3>1 DEF RecordEffect, audit
      <3> QED  BY <3>2
    <2>2. CASE PublishEffect(r)
      <3>1. Logs("publish", h)
        BY <2>2 DEF PublishEffect, audit
      <3> QED  BY <3>1
    <2> QED  BY <2>1, <2>2
  <1>16. PICK op \in {"record", "publish"} : \E e : Logs(op, e)
    BY <1>0
  <1>1. PICK e :
          /\ At(r, op) /\ Continue(r, t) /\ log' = [log EXCEPT ![r] = Append(l, e)]
          /\ UNCHANGED <<up, audited, raised, reply>>
          /\ op = "publish" => e = h
          /\ op = "record" => \E outcome \in Outcomes(h.arg) : e = Step(outcome, h.arg)
          /\ stage' = IF op = "publish" /\ h.arg \in States
                      THEN [stage EXCEPT ![r] = h.arg] ELSE stage
    BY <1>16
  <1>2. op \in FrontOps
    BY DEF FrontOps
  <1>3. /\ h \in Front(todo[r]) /\ h \in Steps /\ h.op = op /\ Script(todo[r])
        /\ Phase(r) = LastOf(todo[r]) /\ todo[r] # << >> /\ reply[r] = "none"
        /\ \A x \in Front(todo[r]) : x.op \notin Calls
    <2>1. op \notin Calls
      BY DEF Calls
    <2> QED  BY <1>1, <1>2, <2>1, AtFacts, HeadOfScript
  <1>4. Script(t) /\ Front(t) = Front(todo[r]) \ {h} /\ LastOf(t) = LastOf(todo[r])
    BY <1>2, <1>3, HeadOfScript
  <1>5. t \in Seq(Steps) /\ t # << >>
    BY <1>4, HeadOfScript DEF Script
  <1>6. l \in Seq(Entries)
    BY DEF Types
  <1> HIDE DEF h, t, l
  <1>15. e \in Entries /\ Tried(e) = h
    <2>1. h.arg \in Args /\ Step(h.op, h.arg) = h /\ (h.op = "record" \/ h.op = "publish")
      BY <1>3, StepIsItsParts DEF Steps
    <2>2. CASE op = "publish"
      BY <1>1, <1>3, <2>1, <2>2 DEF Tried, Steps, Entries
    <2>3. CASE op = "record"
      <3>1. PICK outcome \in Outcomes(h.arg) : e = Step(outcome, h.arg)
        BY <1>1, <2>3
      <3>2. /\ outcome \in {"record", "lost", "tried"}
            /\ outcome = "tried" => h.arg \notin Owners
        BY DEF Outcomes
      <3>3. e.op = outcome /\ e.arg = h.arg
        BY <3>1, StepFacts
      <3>4. e \in Entries
        BY <2>1, <3>1, <3>2 DEF Step, Entries
      <3>5. Tried(e) = Note(h.arg) /\ Note(h.arg) = h
        BY <1>3, <2>1, <2>3, <3>2, <3>3 DEF Tried, Note
      <3> QED  BY <3>4, <3>5
    <2> QED  BY <1>1, <2>2, <2>3
  <1>7. /\ Append(l, e) \in Seq(Entries) /\ Len(Append(l, e)) = Len(l) + 1 /\ Len(l) \in Nat
        /\ Append(l, e)[Len(l) + 1] = e
        /\ \A i \in 1..Len(l) : Append(l, e)[i] = l[i]
    BY <1>6, <1>15, AppendProperties, LenProperties
  <1> DEFINE m == Append(l, e)
  <1>8. /\ m \in Seq(Entries) /\ Len(m) = Len(l) + 1 /\ Len(l) \in Nat
        /\ m[Len(l) + 1] = e /\ \A i \in 1..Len(l) : m[i] = l[i]
    BY <1>7
  <1> HIDE DEF m
  <1>9. /\ todo'[r] = t /\ todo' \in [Requests -> Seq(Steps)]
        /\ log'[r] = m /\ log' \in [Requests -> Seq(Entries)]
        /\ \A q \in Requests : q # r => todo'[q] = todo[q] /\ log'[q] = log[q]
    BY <1>1, <1>5, <1>8 DEF Continue, Types, m
  <1>10. Phase(r)' = Phase(r) /\ Front(todo[r])' = Front(todo[r]) \ {h}
    BY <1>3, <1>4, <1>5, <1>9 DEF Phase
  <1>11. \A x : Done(r, x)' <=> Done(r, x) \/ x = h
    <2> SUFFICES ASSUME NEW x
                 PROVE  (\E i \in 1..Len(m) : Tried(m[i]) = x)
                           <=> (\E i \in 1..Len(l) : Tried(l[i]) = x) \/ x = h
      BY <1>9 DEF Done, l
    <2>1. \A i \in 1..Len(m) : i \in 1..Len(l) \/ i = Len(l) + 1
      BY <1>8
    <2>2. Len(l) + 1 \in 1..Len(m) /\ 1..Len(l) \subseteq 1..Len(m)
      BY <1>8
    <2> QED  BY <2>1, <2>2, <1>8, <1>15
  <1>12. \A x : Due(r, x)' <=> Due(r, x)
    BY <1>3, <1>10, <1>11 DEF Due
  <1>13. Base(r)'
    <2>1. reply'[r] = "none"
      BY <1>1, <1>3
    <2> QED  BY <2>1, <1>4, <1>5, <1>9, <1>10 DEF Base
  <1>14. /\ stage' \in [Requests -> States \cup {"INITIALIZED"}]
         /\ stage'[r] = IF h.op = "publish" /\ h.arg \in States THEN h.arg ELSE stage[r]
         /\ \A q \in Requests : q # r => stage'[q] = stage[q]
    <2>1. stage' = IF h.op = "publish" /\ h.arg \in States
                   THEN [stage EXCEPT ![r] = h.arg] ELSE stage
      BY <1>1, <1>3 DEF h
    <2> QED  BY <2>1 DEF Types
  <1> QED  BY <1>1, <1>3, <1>9, <1>10, <1>11, <1>12, <1>13, <1>14 DEF h

LEMMA ReplyFacts ==
    ASSUME NEW r \in Requests, Types, Base(r), ReplyEffect(r)
    PROVE  /\ Base(r)' /\ Phase(r)' = Phase(r) /\ Phase(r).op = "reply"
           /\ Front(todo[r]) = {} /\ Front(todo[r])' = {}
           /\ reply[r] = "none" /\ reply'[r] = Phase(r).arg /\ up
           /\ \A x : Done(r, x)' <=> Done(r, x)
           /\ \A x : Due(r, x)' <=> Due(r, x)
           /\ stage'[r] = stage[r]
           /\ todo' \in [Requests -> Seq(Steps)] /\ reply' \in [Requests -> Replies]
           /\ \A q \in Requests : q # r => todo'[q] = todo[q] /\ reply'[q] = reply[q]
           /\ UNCHANGED <<up, log, stage, audited, raised>>
  <1>1. "reply" \notin FrontOps
    BY DEF FrontOps
  <1>2. /\ At(r, "reply") /\ Continue(r, << >>)
        /\ reply' = [reply EXCEPT ![r] = Head(todo[r]).arg]
        /\ UNCHANGED <<up, log, stage, audited, raised>>
    BY DEF ReplyEffect, told, audit
  <1>3. /\ Phase(r) = Head(todo[r]) /\ Phase(r) \in Steps /\ Phase(r).op = "reply"
        /\ Front(todo[r]) = {} /\ reply[r] = "none" /\ up
        /\ \A x : Due(r, x) <=> Done(r, x)
    BY <1>1, <1>2, AtFacts
  <1>4. Phase(r).arg \in Codes
    BY <1>3 DEF Base
  <1>5. Phase(r).arg \in Replies /\ Phase(r).arg # "none"
    BY <1>4 DEF Codes, Replies
  <1>6. << >> \in Seq(Steps)
    OBVIOUS
  <1>7. /\ todo'[r] = << >> /\ todo' \in [Requests -> Seq(Steps)]
        /\ reply'[r] = Phase(r).arg /\ reply' \in [Requests -> Replies]
        /\ \A q \in Requests : q # r => todo'[q] = todo[q] /\ reply'[q] = reply[q]
    BY <1>2, <1>3, <1>5, <1>6 DEF Continue, Types
  <1>8. Phase(r)' = Answer(Phase(r).arg)
    BY <1>7 DEF Phase
  <1>9. Answer(Phase(r).arg) = Phase(r)
    BY <1>3, StepIsItsParts DEF Answer
  <1>10. Front(todo[r])' = {}
    BY <1>7, FrontOfEmpty
  <1>11. Base(r)'
    BY <1>2, <1>4, <1>5, <1>7, <1>8, <1>9 DEF Base
  <1>12. (\A x : Done(r, x)' <=> Done(r, x)) /\ stage'[r] = stage[r]
    BY <1>2, SameLog
  <1>13. \A x : Due(r, x)' <=> Due(r, x)
    BY <1>3, <1>10, <1>12 DEF Due
  <1> QED  BY <1>2, <1>3, <1>7, <1>8, <1>9, <1>10, <1>11, <1>12, <1>13

\* Nothing happens to request q.
Same(q) ==
    /\ todo'[q] = todo[q] /\ log'[q] = log[q] /\ stage'[q] = stage[q] /\ reply'[q] = reply[q]
    /\ (q \in audited)' <=> q \in audited
    /\ (q \in raised)' <=> q \in raised
    /\ (q \in vector)' <=> q \in vector
    /\ q \in Ingests => search'[q] = search[q]

Others(r) == \A q \in Requests \ {r} : Same(q)

LEMMA SameKeeps ==
    ASSUME NEW q \in Requests, Local(q), Same(q)
    PROVE  Local(q)'
  <1>1. /\ todo'[q] = todo[q] /\ log'[q] = log[q] /\ stage'[q] = stage[q]
        /\ reply'[q] = reply[q]
        /\ (q \in audited)' <=> q \in audited
        /\ (q \in raised)' <=> q \in raised
        /\ (q \in vector)' <=> q \in vector
        /\ q \in Ingests => search'[q] = search[q]
    BY DEF Same
  <1>2. Phase(q)' = Phase(q) /\ Front(todo[q])' = Front(todo[q])
    BY <1>1 DEF Phase
  <1>3. \A x : (Done(q, x)' <=> Done(q, x)) /\ (Due(q, x)' <=> Due(q, x))
    BY <1>1, <1>2 DEF Done, Due
  <1>4. Base(q)'
    BY <1>1, <1>2 DEF Local, Base
  <1>5. q \in Ingests => IngestInv(q)'
    BY <1>1, <1>2, <1>3 DEF Local, IngestInv, Untouched, Complete
  <1>6. q \in Payments => PaymentInv(q)'
    BY <1>2, <1>3 DEF Local, PaymentInv
  <1>7. q \in Asks => AskInv(q)'
    BY <1>2, <1>3 DEF Local, AskInv
  <1>8. q \in Audits => AuditInv(q)'
    BY <1>1, <1>2, <1>3 DEF Local, AuditInv
  <1>9. StageInv(q)'
    BY <1>1, <1>2, <1>3 DEF Local, StageInv, Silent, Tells, Announced
  <1> QED  BY <1>4, <1>5, <1>6, <1>7, <1>8, <1>9 DEF Local

\* A step on the way to the audit write, or one that fails before it.
LEMMA BeforeAudit ==
    ASSUME NEW r \in Requests, AuditInv(r), Phase(r).op \notin {"delete", "reply"},
           Phase(r).op \notin AuditOps \/ Front(todo[r]) # {},
           audited' = audited, raised' = raised,
           \/ Phase(r)'.op \notin {"delete", "reply"}
           \/ Phase(r)' \in {Answer("500"), Answer("502")},
           Due(r, Say("AuditRecordLogged"))' => Due(r, Say("AuditRecordLogged"))
    PROVE  AuditInv(r)'
  <1>1. \A x : Answer(x).op = "reply" /\ Answer(x).arg = x
    BY NoteSay
  <1>2. Phase(r)' \notin {Answer("200"), Answer("503")} /\ Phase(r)'.op # "delete"
    BY <1>1
  <1> QED  BY <1>1, <1>2 DEF AuditInv

\* The routes have no request in common.
LEMMA OneRoute ==
    /\ \A r \in Ingests : r \in Requests /\ r \notin Payments /\ r \notin Asks
    /\ \A r \in Payments : r \in Requests /\ r \notin Ingests /\ r \notin Asks
    /\ \A r \in Asks : r \in Requests /\ r \notin Ingests /\ r \notin Payments
    /\ \A r : r \in Audits <=> r \in Ingests \/ r \in Asks
  BY RoutesPartition DEF Audits

\* An event that announces a transition is the only step that moves a stage.
LEMMA SayIs ==
    /\ \A x, y : Say(x) = Say(y) => x = y
    /\ \A x \in Steps : \A s : x.op = "publish" /\ x.arg = s => x = Say(s)
    /\ \A x, s : x = Say(s) => x.op = "publish" /\ x.arg = s
  BY StepIsItsParts, NoteSay DEF Say

LEMMA LogKeeps ==
    ASSUME NEW r \in Requests, Types, Local(r), RecordEffect(r) \/ PublishEffect(r),
           UNCHANGED storeVars
    PROVE  Types' /\ Local(r)' /\ Others(r)
  <1> DEFINE h == Head(todo[r])
  <1>1. Base(r)
    BY DEF Local
  <1>2. /\ Base(r)' /\ Phase(r)' = Phase(r)
        /\ Front(todo[r])' = Front(todo[r]) \ {h}
        /\ h \in Front(todo[r]) /\ h \in Steps
        /\ h.op \in {"record", "publish"}
        /\ \A x \in Front(todo[r]) : x.op \notin Calls
        /\ \A x : Done(r, x)' <=> Done(r, x) \/ x = h
        /\ \A x : Due(r, x)' <=> Due(r, x)
        /\ todo' \in [Requests -> Seq(Steps)] /\ log' \in [Requests -> Seq(Entries)]
        /\ \A q \in Requests : q # r => todo'[q] = todo[q] /\ log'[q] = log[q]
        /\ up' = up /\ audited' = audited /\ raised' = raised /\ reply' = reply
        /\ stage'[r] = IF h.op = "publish" /\ h.arg \in States THEN h.arg ELSE stage[r]
        /\ stage' \in [Requests -> States \cup {"INITIALIZED"}]
        /\ \A q \in Requests : q # r => stage'[q] = stage[q]
    BY <1>1, LogFacts
  <1>3. vector' = vector /\ search' = search
    BY DEF storeVars
  <1> HIDE DEF h
  <1>4. Types'
    BY <1>2, <1>3 DEF Types
  <1>5. Others(r)
    BY <1>2, <1>3 DEF Others, Same
  <1>6. r \in Ingests => IngestInv(r)'
    <2> SUFFICES ASSUME r \in Ingests PROVE IngestInv(r)'
      OBVIOUS
    <2>1. \A i : Step("index", i) # h /\ Step("unindex", i) # h
      BY <1>2, StepFacts
    <2>2. IngestInv(r)
      BY DEF Local
    <2> QED  BY <1>2, <1>3, <2>1, <2>2 DEF IngestInv, Untouched, Complete, Calls
  <1>7. r \in Payments => PaymentInv(r)'
    BY <1>2 DEF Local, PaymentInv
  <1>8. r \in Asks => AskInv(r)'
    BY <1>2 DEF Local, AskInv
  <1>9. Announced(r)' <=> Announced(r)
    BY <1>2 DEF Announced
  <1>10. ASSUME NEW at, Silent(r, at) PROVE Silent(r, at)'
    <2>1. \A x \in States : h # Say(x)
      BY <1>10, <1>2 DEF Silent
    <2>2. stage'[r] = stage[r]
      BY <1>2, <2>1, SayIs
    <2> QED  BY <1>2, <1>10, <2>2 DEF Silent
  <1>11. ASSUME NEW from, NEW to \in States, Tells(r, from, to) PROVE Tells(r, from, to)'
    <2>1. CASE h = Say(to)
      <3>1. stage'[r] = to
        BY <1>2, <2>1, SayIs
      <3> QED  BY <1>2, <1>11, <2>1, <3>1 DEF Tells
    <2>2. CASE h # Say(to)
      <3>1. \A x \in States : h # Say(x)
        BY <1>2, <1>11, <2>2 DEF Tells
      <3>2. stage'[r] = stage[r]
        BY <1>2, <3>1, SayIs
      <3> QED  BY <1>2, <1>11, <2>2, <3>2 DEF Tells
    <2> QED  BY <2>1, <2>2
  <1>12. StageInv(r)'
    <2>1. {"PROCESSING", "COMPLETED", "COMPENSATED"} = States
      BY DEF States
    <2> QED  BY <1>2, <1>9, <1>10, <1>11, <2>1 DEF Local, StageInv
  <1>13. r \in Audits => AuditInv(r)'
    <2>1. Phase(r).op \in AuditOps /\ Front(todo[r]) = {} => Front(todo[r])' = {}
      BY <1>2
    <2> QED  BY <1>2, <2>1 DEF Local, AuditInv
  <1> QED  BY <1>2, <1>4, <1>5, <1>6, <1>7, <1>8, <1>12, <1>13 DEF Local

LEMMA ReplyKeeps ==
    ASSUME NEW r \in Requests, Types, Local(r), ReplyEffect(r), UNCHANGED storeVars
    PROVE  Types' /\ Local(r)' /\ Others(r)
  <1>1. Base(r)
    BY DEF Local
  <1>2. /\ Base(r)' /\ Phase(r)' = Phase(r)
        /\ Front(todo[r]) = {} /\ Front(todo[r])' = {}
        /\ \A x : Done(r, x)' <=> Done(r, x)
        /\ \A x : Due(r, x)' <=> Due(r, x)
        /\ todo' \in [Requests -> Seq(Steps)] /\ reply' \in [Requests -> Replies]
        /\ \A q \in Requests : q # r => todo'[q] = todo[q] /\ reply'[q] = reply[q]
        /\ up' = up /\ log' = log /\ stage' = stage
        /\ audited' = audited /\ raised' = raised
    BY <1>1, ReplyFacts
  <1>3. vector' = vector /\ search' = search
    BY DEF storeVars
  <1>4. Types'
    BY <1>2, <1>3 DEF Types
  <1>5. Others(r)
    BY <1>2, <1>3 DEF Others, Same
  <1>6. r \in Ingests => IngestInv(r)'
    BY <1>2, <1>3 DEF Local, IngestInv, Untouched, Complete
  <1>7. r \in Payments => PaymentInv(r)'
    BY <1>2 DEF Local, PaymentInv
  <1>8. r \in Asks => AskInv(r)'
    BY <1>2 DEF Local, AskInv
  <1>9. StageInv(r)'
    BY <1>2 DEF Local, StageInv, Silent, Tells, Announced
  <1>10. r \in Audits => AuditInv(r)'
    BY <1>2 DEF Local, AuditInv
  <1> QED  BY <1>2, <1>4, <1>5, <1>6, <1>7, <1>8, <1>9, <1>10 DEF Local


-----------------------------------------------------------------------------
(* The ingest route. *)

\* The two events of a step in front are told apart by what they say.
LEMMA Different ==
    /\ \A x, y : Note(x) # Say(y) /\ Note(x) # Step("index", y) /\ Note(x) # Step("unindex", y)
    /\ \A x, y : Say(x) # Step("index", y) /\ Say(x) # Step("unindex", y)
    /\ \A x, y : (Note(x) = Note(y) => x = y) /\ (Say(x) = Say(y) => x = y)
    /\ \A x, y : Answer(x) = Answer(y) => x = y
    /\ \A o, p, x, y : Step(o, x) = Step(p, y) => o = p /\ x = y
    /\ \A o, x, y : Step(o, x) = Answer(y) => o = "reply"
  BY StepFacts, NoteSay

\* What a handler's step leaves as it is: the history and the answers.
Quiet == UNCHANGED <<up, log, stage, reply>>

LEMMA QuietStep ==
    ASSUME NEW r \in Requests, Types, Quiet, todo' \in [Requests -> Seq(Steps)],
           \A q \in Requests : q # r => todo'[q] = todo[q],
           audited' \subseteq Requests, raised' \subseteq Requests, vector' \subseteq Ingests,
           search' \in [Ingests -> SUBSET (1..Chunks)],
           audited' = audited \/ audited' = audited \cup {r},
           raised' = raised \/ raised' = raised \cup {r},
           \/ vector' = vector \/ vector' = vector \cup {r} \/ vector' = vector \ {r},
           \A q \in Ingests : q # r => search'[q] = search[q]
    PROVE  Types' /\ Others(r)
  <1>1. up' = up /\ log' = log /\ stage' = stage /\ reply' = reply
    BY DEF Quiet
  <1>2. Types'
    BY <1>1 DEF Types
  <1>3. ASSUME NEW q \in Requests \ {r} PROVE Same(q)
    <2>1. (q \in audited)' <=> q \in audited
      OBVIOUS
    <2>2. (q \in vector)' <=> q \in vector
      OBVIOUS
    <2>3. (q \in raised)' <=> q \in raised
      OBVIOUS
    <2> QED  BY <1>1, <2>1, <2>2, <2>3 DEF Same
  <1> QED  BY <1>2, <1>3 DEF Others

LEMMA ReceiveIngestKeeps ==
    ASSUME NEW r \in Ingests, Types, Local(r), ReceiveIngest(r)
    PROVE  Types' /\ Local(r)' /\ Others(r)
  <1> DEFINE new == Transition("PROCESSING") \o <<Step("split", "document")>>
             front == {Note("PROCESSING"), Say("PROCESSING")}
             last == Step("split", "document")
  <1>1. r \in Requests /\ r \notin Payments /\ r \notin Asks /\ Base(r)
    BY OneRoute DEF Local
  <1>2. /\ At(r, "receive_ingest") /\ Continue(r, new)
        /\ up' = up /\ log' = log /\ stage' = stage /\ reply' = reply
        /\ audited' = audited /\ raised' = raised /\ vector' = vector /\ search' = search
    BY DEF ReceiveIngest, told, audit, storeVars
  <1>3. Reads(new, front, last)
    <2>1. "document" \in Names
      BY DEF Names
    <2> QED  BY <2>1, BeginningReads
  <1>4. last.op = "split" /\ last.op # "reply"
    BY StepFacts
  <1> HIDE DEF new, front
  <1>5. /\ Base(r)' /\ Phase(r)' = last /\ Front(todo[r])' = front
        /\ \A x : Due(r, x)' <=> Done(r, x) \/ x \in front
        /\ stage'[r] = stage[r]
        /\ todo' \in [Requests -> Seq(Steps)]
        /\ \A q \in Requests : q # r => todo'[q] = todo[q]
    BY <1>1, <1>2, <1>3, <1>4, ContinueFacts
  <1>6. Types' /\ Others(r)
    BY <1>1, <1>2, <1>5, QuietStep DEF Quiet, Types
  <1>7. Phase(r).op = "receive_ingest"
    <2>1. "receive_ingest" \notin FrontOps
      BY DEF FrontOps
    <2> QED  BY <1>1, <1>2, <2>1, AtFacts
  <1>8. Untouched(r) /\ stage[r] = "INITIALIZED"
    BY <1>7 DEF Local, IngestInv, StageInv, Silent
  <1>9. IngestInv(r)'
    BY <1>2, <1>4, <1>5, <1>8, Different, NoteSay, StepFacts DEF IngestInv, Untouched, front
  <1>10. StageInv(r)'
    BY <1>4, <1>5, <1>8, Different DEF StageInv, Tells, front, States
  <1>11. AuditInv(r)'
    <2>1. Say("AuditRecordLogged") \notin front
      BY Different DEF front
    <2>2. Due(r, Say("AuditRecordLogged"))' => Due(r, Say("AuditRecordLogged"))
      BY <1>5, <2>1 DEF Due
    <2>3. AuditInv(r)
      BY OneRoute DEF Local
    <2> QED  BY <1>1, <1>2, <1>4, <1>5, <1>7, <2>2, <2>3, BeforeAudit DEF AuditOps
  <1> QED  BY <1>1, <1>5, <1>6, <1>9, <1>10, <1>11, OneRoute DEF Local

\* A step at the end of a script, which puts another script in its place.
LEMMA Decides ==
    ASSUME NEW r \in Requests, Types, Local(r), NEW op \in LastOps, At(r, op), Quiet,
           NEW new, NEW front, NEW last, Reads(new, front, last), Continue(r, new),
           last.op = "reply" => last.arg \in Codes
    PROVE  /\ Phase(r) = Head(todo[r]) /\ Phase(r).op = op /\ Phase(r) \in Steps
           /\ Front(todo[r]) = {} /\ \A x : Due(r, x) <=> Done(r, x)
           /\ Base(r)' /\ Phase(r)' = last /\ Front(todo[r])' = front
           /\ \A x : Done(r, x)' <=> Done(r, x)
           /\ \A x : Due(r, x)' <=> Done(r, x) \/ x \in front
           /\ stage'[r] = stage[r]
           /\ todo' \in [Requests -> Seq(Steps)]
           /\ \A q \in Requests : q # r => todo'[q] = todo[q]
  <1>1. op \notin FrontOps
    BY OpsDisjoint
  <1>2. Base(r)
    BY DEF Local
  <1>3. log' = log /\ stage' = stage /\ reply' = reply
    BY DEF Quiet
  <1>4. /\ Phase(r) = Head(todo[r]) /\ Phase(r).op = op /\ Phase(r) \in Steps
        /\ Front(todo[r]) = {} /\ \A x : Due(r, x) <=> Done(r, x)
    BY <1>1, <1>2, AtFacts
  <1>5. /\ Base(r)' /\ Phase(r)' = last /\ Front(todo[r])' = front
        /\ \A x : Done(r, x)' <=> Done(r, x)
        /\ \A x : Due(r, x)' <=> Done(r, x) \/ x \in front
        /\ stage'[r] = stage[r]
        /\ todo' \in [Requests -> Seq(Steps)]
        /\ \A q \in Requests : q # r => todo'[q] = todo[q]
    BY <1>2, <1>3, ContinueFacts
  <1> QED  BY <1>4, <1>5

\* The end of every ingest that fails.
Failing(reason) ==
    {Note("COMPENSATED"), Say("COMPENSATED")} \cup {Note(reason), Say("IngestionCompensated")}

LEMMA FailingSays ==
    ASSUME NEW reason
    PROVE  /\ Say("COMPENSATED") \in Failing(reason)
           /\ Say("IngestionCompensated") \in Failing(reason)
           /\ Say("AuditRecordLogged") \notin Failing(reason)
           /\ Note(reason) \in Failing(reason)
           /\ \A x \in States : Say(x) \in Failing(reason) => x = "COMPENSATED"
           /\ \A x \in Failing(reason) : x.op \in {"record", "publish"}
  <1>1. "IngestionCompensated" \notin States
    BY DEF States
  <1> QED  BY <1>1, Different, NoteSay DEF Failing

LEMMA FailingStage ==
    ASSUME NEW r \in Ingests, NEW code, Phase(r)' = Answer(code),
           (Say("COMPENSATED") \in Front(todo[r]))',
           (Say("IngestionCompensated") \in Front(todo[r]))',
           \A x \in States : Say(x) \in Front(todo[r])' => x = "COMPENSATED",
           stage'[r] = "PROCESSING"
    PROVE  StageInv(r)' /\ Due(r, Say("IngestionCompensated"))'
  <1>1. Tells(r, "PROCESSING", "COMPENSATED")'
    BY DEF Tells
  <1>2. Due(r, Say("IngestionCompensated"))'
    BY DEF Due
  <1>3. Announced(r)'
    BY <1>2 DEF Announced
  <1>4. Phase(r)'.op = "reply"
    BY NoteSay
  <1>5. StageInv(r)'
    BY <1>1, <1>3, <1>4 DEF StageInv
  <1> QED  BY <1>2, <1>5

LEMMA SplitKeeps ==
    ASSUME NEW r \in Ingests, Types, Local(r), Split(r)
    PROVE  Types' /\ Local(r)' /\ Others(r)
  <1>1. r \in Requests /\ r \notin Payments /\ r \notin Asks
    BY OneRoute
  <1>2. /\ At(r, "split") /\ "split" \in LastOps /\ Quiet
        /\ audited' = audited /\ raised' = raised /\ vector' = vector /\ search' = search
    BY DEF Split, LastOps, Quiet, told, audit, storeVars
  <1>3. ASSUME NEW new, NEW front, NEW last, Reads(new, front, last), Continue(r, new),
               last.op = "reply" => last.arg \in Codes
        PROVE  /\ Types' /\ Others(r)
               /\ last.op \notin {"delete", "reply"} \/ last = Answer("500") =>
                    (Say("AuditRecordLogged") \notin front => AuditInv(r)')
               /\ Base(r)' /\ Phase(r)' = last /\ Front(todo[r])' = front
               /\ \A x : Done(r, x)' <=> Done(r, x)
               /\ \A x : Due(r, x)' <=> Done(r, x) \/ x \in front
               /\ Untouched(r) /\ Done(r, Say("PROCESSING")) /\ stage[r] = "PROCESSING"
               /\ stage'[r] = stage[r]
    <2>1. /\ Phase(r).op = "split"
          /\ Front(todo[r]) = {} /\ \A x : Due(r, x) <=> Done(r, x)
          /\ Base(r)' /\ Phase(r)' = last /\ Front(todo[r])' = front
          /\ \A x : Done(r, x)' <=> Done(r, x)
          /\ \A x : Due(r, x)' <=> Done(r, x) \/ x \in front
          /\ stage'[r] = stage[r]
          /\ todo' \in [Requests -> Seq(Steps)]
          /\ \A q \in Requests : q # r => todo'[q] = todo[q]
      BY <1>1, <1>2, <1>3, Decides
    <2>2. Types' /\ Others(r)
      BY <1>1, <1>2, <2>1, QuietStep DEF Types
    <2>3. Untouched(r) /\ Done(r, Say("PROCESSING")) /\ stage[r] = "PROCESSING"
      BY <2>1 DEF Local, IngestInv, StageInv, Tells
    <2>4. ASSUME last.op \notin {"delete", "reply"} \/ last = Answer("500"),
                 Say("AuditRecordLogged") \notin front
          PROVE  AuditInv(r)'
      <3>1. AuditInv(r)
        BY OneRoute DEF Local
      <3> QED  BY <1>1, <1>2, <2>1, <2>4, <3>1, BeforeAudit DEF AuditOps
    <2> QED  BY <2>1, <2>2, <2>3, <2>4
  <1>4. CASE Continue(r, <<Say("TelemetryIngested"), Step("add", "chunks")>>)
    <2> DEFINE new == <<Say("TelemetryIngested"), Step("add", "chunks")>>
               front == {Say("TelemetryIngested")}
               last == Step("add", "chunks")
    <2>1. /\ {"TelemetryIngested", "chunks"} \subseteq Names /\ "add" \in LastOps
          /\ "TelemetryIngested" \notin States
      BY DEF Names, LastOps, States
    <2>2. Reads(new, front, last)
      <3>1. last \in Steps /\ last.op \notin FrontOps
        BY <2>1, StepFacts, OpsSplit, OpsDisjoint, NamesAreArgs
      <3> QED  BY <2>1, <3>1, NoteSay, TwoSteps DEF Reads
    <2>3. last.op = "add" /\ Say("AuditRecordLogged") \notin front
      BY StepFacts, Different
    <2> HIDE DEF new, front
    <2>4. /\ Types' /\ Others(r)
          /\ Base(r)' /\ Phase(r)' = last /\ Front(todo[r])' = front
          /\ \A x : Done(r, x)' <=> Done(r, x)
          /\ \A x : Due(r, x)' <=> Done(r, x) \/ x \in front
          /\ Untouched(r) /\ Done(r, Say("PROCESSING")) /\ stage[r] = "PROCESSING"
          /\ stage'[r] = stage[r] /\ AuditInv(r)'
      BY <1>3, <1>4, <2>2, <2>3 DEF new
    <2>5. IngestInv(r)'
      BY <1>2, <2>3, <2>4, Different, NoteSay, StepFacts DEF IngestInv, Untouched, front
    <2>6. \A x \in States : Say(x) \notin front
      BY <2>1, Different DEF front
    <2>7. StageInv(r)'
      BY <2>3, <2>4, <2>6 DEF StageInv, Silent
    <2> QED  BY <1>1, <2>4, <2>5, <2>7 DEF Local
  <1>5. CASE Continue(r, Compensated("UNHANDLED_FAILURE", "500"))
    <2> DEFINE front == Failing("UNHANDLED_FAILURE")
    <2>1. {"UNHANDLED_FAILURE", "500"} \subseteq Names /\ "500" \in Codes
      BY DEF Names, Codes
    <2>2. Reads(Compensated("UNHANDLED_FAILURE", "500"), front, Answer("500"))
      BY <2>1, CompensatedReads DEF Failing
    <2>3. Answer("500").op = "reply" /\ Answer("500").arg = "500"
      BY NoteSay
    <2>4. /\ Types' /\ Others(r)
          /\ Base(r)' /\ Phase(r)' = Answer("500") /\ Front(todo[r])' = front
          /\ \A x : Done(r, x)' <=> Done(r, x)
          /\ \A x : Due(r, x)' <=> Done(r, x) \/ x \in front
          /\ Untouched(r) /\ Done(r, Say("PROCESSING")) /\ stage[r] = "PROCESSING"
          /\ stage'[r] = stage[r] /\ AuditInv(r)'
      BY <1>3, <1>5, <2>1, <2>2, <2>3, FailingSays
    <2>5. StageInv(r)' /\ Due(r, Say("IngestionCompensated"))'
      <3> HIDE DEF front
      <3>1. front = Failing("UNHANDLED_FAILURE")
        BY DEF front
      <3> QED  BY <2>4, <3>1, FailingSays, FailingStage
    <2>6. \A x \in front : x.op \notin {"index", "unindex"}
      BY FailingSays
    <2>7. IngestInv(r)'
      BY <1>2, <2>3, <2>4, <2>5, <2>6, Different DEF IngestInv, Untouched
    <2> QED  BY <1>1, <2>4, <2>5, <2>7 DEF Local
  <1> QED  BY <1>4, <1>5 DEF Split

\* A failure of the store, in the call on the collection or in one on the index.
LEMMA StoreAddFails ==
    ASSUME NEW r \in Ingests, Types, Local(r), NEW op, At(r, op), Quiet,
           Continue(r, StoreAddFailed), Done(r, Say("PROCESSING")),
           Done(r, Say("TelemetryIngested")), stage[r] = "PROCESSING",
           Phase(r).op \in {"add", "audit"}, Phase(r).op = "add" \/ Front(todo[r]) # {},
           audited' = audited, raised' = raised
    PROVE  /\ Local(r)' /\ todo' \in [Requests -> Seq(Steps)]
           /\ \A q \in Requests : q # r => todo'[q] = todo[q]
  <1> DEFINE front == Failing("STORE_ADD_FAILED")
  <1>1. r \in Requests /\ r \notin Payments /\ r \notin Asks /\ Base(r)
    BY OneRoute DEF Local
  <1>2. {"STORE_ADD_FAILED", "502"} \subseteq Names /\ "502" \in Codes
    BY DEF Names, Codes
  <1>3. Reads(StoreAddFailed, front, Answer("502"))
    BY <1>2, CompensatedReads DEF Failing, StoreAddFailed
  <1>4. Answer("502").op = "reply" /\ Answer("502").arg = "502"
    BY NoteSay
  <1> HIDE DEF front
  <1>5. /\ Base(r)' /\ Phase(r)' = Answer("502") /\ Front(todo[r])' = front
        /\ \A x : Done(r, x)' <=> Done(r, x)
        /\ \A x : Due(r, x)' <=> Done(r, x) \/ x \in front
        /\ stage'[r] = stage[r] /\ todo' \in [Requests -> Seq(Steps)]
        /\ \A q \in Requests : q # r => todo'[q] = todo[q]
    BY <1>1, <1>2, <1>3, <1>4, ContinueFacts DEF Quiet
  <1>6. /\ Say("COMPENSATED") \in front /\ Say("IngestionCompensated") \in front
        /\ Note("STORE_ADD_FAILED") \in front
        /\ \A x \in States : Say(x) \in front => x = "COMPENSATED"
        /\ \A x \in front : x.op \notin {"index", "unindex"}
        /\ Say("AuditRecordLogged") \notin front
    BY FailingSays DEF front
  <1>7. StageInv(r)' /\ Due(r, Say("IngestionCompensated"))'
    BY <1>5, <1>6, FailingStage
  <1>8. IngestInv(r)'
    BY <1>4, <1>5, <1>6, <1>7, Different DEF IngestInv
  <1>9. AuditInv(r)'
    <2>1. AuditInv(r)
      BY OneRoute DEF Local
    <2>2. Due(r, Say("AuditRecordLogged"))' => Due(r, Say("AuditRecordLogged"))
      BY <1>5, <1>6 DEF Due
    <2> QED  BY <1>1, <1>5, <2>1, <2>2, BeforeAudit DEF AuditOps
  <1> QED  BY <1>1, <1>5, <1>7, <1>8, <1>9 DEF Local

LEMMA AddKeeps ==
    ASSUME NEW r \in Ingests, Types, Local(r), Add(r)
    PROVE  Types' /\ Local(r)' /\ Others(r)
  <1>1. r \in Requests /\ r \notin Payments /\ r \notin Asks /\ Base(r)
    BY OneRoute DEF Local
  <1>2. /\ At(r, "add") /\ "add" \in LastOps /\ "add" \notin FrontOps /\ Quiet
        /\ audited' = audited /\ raised' = raised /\ search' = search
        /\ vector' = vector \/ vector' = vector \cup {r}
    BY DEF Add, LastOps, FrontOps, Quiet, told, audit
  <1>3. Phase(r).op = "add" /\ \A x : Due(r, x) <=> Done(r, x)
    BY <1>1, <1>2, AtFacts
  <1>4. /\ Untouched(r) /\ stage[r] = "PROCESSING"
        /\ Done(r, Say("PROCESSING")) /\ Done(r, Say("TelemetryIngested"))
    BY <1>3 DEF Local, IngestInv, StageInv, Silent
  <1>5. ASSUME todo' \in [Requests -> Seq(Steps)],
               \A q \in Requests : q # r => todo'[q] = todo[q]
        PROVE  Types' /\ Others(r)
    <2>1. vector' \subseteq Ingests
      BY <1>2 DEF Types
    <2> QED  BY <1>1, <1>2, <1>5, <2>1, QuietStep DEF Types
  <1>6. CASE vector' = vector \cup {r}
             /\ Continue(r, EachChunk("index") \o <<Step("audit", "chunks")>>)
    <2> DEFINE front == {Step("index", i) : i \in 1..Chunks} \cup {}
               last == Step("audit", "chunks")
    <2>1. last.op = "audit" /\ last.op # "reply"
      BY StepFacts
    <2>2. Reads(EachChunk("index") \o <<Step("audit", "chunks")>>, front, last)
      BY IndexingReads
    <2> HIDE DEF front
    <2>3. /\ Base(r)' /\ Phase(r)' = last /\ Front(todo[r])' = front
          /\ \A x : Done(r, x)' <=> Done(r, x)
          /\ \A x : Due(r, x)' <=> Done(r, x) \/ x \in front
          /\ stage'[r] = stage[r] /\ todo' \in [Requests -> Seq(Steps)]
          /\ \A q \in Requests : q # r => todo'[q] = todo[q]
      BY <1>1, <1>2, <1>6, <2>1, <2>2, Decides
    <2>4. /\ \A i \in 1..Chunks : Step("index", i) \in front
          /\ \A x \in front : x.op = "index" /\ x.arg \in 1..Chunks
      BY StepFacts DEF front
    <2>5. r \in vector'
      BY <1>6
    <2>6. IngestInv(r)'
      BY <1>4, <2>1, <2>3, <2>4, <2>5, Different DEF IngestInv
    <2>7. \A x : Say(x) \notin front
      BY <2>4, NoteSay
    <2>8. StageInv(r)'
      BY <1>4, <2>1, <2>3, <2>7 DEF StageInv, Silent
    <2>9. AuditInv(r)'
      <3>1. AuditInv(r)
        BY OneRoute DEF Local
      <3>2. Due(r, Say("AuditRecordLogged"))' => Due(r, Say("AuditRecordLogged"))
        BY <2>3, <2>7 DEF Due
      <3> QED  BY <1>1, <1>2, <1>3, <2>1, <2>3, <3>1, <3>2, BeforeAudit DEF AuditOps
    <2> QED  BY <1>1, <1>5, <2>3, <2>6, <2>8, <2>9 DEF Local
  <1>7. CASE Continue(r, StoreAddFailed)
    BY <1>2, <1>3, <1>4, <1>5, <1>7, StoreAddFails
  <1> QED  BY <1>6, <1>7 DEF Add

LEMMA IndexKeeps ==
    ASSUME NEW r \in Ingests, Types, Local(r), Index(r)
    PROVE  Types' /\ Local(r)' /\ Others(r)
  <1> DEFINE h == Head(todo[r])
  <1>1. r \in Requests /\ r \notin Payments /\ r \notin Asks /\ Base(r)
    BY OneRoute DEF Local
  <1>2. /\ At(r, "index") /\ "index" \in FrontOps /\ "index" \notin {"record", "publish"}
        /\ Quiet /\ audited' = audited /\ raised' = raised /\ vector' = vector
        /\ \E stored \in SUBSET {h.arg} :
              search' = [search EXCEPT ![r] = search[r] \cup stored]
    BY DEF Index, FrontOps, Quiet, told, audit
  <1>3. h \in Front(todo[r]) /\ h.op = "index" /\ h \in Steps
    BY <1>1, <1>2, AtFacts
  <1> HIDE DEF h
  <1>4. Phase(r) = Step("audit", "chunks") /\ h.arg \in 1..Chunks /\ h = Step("index", h.arg)
    <2>1. IngestInv(r)
      BY DEF Local
    <2>2. Phase(r) = Step("audit", "chunks") /\ h.arg \in 1..Chunks
      <3>1. /\ h.op = "index" => Phase(r) = Step("audit", "chunks")
            /\ h.op \in {"index", "unindex"} => h.arg \in 1..Chunks
        BY <1>3, <2>1 DEF IngestInv
      <3> QED  BY <1>3, <3>1
    <2> QED  BY <1>3, <2>2, StepIsItsParts
  <1>5. Phase(r).op = "audit" /\ Phase(r).op # "reply"
    BY <1>4, StepFacts
  <1>6. /\ Done(r, Say("PROCESSING")) /\ Done(r, Say("TelemetryIngested"))
        /\ r \in vector
        /\ \A i \in 1..Chunks : i \in search[r] \/ Step("index", i) \in Front(todo[r])
        /\ Silent(r, "PROCESSING")
    BY <1>5 DEF Local, IngestInv, StageInv
  <1>7. search' \in [Ingests -> SUBSET (1..Chunks)]
        /\ \A q \in Ingests : q # r => search'[q] = search[q]
    BY <1>2, <1>4 DEF Types
  <1>8. ASSUME todo' \in [Requests -> Seq(Steps)],
               \A q \in Requests : q # r => todo'[q] = todo[q]
        PROVE  Types' /\ Others(r)
    BY <1>1, <1>2, <1>7, <1>8, QuietStep DEF Types
  <1>9. CASE search' = [search EXCEPT ![r] = search[r] \cup {h.arg}]
             /\ Continue(r, Tail(todo[r]))
    <2>1. /\ Base(r)' /\ Phase(r)' = Phase(r)
          /\ Front(todo[r])' = Front(todo[r]) \ {h}
          /\ \A x : Done(r, x)' <=> Done(r, x)
          /\ stage'[r] = stage[r] /\ todo' \in [Requests -> Seq(Steps)]
          /\ \A q \in Requests : q # r => todo'[q] = todo[q]
      BY <1>1, <1>2, <1>9, CallFacts DEF Quiet, h
    <2>2. search'[r] = search[r] \cup {h.arg}
      BY <1>9 DEF Types
    <2>3. \A i \in 1..Chunks : i \in search'[r] \/ Step("index", i) \in Front(todo[r])'
      BY <1>4, <1>6, <2>1, <2>2, StepFacts
    <2>4. IngestInv(r)'
      BY <1>2, <1>4, <1>5, <1>6, <2>1, <2>3, Different DEF Local, IngestInv
    <2>5. StageInv(r)'
      BY <1>5, <1>6, <2>1 DEF StageInv, Silent
    <2>6. AuditInv(r)'
      <3>1. AuditInv(r)
        BY OneRoute DEF Local
      <3>2. Due(r, Say("AuditRecordLogged"))' => Due(r, Say("AuditRecordLogged"))
        BY <2>1 DEF Due
      <3> QED  BY <1>1, <1>2, <1>3, <1>4, <1>5, <2>1, <3>1, <3>2, StepFacts, BeforeAudit
    <2> QED  BY <1>1, <1>8, <2>1, <2>4, <2>5, <2>6 DEF Local
  <1>10. CASE Continue(r, StoreAddFailed)
    BY <1>2, <1>3, <1>5, <1>6, <1>8, <1>10, StoreAddFails DEF Silent
  <1> QED  BY <1>9, <1>10 DEF Index, h

\* An answered or answering 200 after a script that ends a lifecycle well.
LEMMA CompletedStage ==
    ASSUME NEW r \in Requests, Phase(r)' = Answer("200"),
           (Say("COMPLETED") \in Front(todo[r]))',
           \A x \in States : Say(x) \in Front(todo[r])' => x = "COMPLETED",
           stage'[r] = "PROCESSING"
    PROVE  StageInv(r)'
  <1>1. Tells(r, "PROCESSING", "COMPLETED")'
    BY DEF Tells
  <1>2. Phase(r)'.op = "reply" /\ Phase(r)'.arg = "200"
    BY NoteSay
  <1> QED  BY <1>1, <1>2 DEF StageInv

LEMMA AuditKeeps ==
    ASSUME NEW r \in Ingests, Types, Local(r), Audit(r)
    PROVE  Types' /\ Local(r)' /\ Others(r)
  <1>1. r \in Requests /\ r \notin Payments /\ r \notin Asks
    BY OneRoute
  <1>2. /\ At(r, "audit") /\ "audit" \in LastOps /\ "audit" \notin FrontOps /\ Quiet
        /\ search' = search /\ vector' = vector
        /\ audited' = audited \/ audited' = audited \cup {r}
        /\ raised' = raised \/ raised' = raised \cup {r}
    BY DEF Audit, AuditWrite, LastOps, FrontOps, Quiet, told, storeVars
  <1>3. Phase(r).op = "audit" /\ Front(todo[r]) = {}
    <2>1. Base(r)
      BY DEF Local
    <2> QED  BY <1>1, <1>2, <2>1, AtFacts
  <1>4. /\ Done(r, Say("PROCESSING")) /\ Done(r, Say("TelemetryIngested"))
        /\ r \in vector /\ \A i \in 1..Chunks : i \in search[r]
        /\ stage[r] = "PROCESSING"
    BY <1>3 DEF Local, IngestInv, StageInv, Silent
  <1>10. r \notin raised /\ ~ Done(r, Say("AuditRecordLogged"))
    <2>1. AuditInv(r)
      BY OneRoute DEF Local
    <2> QED  BY <1>3, <2>1, NoteSay DEF AuditInv, Due
  <1>5. Complete(r)
    <2>1. search[r] \subseteq 1..Chunks
      BY DEF Types
    <2> QED  BY <1>4, <2>1 DEF Complete
  <1>6. Complete(r)'
    BY <1>2, <1>5 DEF Complete
  <1>7. ASSUME todo' \in [Requests -> Seq(Steps)],
               \A q \in Requests : q # r => todo'[q] = todo[q]
        PROVE  Types' /\ Others(r)
    <2>1. audited' \subseteq Requests /\ raised' \subseteq Requests
      BY <1>1, <1>2 DEF Types
    <2> QED  BY <1>1, <1>2, <1>7, <2>1, QuietStep DEF Types
  <1>8. CASE audited' = audited \cup {r} /\ raised' = raised /\ Continue(r, Completed)
    <2> DEFINE front == {Note("COMPLETED"), Say("COMPLETED")} \cup {Say("AuditRecordLogged")}
    <2>1. Reads(Completed, front, Answer("200"))
      BY CompletedReads DEF Completed
    <2>2. Answer("200").op = "reply" /\ Answer("200").arg = "200" /\ "200" \in Codes
      BY NoteSay DEF Codes
    <2> HIDE DEF front
    <2>3. /\ Base(r)' /\ Phase(r)' = Answer("200") /\ Front(todo[r])' = front
          /\ \A x : Done(r, x)' <=> Done(r, x)
          /\ \A x : Due(r, x)' <=> Done(r, x) \/ x \in front
          /\ stage'[r] = stage[r] /\ todo' \in [Requests -> Seq(Steps)]
          /\ \A q \in Requests : q # r => todo'[q] = todo[q]
      BY <1>1, <1>2, <1>8, <2>1, <2>2, Decides
    <2>4. /\ \A x \in front : x.op \in {"record", "publish"}
          /\ Say("COMPLETED") \in front /\ Say("AuditRecordLogged") \in front
          /\ \A x \in States : Say(x) \in front => x = "COMPLETED"
      <3>1. "AuditRecordLogged" \notin States
        BY DEF States
      <3> QED  BY <3>1, NoteSay, Different DEF front
    <2>5. r \in audited'
      BY <1>8
    <2>6. IngestInv(r)'
      BY <1>4, <1>6, <2>2, <2>3, <2>4, Different DEF IngestInv
    <2>7. StageInv(r)'
      BY <1>1, <1>4, <2>3, <2>4, CompletedStage
    <2>8. AuditInv(r)'
      BY <1>8, <1>10, <2>2, <2>3, <2>4, <2>5, Different DEF AuditInv
    <2> QED  BY <1>1, <1>7, <2>3, <2>6, <2>7, <2>8 DEF Local
  <1>9. CASE raised' = raised \cup {r} /\ Continue(r, <<Step("delete", "chunks")>>)
    <2> DEFINE last == Step("delete", "chunks")
    <2>1. last.op = "delete" /\ last.op # "reply"
      BY StepFacts
    <2>2. Reads(<<last>>, {}, last)
      <3>1. "delete" \in LastOps /\ "chunks" \in Names
        BY DEF LastOps, Names
      <3>2. last \in Steps /\ last.op \notin FrontOps
        BY <3>1, StepFacts, OpsSplit, OpsDisjoint, NamesAreArgs
      <3> QED  BY <3>2, OneStep DEF Reads
    <2>3. /\ Base(r)' /\ Phase(r)' = last /\ Front(todo[r])' = {}
          /\ \A x : Done(r, x)' <=> Done(r, x)
          /\ \A x : Due(r, x)' <=> Done(r, x)
          /\ stage'[r] = stage[r] /\ todo' \in [Requests -> Seq(Steps)]
          /\ \A q \in Requests : q # r => todo'[q] = todo[q]
      BY <1>1, <1>2, <1>9, <2>1, <2>2, Decides
    <2>4. IngestInv(r)'
      BY <1>4, <1>6, <2>1, <2>3, Different DEF IngestInv
    <2>5. StageInv(r)'
      BY <1>4, <2>1, <2>3 DEF StageInv, Silent
    <2>6. AuditInv(r)'
      BY <1>9, <1>10, <2>1, <2>3, NoteSay DEF AuditInv
    <2> QED  BY <1>1, <1>7, <2>3, <2>4, <2>5, <2>6 DEF Local
  <1> QED  BY <1>8, <1>9 DEF Audit, AuditWrite

\* A rollback that fails, in the call on the collection or in one on the index.
LEMMA RollbackFails ==
    ASSUME NEW r \in Ingests, Types, Local(r), NEW op, At(r, op), Quiet,
           Continue(r, RollbackFailed), Done(r, Say("PROCESSING")),
           Done(r, Say("TelemetryIngested")), stage[r] = "PROCESSING",
           r \in raised, raised' = raised, ~ Done(r, Say("AuditRecordLogged"))
    PROVE  /\ Local(r)' /\ todo' \in [Requests -> Seq(Steps)]
           /\ \A q \in Requests : q # r => todo'[q] = todo[q]
  <1> DEFINE front == {Note("ROLLBACK_FAILED")} \cup Failing("AUDIT_WRITE_FAILED")
  <1>1. r \in Requests /\ r \notin Payments /\ r \notin Asks /\ Base(r)
    BY OneRoute DEF Local
  <1>2. Reads(RollbackFailed, front, Answer("503"))
    BY RollbackFailedReads DEF Failing
  <1>3. Answer("503").op = "reply" /\ Answer("503").arg = "503" /\ "503" \in Codes
    BY NoteSay DEF Codes
  <1>4. /\ Say("COMPENSATED") \in front /\ Say("IngestionCompensated") \in front
        /\ Note("AUDIT_WRITE_FAILED") \in front /\ Note("ROLLBACK_FAILED") \in front
        /\ \A x \in States : Say(x) \in front => x = "COMPENSATED"
        /\ \A x \in front : x.op \notin {"index", "unindex"}
        /\ Say("AuditRecordLogged") \notin front
    BY FailingSays, NoteSay, Different
  <1> HIDE DEF front
  <1>5. /\ Base(r)' /\ Phase(r)' = Answer("503") /\ Front(todo[r])' = front
        /\ \A x : Done(r, x)' <=> Done(r, x)
        /\ \A x : Due(r, x)' <=> Done(r, x) \/ x \in front
        /\ stage'[r] = stage[r] /\ todo' \in [Requests -> Seq(Steps)]
        /\ \A q \in Requests : q # r => todo'[q] = todo[q]
    BY <1>1, <1>2, <1>3, ContinueFacts DEF Quiet
  <1>6. StageInv(r)' /\ Due(r, Say("IngestionCompensated"))'
    BY <1>4, <1>5, FailingStage
  <1>7. IngestInv(r)'
    BY <1>3, <1>4, <1>5, <1>6, Different DEF IngestInv
  <1>8. AuditInv(r)'
    BY <1>4, <1>5, Different DEF AuditInv
  <1> QED  BY <1>1, <1>5, <1>6, <1>7, <1>8 DEF Local

LEMMA DeleteKeeps ==
    ASSUME NEW r \in Ingests, Types, Local(r), Delete(r)
    PROVE  Types' /\ Local(r)' /\ Others(r)
  <1>1. r \in Requests /\ r \notin Payments /\ r \notin Asks
    BY OneRoute
  <1>2. /\ At(r, "delete") /\ "delete" \in LastOps /\ "delete" \notin FrontOps /\ Quiet
        /\ search' = search /\ audited' = audited /\ raised' = raised
        /\ vector' = vector \/ vector' = vector \ {r}
    BY DEF Delete, LastOps, FrontOps, Quiet, told, audit
  <1>3. Phase(r).op = "delete"
    <2>1. Base(r)
      BY DEF Local
    <2> QED  BY <1>1, <1>2, <2>1, AtFacts
  <1>4. /\ Done(r, Say("PROCESSING")) /\ Done(r, Say("TelemetryIngested"))
        /\ stage[r] = "PROCESSING"
    BY <1>3 DEF Local, IngestInv, StageInv, Silent
  <1>8. r \in raised /\ ~ Done(r, Say("AuditRecordLogged"))
    <2>1. AuditInv(r)
      BY OneRoute DEF Local
    <2> QED  BY <1>3, <2>1, NoteSay DEF AuditInv, Due
  <1>5. ASSUME todo' \in [Requests -> Seq(Steps)],
               \A q \in Requests : q # r => todo'[q] = todo[q]
        PROVE  Types' /\ Others(r)
    <2>1. vector' \subseteq Ingests
      BY <1>2 DEF Types
    <2> QED  BY <1>1, <1>2, <1>5, <2>1, QuietStep DEF Types
  <1>6. CASE vector' = vector \ {r} /\ Continue(r, EachChunk("unindex") \o AuditWriteFailed)
    <2> DEFINE calls == {Step("unindex", i) : i \in 1..Chunks}
               front == calls \cup Failing("AUDIT_WRITE_FAILED")
    <2>1. Reads(EachChunk("unindex") \o AuditWriteFailed, front, Answer("503"))
      BY UnindexingReads DEF Failing
    <2>2. Answer("503").op = "reply" /\ Answer("503").arg = "503" /\ "503" \in Codes
      BY NoteSay DEF Codes
    <2>3. /\ \A i \in 1..Chunks : Step("unindex", i) \in calls
          /\ \A x \in calls : x.op = "unindex" /\ x.arg \in 1..Chunks
      BY StepFacts
    <2> HIDE DEF calls
    <2>4. /\ Say("COMPENSATED") \in front /\ Say("IngestionCompensated") \in front
          /\ Note("AUDIT_WRITE_FAILED") \in front
          /\ \A i \in 1..Chunks : Step("unindex", i) \in front
          /\ Say("AuditRecordLogged") \notin front
          /\ \A x \in States : Say(x) \in front => x = "COMPENSATED"
          /\ \A x \in front : /\ x.op # "index"
                              /\ x.op = "unindex" => x.arg \in 1..Chunks
      <3>1. \A x : Say(x) \notin calls
        BY <2>3, NoteSay
      <3> QED  BY <2>3, <3>1, FailingSays
    <2> HIDE DEF front
    <2>5. /\ Base(r)' /\ Phase(r)' = Answer("503") /\ Front(todo[r])' = front
          /\ \A x : Done(r, x)' <=> Done(r, x)
          /\ \A x : Due(r, x)' <=> Done(r, x) \/ x \in front
          /\ stage'[r] = stage[r] /\ todo' \in [Requests -> Seq(Steps)]
          /\ \A q \in Requests : q # r => todo'[q] = todo[q]
      BY <1>1, <1>2, <1>6, <2>1, <2>2, Decides
    <2>6. StageInv(r)' /\ Due(r, Say("IngestionCompensated"))'
      BY <1>4, <2>4, <2>5, FailingStage
    <2>7. search'[r] \subseteq 1..Chunks /\ r \notin vector'
      BY <1>2, <1>6 DEF Types
    <2>8. IngestInv(r)'
      BY <1>4, <2>2, <2>4, <2>5, <2>6, <2>7, Different DEF IngestInv
    <2>9. AuditInv(r)'
      BY <1>2, <1>8, <2>4, <2>5, Different DEF AuditInv
    <2> QED  BY <1>1, <1>5, <2>5, <2>6, <2>8, <2>9 DEF Local
  <1>7. CASE Continue(r, RollbackFailed)
    BY <1>2, <1>4, <1>5, <1>7, <1>8, RollbackFails
  <1> QED  BY <1>6, <1>7 DEF Delete

LEMMA UnindexKeeps ==
    ASSUME NEW r \in Ingests, Types, Local(r), Unindex(r)
    PROVE  Types' /\ Local(r)' /\ Others(r)
  <1> DEFINE h == Head(todo[r])
  <1>1. r \in Requests /\ r \notin Payments /\ r \notin Asks /\ Base(r) /\ IngestInv(r)
    BY OneRoute DEF Local
  <1>2. /\ At(r, "unindex") /\ "unindex" \in FrontOps /\ "unindex" \notin {"record", "publish"}
        /\ Quiet /\ audited' = audited /\ raised' = raised /\ vector' = vector
        /\ \E gone \in SUBSET {h.arg} :
              search' = [search EXCEPT ![r] = search[r] \ gone]
    BY DEF Unindex, FrontOps, Quiet, told, audit
  <1>3. h \in Front(todo[r]) /\ h.op = "unindex" /\ h \in Steps
    BY <1>1, <1>2, AtFacts
  <1> HIDE DEF h
  <1>4. /\ Phase(r) = Answer("503") /\ Say("COMPENSATED") \in Front(todo[r])
        /\ h = Step("unindex", h.arg)
    <2>1. /\ h.op = "unindex" =>
               Phase(r) = Answer("503") /\ Say("COMPENSATED") \in Front(todo[r])
      BY <1>1, <1>3 DEF IngestInv
    <2> QED  BY <1>3, <2>1, StepIsItsParts
  <1>5. Phase(r).op = "reply" /\ Phase(r).arg = "503"
    BY <1>4, NoteSay
  <1>6. /\ Done(r, Say("PROCESSING")) /\ Done(r, Say("TelemetryIngested"))
        /\ Due(r, Say("IngestionCompensated")) /\ Due(r, Note("AUDIT_WRITE_FAILED"))
        /\ \/ Due(r, Note("ROLLBACK_FAILED"))
           \/ /\ r \notin vector
              /\ \A i \in search[r] : Step("unindex", i) \in Front(todo[r])
    BY <1>1, <1>4, Different DEF IngestInv
  <1>7. /\ Tells(r, "PROCESSING", "COMPENSATED") /\ Announced(r)
        /\ stage[r] = "PROCESSING"
    <2>1. "COMPENSATED" \in States
      BY DEF States
    <2> QED  BY <1>4, <1>5, <2>1 DEF Local, StageInv, Silent, Tells
  <1>12. r \in raised /\ ~ Due(r, Say("AuditRecordLogged"))
    <2>1. AuditInv(r)
      BY OneRoute DEF Local
    <2> QED  BY <1>4, <2>1, Different DEF AuditInv
  <1>8. search' \in [Ingests -> SUBSET (1..Chunks)]
        /\ \A q \in Ingests : q # r => search'[q] = search[q]
    BY <1>2 DEF Types
  <1>9. ASSUME todo' \in [Requests -> Seq(Steps)],
               \A q \in Requests : q # r => todo'[q] = todo[q]
        PROVE  Types' /\ Others(r)
    BY <1>1, <1>2, <1>8, <1>9, QuietStep DEF Types
  <1>10. CASE search' = [search EXCEPT ![r] = search[r] \ {h.arg}]
              /\ Continue(r, Tail(todo[r]))
    <2>1. /\ Base(r)' /\ Phase(r)' = Phase(r)
          /\ Front(todo[r])' = Front(todo[r]) \ {h}
          /\ \A x : Done(r, x)' <=> Done(r, x)
          /\ \A x : x # h => (Due(r, x)' <=> Due(r, x))
          /\ stage'[r] = stage[r] /\ todo' \in [Requests -> Seq(Steps)]
          /\ \A q \in Requests : q # r => todo'[q] = todo[q]
      BY <1>1, <1>2, <1>10, CallFacts DEF Quiet, h
    <2>2. search'[r] = search[r] \ {h.arg}
      BY <1>10 DEF Types
    <2>3. \A x : Note(x) # h /\ Say(x) # h
      BY <1>3, NoteSay
    <2>4. /\ Due(r, Say("IngestionCompensated"))' /\ Due(r, Note("AUDIT_WRITE_FAILED"))'
          /\ \/ Due(r, Note("ROLLBACK_FAILED"))'
             \/ /\ r \notin vector'
                /\ \A i \in search'[r] : Step("unindex", i) \in Front(todo[r])'
      BY <1>2, <1>4, <1>6, <2>1, <2>2, <2>3, StepFacts
    <2>5. (Say("COMPENSATED") \in Front(todo[r]))'
      BY <1>4, <2>1, <2>3
    <2>6. \A x \in Front(todo[r]) :
            /\ x.op # "index"
            /\ x.op = "unindex" => x.arg \in 1..Chunks
      <3>1. Phase(r) # Step("audit", "chunks")
        BY <1>4, Different
      <3> QED  BY <1>1, <3>1 DEF IngestInv
    <2>7. IngestInv(r)'
      BY <1>4, <1>5, <1>6, <2>1, <2>4, <2>5, <2>6, Different DEF IngestInv
    <2>8. StageInv(r)'
      BY <1>5, <1>7, <2>1, <2>3, <2>5 DEF StageInv, Tells, Announced
    <2>9. AuditInv(r)'
      BY <1>2, <1>4, <1>12, <2>1, <2>3, Different DEF AuditInv
    <2> QED  BY <1>1, <1>9, <2>1, <2>7, <2>8, <2>9 DEF Local
  <1>11. CASE Continue(r, RollbackFailed)
    BY <1>2, <1>6, <1>7, <1>9, <1>11, <1>12, RollbackFails DEF Due
  <1> QED  BY <1>10, <1>11 DEF Unindex, h

LEMMA IngestKeeps ==
    ASSUME NEW r \in Ingests, Types, Local(r), IngestStep(r)
    PROVE  Types' /\ Local(r)' /\ Others(r)
  BY ReceiveIngestKeeps, SplitKeeps, AddKeeps, IndexKeeps, AuditKeeps, DeleteKeeps,
     UnindexKeeps DEF IngestStep


-----------------------------------------------------------------------------
(* The payment route and the ask route. *)

LEMMA CompensatedStage ==
    ASSUME NEW r \in Requests, NEW code, Phase(r)' = Answer(code), Announced(r)',
           (Say("COMPENSATED") \in Front(todo[r]))',
           \A x \in States : Say(x) \in Front(todo[r])' => x = "COMPENSATED",
           stage'[r] = "PROCESSING"
    PROVE  StageInv(r)'
  <1>1. Tells(r, "PROCESSING", "COMPENSATED")'
    BY DEF Tells
  <1>2. Phase(r)'.op = "reply"
    BY NoteSay
  <1> QED  BY <1>1, <1>2 DEF StageInv

\* The first step of either route announces PROCESSING.
LEMMA BeginKeeps ==
    ASSUME NEW r \in Requests, Types, Local(r), NEW op \in {"receive_payment", "receive_ask"},
           At(r, op), Quiet, UNCHANGED <<audited, raised, vector, search>>,
           NEW next \in {"tokenize", "model"}, NEW arg \in Names,
           Continue(r, Transition("PROCESSING") \o <<Step(next, arg)>>)
    PROVE  /\ Types' /\ Base(r)' /\ StageInv(r)' /\ Others(r)
           /\ Phase(r).op = op /\ Phase(r)' = Step(next, arg)
           /\ \A x \in {"PaymentTransactionIngested", "AuditRecordLogged"} :
                Due(r, Say(x))' => Due(r, Say(x))
  <1> DEFINE new == Transition("PROCESSING") \o <<Step(next, arg)>>
             front == {Note("PROCESSING"), Say("PROCESSING")}
             last == Step(next, arg)
  <1>1. op \in LastOps
    BY DEF LastOps
  <1>2. Reads(new, front, last)
    BY BeginningReads
  <1>3. last.op = next /\ last.op # "reply"
    BY StepFacts
  <1>4. /\ \A x \in {"PaymentTransactionIngested", "AuditRecordLogged"} : Say(x) \notin front
        /\ Say("PROCESSING") \in front
        /\ \A x \in States : Say(x) \in front => x = "PROCESSING"
    BY Different
  <1> HIDE DEF new, front, last
  <1>5. /\ Phase(r).op = op /\ Base(r)' /\ Phase(r)' = last /\ Front(todo[r])' = front
        /\ \A x : Due(r, x) <=> Done(r, x)
        /\ \A x : Due(r, x)' <=> Done(r, x) \/ x \in front
        /\ stage'[r] = stage[r] /\ todo' \in [Requests -> Seq(Steps)]
        /\ \A q \in Requests : q # r => todo'[q] = todo[q]
    BY <1>1, <1>2, <1>3, Decides DEF new
  <1>6. Types' /\ Others(r)
    BY <1>5, QuietStep DEF Types
  <1>7. stage[r] = "INITIALIZED"
    BY <1>5 DEF Local, StageInv, Silent
  <1>8. StageInv(r)'
    BY <1>3, <1>4, <1>5, <1>7 DEF StageInv, Tells
  <1> QED  BY <1>4, <1>5, <1>6, <1>8 DEF last

LEMMA ReceivePaymentKeeps ==
    ASSUME NEW r \in Payments, Types, Local(r), ReceivePayment(r), UNCHANGED storeVars
    PROVE  Types' /\ Local(r)' /\ Others(r)
  <1>1. r \in Requests /\ r \notin Ingests /\ r \notin Asks
    BY OneRoute
  <1>2. /\ At(r, "receive_payment") /\ Quiet /\ UNCHANGED <<audited, raised, vector, search>>
        /\ Continue(r, Transition("PROCESSING") \o <<Step("tokenize", "payment")>>)
    BY DEF ReceivePayment, Quiet, told, audit, storeVars
  <1>3. "payment" \in Names
    BY DEF Names
  <1>4. /\ Types' /\ Base(r)' /\ StageInv(r)' /\ Others(r)
        /\ Phase(r).op = "receive_payment" /\ Phase(r)' = Step("tokenize", "payment")
        /\ Due(r, Say("PaymentTransactionIngested"))' =>
             Due(r, Say("PaymentTransactionIngested"))
    BY <1>1, <1>2, <1>3, BeginKeeps
  <1>5. PaymentInv(r)'
    BY <1>4 DEF Local, PaymentInv
  <1> QED  BY <1>1, OneRoute, <1>4, <1>5 DEF Local

LEMMA TokenizeKeeps ==
    ASSUME NEW r \in Payments, Types, Local(r), Tokenize(r), UNCHANGED storeVars
    PROVE  Types' /\ Local(r)' /\ Others(r)
  <1>1. r \in Requests /\ r \notin Ingests /\ r \notin Asks
    BY OneRoute
  <1>2. /\ At(r, "tokenize") /\ "tokenize" \in LastOps /\ "tokenize" \notin FrontOps
        /\ Quiet /\ audited' = audited /\ raised' = raised /\ vector' = vector /\ search' = search
    BY DEF Tokenize, LastOps, FrontOps, Quiet, told, audit, storeVars
  <1>3. /\ Phase(r).op = "tokenize" /\ Front(todo[r]) = {}
        /\ \A x : Due(r, x) <=> Done(r, x)
    <2>1. Base(r)
      BY DEF Local
    <2> QED  BY <1>1, <1>2, <2>1, AtFacts
  <1>4. stage[r] = "PROCESSING" /\ ~ Done(r, Say("PaymentTransactionIngested"))
    BY <1>3 DEF Local, PaymentInv, StageInv, Tells
  <1>5. ASSUME todo' \in [Requests -> Seq(Steps)],
               \A q \in Requests : q # r => todo'[q] = todo[q]
        PROVE  Types' /\ Others(r)
    BY <1>1, <1>2, <1>5, QuietStep DEF Types
  <1>6. CASE Continue(r, <<Say("PaymentTransactionIngested"), Step("score", "payment")>>)
    <2> DEFINE x == Say("PaymentTransactionIngested")
               last == Step("score", "payment")
    <2>1. /\ {"PaymentTransactionIngested", "payment"} \subseteq Names /\ "score" \in LastOps
          /\ "PaymentTransactionIngested" \notin States
      BY DEF Names, LastOps, States
    <2>2. Reads(<<x, last>>, {x}, last)
      <3>1. last \in Steps /\ last.op \notin FrontOps
        BY <2>1, StepFacts, OpsSplit, OpsDisjoint, NamesAreArgs
      <3> QED  BY <2>1, <3>1, NoteSay, TwoSteps DEF Reads
    <2>3. last.op = "score" /\ last.op # "reply" /\ last # Answer("502")
      BY StepFacts, NoteSay
    <2>4. \A s \in States : Say(s) # x
      BY <2>1, Different
    <2>5. /\ Base(r)' /\ Phase(r)' = last /\ Front(todo[r])' = {x}
          /\ stage'[r] = stage[r] /\ todo' \in [Requests -> Seq(Steps)]
          /\ \A q \in Requests : q # r => todo'[q] = todo[q]
      BY <1>1, <1>2, <1>6, <2>2, <2>3, Decides
    <2>6. PaymentInv(r)'
      BY <2>3, <2>5 DEF PaymentInv
    <2>7. StageInv(r)'
      BY <1>4, <2>3, <2>4, <2>5 DEF StageInv, Silent
    <2> QED  BY <1>1, OneRoute, <1>5, <2>5, <2>6, <2>7 DEF Local
  <1>7. CASE Continue(r, PaymentFailed)
    <2> DEFINE front == {Note("COMPENSATED"), Say("COMPENSATED")} \cup {Note("UNHANDLED_FAILURE")}
    <2>1. Reads(PaymentFailed, front, Answer("502"))
      BY PaymentFailedReads
    <2>2. Answer("502").op = "reply" /\ Answer("502").arg = "502" /\ "502" \in Codes
      BY NoteSay DEF Codes
    <2>3. /\ Say("PaymentTransactionIngested") \notin front /\ Say("COMPENSATED") \in front
          /\ \A x \in States : Say(x) \in front => x = "COMPENSATED"
      BY Different
    <2> HIDE DEF front
    <2>4. /\ Base(r)' /\ Phase(r)' = Answer("502") /\ Front(todo[r])' = front
          /\ \A x : Due(r, x)' <=> Done(r, x) \/ x \in front
          /\ stage'[r] = stage[r] /\ todo' \in [Requests -> Seq(Steps)]
          /\ \A q \in Requests : q # r => todo'[q] = todo[q]
      BY <1>1, <1>2, <1>7, <2>1, <2>2, Decides
    <2>5. ~ Due(r, Say("PaymentTransactionIngested"))'
      BY <1>4, <2>3, <2>4
    <2>6. PaymentInv(r)'
      BY <2>4, <2>5 DEF PaymentInv
    <2>7. Announced(r)'
      BY <2>5 DEF Announced
    <2>8. StageInv(r)'
      BY <1>1, <1>4, <2>3, <2>4, <2>7, CompensatedStage
    <2> QED  BY <1>1, OneRoute, <1>5, <2>4, <2>6, <2>8 DEF Local
  <1> QED  BY <1>6, <1>7 DEF Tokenize

LEMMA ScoreKeeps ==
    ASSUME NEW r \in Payments, Types, Local(r), Score(r), UNCHANGED storeVars
    PROVE  Types' /\ Local(r)' /\ Others(r)
  <1>1. r \in Requests /\ r \notin Ingests /\ r \notin Asks
    BY OneRoute
  <1>2. /\ At(r, "score") /\ "score" \in LastOps /\ "score" \notin FrontOps
        /\ Quiet /\ audited' = audited /\ raised' = raised /\ vector' = vector /\ search' = search
    BY DEF Score, LastOps, FrontOps, Quiet, told, audit, storeVars
  <1>3. Phase(r).op = "score"
    <2>1. Base(r)
      BY DEF Local
    <2> QED  BY <1>1, <1>2, <2>1, AtFacts
  <1>4. stage[r] = "PROCESSING"
    BY <1>3 DEF Local, StageInv, Silent
  <1>5. Answer("200").op = "reply" /\ Answer("200").arg = "200" /\ "200" \in Codes
    BY NoteSay DEF Codes
  <1>6. ASSUME NEW new, NEW front, Reads(new, front, Answer("200")), Continue(r, new)
        PROVE  /\ Types' /\ Others(r) /\ Base(r)' /\ PaymentInv(r)'
               /\ Phase(r)' = Answer("200") /\ Front(todo[r])' = front
               /\ stage'[r] = "PROCESSING"
    <2>1. /\ Base(r)' /\ Phase(r)' = Answer("200") /\ Front(todo[r])' = front
          /\ stage'[r] = stage[r] /\ todo' \in [Requests -> Seq(Steps)]
          /\ \A q \in Requests : q # r => todo'[q] = todo[q]
      BY <1>1, <1>2, <1>5, <1>6, Decides
    <2>2. Types' /\ Others(r)
      BY <1>1, <1>2, <2>1, QuietStep DEF Types
    <2>3. PaymentInv(r)'
      BY <1>5, <2>1, Different DEF PaymentInv
    <2> QED  BY <1>4, <2>1, <2>2, <2>3
  <1>7. CASE Continue(r, Scored)
    <2> DEFINE front == {Say("PaymentRiskScored")}
                          \cup ({Note("COMPLETED"), Say("COMPLETED")} \cup {})
    <2>1. /\ Say("COMPLETED") \in front
          /\ \A x \in States : Say(x) \in front => x = "COMPLETED"
      <3>1. "PaymentRiskScored" \notin States
        BY DEF States
      <3> QED  BY <3>1, Different
    <2>2. Reads(Scored, front, Answer("200"))
      BY ScoredReads
    <2> HIDE DEF front
    <2>3. /\ Types' /\ Others(r) /\ Base(r)' /\ PaymentInv(r)'
          /\ Phase(r)' = Answer("200") /\ Front(todo[r])' = front
          /\ stage'[r] = "PROCESSING"
      BY <1>6, <1>7, <2>2
    <2>4. StageInv(r)'
      BY <1>1, <2>1, <2>3, CompletedStage
    <2> QED  BY <1>1, OneRoute, <2>3, <2>4 DEF Local
  <1>8. CASE Continue(r, ReviewedClosed)
    <2> DEFINE front == {Say("PaymentCompensated"), Say("PaymentRiskScored")}
                          \cup ({Note("COMPENSATED"), Say("COMPENSATED")}
                                  \cup {Note("DOWNSTREAM_TIMEOUT_FAIL_CLOSED")})
    <2>1. /\ Say("COMPENSATED") \in front /\ Say("PaymentCompensated") \in front
          /\ \A x \in States : Say(x) \in front => x = "COMPENSATED"
      <3>1. "PaymentRiskScored" \notin States /\ "PaymentCompensated" \notin States
        BY DEF States
      <3> QED  BY <3>1, Different
    <2>2. Reads(ReviewedClosed, front, Answer("200"))
      BY ReviewedClosedReads
    <2> HIDE DEF front
    <2>3. /\ Types' /\ Others(r) /\ Base(r)' /\ PaymentInv(r)'
          /\ Phase(r)' = Answer("200") /\ Front(todo[r])' = front
          /\ stage'[r] = "PROCESSING"
      BY <1>6, <1>8, <2>2
    <2>4. Announced(r)'
      BY <2>1, <2>3 DEF Announced, Due
    <2>5. StageInv(r)'
      BY <1>1, <2>1, <2>3, <2>4, CompensatedStage
    <2> QED  BY <1>1, OneRoute, <2>3, <2>5 DEF Local
  <1> QED  BY <1>7, <1>8 DEF Score

LEMMA PaymentKeeps ==
    ASSUME NEW r \in Payments, Types, Local(r), PaymentStep(r), UNCHANGED storeVars
    PROVE  Types' /\ Local(r)' /\ Others(r)
  BY ReceivePaymentKeeps, TokenizeKeeps, ScoreKeeps DEF PaymentStep

LEMMA ReceiveAskKeeps ==
    ASSUME NEW r \in Asks, Types, Local(r), ReceiveAsk(r), UNCHANGED storeVars
    PROVE  Types' /\ Local(r)' /\ Others(r)
  <1>1. r \in Requests /\ r \notin Ingests /\ r \notin Payments
    BY OneRoute
  <1>2. /\ At(r, "receive_ask") /\ Quiet /\ UNCHANGED <<audited, raised, vector, search>>
        /\ Continue(r, Transition("PROCESSING") \o <<Step("model", "llm")>>)
    BY DEF ReceiveAsk, Quiet, told, audit, storeVars
  <1>3. "llm" \in Names
    BY DEF Names
  <1>4. /\ Types' /\ Base(r)' /\ StageInv(r)' /\ Others(r)
        /\ Phase(r).op = "receive_ask" /\ Phase(r)' = Step("model", "llm")
        /\ Due(r, Say("AuditRecordLogged"))' => Due(r, Say("AuditRecordLogged"))
    BY <1>1, <1>2, <1>3, BeginKeeps
  <1>5. AskInv(r)'
    BY <1>4, StepFacts DEF AskInv
  <1>6. AuditInv(r)'
    <2>1. AuditInv(r)
      BY OneRoute DEF Local
    <2> QED  BY <1>1, <1>2, <1>4, <2>1, StepFacts, BeforeAudit DEF AuditOps
  <1> QED  BY <1>1, <1>4, <1>5, <1>6 DEF Local

\* A step that comes to one other, with nothing said on the way.
LEMMA SilentKeeps ==
    ASSUME NEW r \in Asks, Types, Local(r), NEW op \in {"model", "query", "infer"},
           At(r, op), Quiet,
           UNCHANGED <<audited, raised, vector, search>>, stage[r] = "PROCESSING",
           NEW last \in {Step("query", "store"), Step("infer", "llm"), Answer("500")},
           Continue(r, <<last>>), last = Answer("500") => ~ ModelConfigured
    PROVE  Types' /\ Local(r)' /\ Others(r)
  <1>1. r \in Requests /\ r \notin Ingests /\ r \notin Payments
    BY OneRoute
  <1>2. /\ {"model", "query", "infer"} \subseteq LastOps /\ {"store", "llm", "500"} \subseteq Names
        /\ "500" \in Codes
    BY DEF LastOps, Names, Codes
  <1>3. last \in Steps /\ last.op \notin FrontOps
    BY <1>2, StepFacts, OpsSplit, OpsDisjoint, NamesAreArgs, NoteSay
  <1>4. /\ last.op \in {"query", "infer"} \/ last = Answer("500")
        /\ last.op = "reply" => last = Answer("500") /\ last.arg = "500"
    BY StepFacts, NoteSay
  <1>5. Reads(<<last>>, {}, last)
    BY <1>3, OneStep DEF Reads
  <1>6. /\ Phase(r).op = op /\ Base(r)' /\ Phase(r)' = last /\ Front(todo[r])' = {}
        /\ \A x : Due(r, x)' => Due(r, x)
        /\ stage'[r] = stage[r] /\ todo' \in [Requests -> Seq(Steps)]
        /\ \A q \in Requests : q # r => todo'[q] = todo[q]
    BY <1>1, <1>2, <1>4, <1>5, Decides
  <1>7. Types' /\ Others(r)
    BY <1>1, <1>6, QuietStep DEF Types
  <1>8. AskInv(r)'
    <2>1. last.op # "audit_ask"
      BY <1>4, NoteSay
    <2> QED  BY <1>6, <2>1 DEF AskInv
  <1>9. StageInv(r)'
    <2>1. Silent(r, "PROCESSING")'
      BY <1>6 DEF Silent
    <2>2. CASE last.op \in {"query", "infer"}
      BY <1>6, <2>1, <2>2 DEF StageInv
    <2>3. CASE last = Answer("500")
      <3>1. Phase(r)'.op = "reply" /\ Phase(r)'.arg = "500"
        BY <1>6, <2>3, NoteSay
      <3> QED  BY <2>1, <2>3, <3>1 DEF StageInv
    <2> QED  BY <1>4, <2>2, <2>3
  <1>10. AuditInv(r)'
    <2>1. AuditInv(r)
      BY OneRoute DEF Local
    <2> QED  BY <1>1, <1>4, <1>6, <2>1, BeforeAudit DEF AuditOps
  <1> QED  BY <1>1, <1>6, <1>7, <1>8, <1>9, <1>10 DEF Local

LEMMA MakeModelKeeps ==
    ASSUME NEW r \in Asks, Types, Local(r), MakeModel(r), UNCHANGED storeVars
    PROVE  Types' /\ Local(r)' /\ Others(r)
  <1>1. r \in Requests /\ r \notin Ingests /\ r \notin Payments
    BY OneRoute
  <1>2. /\ At(r, "model") /\ "model" \in LastOps /\ "model" \notin FrontOps
        /\ Quiet /\ UNCHANGED <<audited, raised, vector, search>>
    BY DEF MakeModel, LastOps, FrontOps, Quiet, told, audit, storeVars
  <1>3. Phase(r).op = "model" /\ Front(todo[r]) = {}
    <2>1. Base(r)
      BY DEF Local
    <2> QED  BY <1>1, <1>2, <2>1, AtFacts
  <1>4. stage[r] = "PROCESSING"
    BY <1>3 DEF Local, StageInv, Tells
  <1>5. CASE ModelConfigured
    <2>1. Continue(r, <<Step("query", "store")>>) /\ Step("query", "store") # Answer("500")
      BY <1>5, Different DEF MakeModel
    <2> QED  BY <1>2, <1>4, <2>1, SilentKeeps
  <1>6. CASE ~ ModelConfigured
    <2>1. Continue(r, <<Answer("500")>>)
      BY <1>6 DEF MakeModel
    <2> QED  BY <1>2, <1>4, <1>6, <2>1, SilentKeeps
  <1> QED  BY <1>5, <1>6

LEMMA OutcomeKeeps ==
    ASSUME NEW r \in Asks, Types, Local(r), NEW op \in {"query", "infer"},
           At(r, op), Quiet,
           UNCHANGED <<audited, raised, vector, search>>, stage[r] = "PROCESSING",
           NEW failure \in Failures, Continue(r, Outcome(failure))
    PROVE  Types' /\ Local(r)' /\ Others(r)
  <1> DEFINE front == {Say("TransactionProcessed")} \cup
                        (IF failure = "none" THEN {}
                         ELSE {Say("TransactionCompensated"),
                               Note("DOWNSTREAM_FAILURE_FAIL_SAFE")})
             last == Step("audit_ask", failure)
  <1>1. r \in Requests /\ r \notin Ingests /\ r \notin Payments
    BY OneRoute
  <1>2. last.op = "audit_ask" /\ last.op # "reply" /\ last.arg = failure
    BY StepFacts
  <1>3. Reads(Outcome(failure), front, last)
    BY OutcomeReads
  <1>4. /\ Say("AuditRecordLogged") \notin front
        /\ \A x \in States : Say(x) \notin front
        /\ failure # "none" => Say("TransactionCompensated") \in front
    <2>1. "TransactionProcessed" \notin States /\ "TransactionCompensated" \notin States
      BY DEF States
    <2> QED  BY <2>1, Different
  <1> HIDE DEF front
  <1>5. /\ Phase(r).op = op /\ Base(r)' /\ Phase(r)' = last /\ Front(todo[r])' = front
        /\ \A x : Due(r, x)' <=> Done(r, x) \/ x \in front
        /\ stage'[r] = stage[r] /\ todo' \in [Requests -> Seq(Steps)]
        /\ \A q \in Requests : q # r => todo'[q] = todo[q]
    <2>1. op \in LastOps
      BY DEF LastOps
    <2> QED  BY <1>1, <1>2, <1>3, <2>1, Decides
  <1>6. Types' /\ Others(r)
    BY <1>1, <1>5, QuietStep DEF Types
  <1>7. AskInv(r)'
    BY <1>2, <1>4, <1>5 DEF AskInv
  <1>8. StageInv(r)'
    BY <1>2, <1>4, <1>5 DEF StageInv, Silent
  <1>9. AuditInv(r)'
    <2>1. AuditInv(r)
      BY OneRoute DEF Local
    <2>2. Due(r, Say("AuditRecordLogged"))' => Due(r, Say("AuditRecordLogged"))
      BY <1>4, <1>5 DEF Due
    <2> QED  BY <1>1, <1>2, <1>5, <2>1, <2>2, BeforeAudit DEF AuditOps
  <1> QED  BY <1>1, <1>5, <1>6, <1>7, <1>8, <1>9 DEF Local

LEMMA QueryInferKeep ==
    ASSUME NEW r \in Asks, Types, Local(r), Query(r) \/ Infer(r), UNCHANGED storeVars
    PROVE  Types' /\ Local(r)' /\ Others(r)
  <1>1. r \in Requests
    BY OneRoute
  <1>2. PICK op \in {"query", "infer"} :
          /\ At(r, op) /\ Quiet /\ UNCHANGED <<audited, raised, vector, search>>
          /\ \/ \E failure \in Failures : Continue(r, Outcome(failure))
             \/ Continue(r, <<Step("infer", "llm")>>)
    BY DEF Query, Infer, Quiet, told, audit, storeVars, Failures
  <1>3. op \in LastOps /\ op \notin FrontOps
    BY DEF LastOps, FrontOps
  <1>4. Phase(r).op = op
    <2>1. Base(r)
      BY DEF Local
    <2> QED  BY <1>1, <1>2, <1>3, <2>1, AtFacts
  <1>5. stage[r] = "PROCESSING"
    BY <1>4 DEF Local, StageInv, Silent
  <1>6. CASE \E failure \in Failures : Continue(r, Outcome(failure))
    BY <1>2, <1>3, <1>5, <1>6, OutcomeKeeps
  <1>7. CASE Continue(r, <<Step("infer", "llm")>>)
    <2>1. Step("infer", "llm") # Answer("500")
      BY Different
    <2> QED  BY <1>2, <1>3, <1>5, <1>7, <2>1, SilentKeeps
  <1> QED  BY <1>2, <1>6, <1>7

LEMMA AuditAskKeeps ==
    ASSUME NEW r \in Asks, Types, Local(r), AuditAsk(r), UNCHANGED storeVars
    PROVE  Types' /\ Local(r)' /\ Others(r)
  <1> DEFINE f == Head(todo[r]).arg
  <1>1. r \in Requests /\ r \notin Ingests /\ r \notin Payments
    BY OneRoute
  <1>2. /\ At(r, "audit_ask") /\ "audit_ask" \in LastOps /\ "audit_ask" \notin FrontOps
        /\ Quiet /\ vector' = vector /\ search' = search
        /\ \/ audited' = audited \cup {r} /\ raised' = raised /\ Continue(r, Answered(f))
           \/ audited' = audited /\ raised' = raised \cup {r} /\ Continue(r, AskAuditFailed)
    BY DEF AuditAsk, AuditWrite, LastOps, FrontOps, Quiet, told, storeVars
  <1>3. /\ Phase(r).op = "audit_ask" /\ Phase(r).arg = f
        /\ \A x : Due(r, x) <=> Done(r, x)
    <2>1. Base(r)
      BY DEF Local
    <2> QED  BY <1>1, <1>2, <2>1, AtFacts
  <1> HIDE DEF f
  <1>4. stage[r] = "PROCESSING"
    BY <1>3 DEF Local, StageInv, Silent
  <1>5. f # "none" => Done(r, Say("TransactionCompensated"))
    BY <1>3 DEF Local, AskInv
  <1>9. r \notin raised /\ ~ Done(r, Say("AuditRecordLogged"))
    <2>1. AuditInv(r)
      BY OneRoute DEF Local
    <2> QED  BY <1>3, <2>1, NoteSay DEF AuditInv
  <1>6. ASSUME NEW new, NEW front, NEW code \in {"200", "503"},
               Reads(new, front, Answer(code)), Continue(r, new)
        PROVE  /\ Types' /\ Others(r) /\ Base(r)' /\ AskInv(r)'
               /\ Phase(r)' = Answer(code) /\ Front(todo[r])' = front
               /\ \A x : Due(r, x)' <=> Done(r, x) \/ x \in front
               /\ stage'[r] = "PROCESSING"
    <2>1. Answer(code).op = "reply" /\ Answer(code).arg = code /\ code \in Codes
      BY NoteSay DEF Codes
    <2>2. /\ Base(r)' /\ Phase(r)' = Answer(code) /\ Front(todo[r])' = front
          /\ \A x : Due(r, x)' <=> Done(r, x) \/ x \in front
          /\ stage'[r] = stage[r] /\ todo' \in [Requests -> Seq(Steps)]
          /\ \A q \in Requests : q # r => todo'[q] = todo[q]
      BY <1>1, <1>2, <1>6, <2>1, Decides
    <2>3. audited' \subseteq Requests /\ raised' \subseteq Requests
      BY <1>1, <1>2 DEF Types
    <2>4. Types' /\ Others(r)
      BY <1>1, <1>2, <2>2, <2>3, QuietStep DEF Types
    <2>5. AskInv(r)'
      BY <2>1, <2>2 DEF AskInv
    <2> QED  BY <1>4, <2>2, <2>4, <2>5
  <1>7. CASE audited' = audited \cup {r} /\ raised' = raised /\ Continue(r, Answered(f))
    <2> DEFINE state == IF f = "none" THEN "COMPLETED" ELSE "COMPENSATED"
               front == {Note(state), Say(state)} \cup {Say("AuditRecordLogged")}
    <2>1. Reads(Answered(f), front, Answer("200"))
      BY CompletedReads DEF Answered
    <2>2. /\ Say("AuditRecordLogged") \in front
          /\ Say(state) \in front /\ \A x \in States : Say(x) \in front => x = state
      <3>1. "AuditRecordLogged" \notin States
        BY DEF States
      <3> QED  BY <3>1, Different
    <2> HIDE DEF front
    <2>3. /\ Types' /\ Others(r) /\ Base(r)' /\ AskInv(r)'
          /\ Phase(r)' = Answer("200") /\ Front(todo[r])' = front
          /\ \A x : Due(r, x)' <=> Done(r, x) \/ x \in front
          /\ stage'[r] = "PROCESSING"
      BY <1>6, <1>7, <2>1
    <2>6. AuditInv(r)'
      <3>1. r \in audited'
        BY <1>7
      <3> QED  BY <1>7, <1>9, <2>2, <2>3, <3>1, NoteSay, Different DEF AuditInv
    <2>4. CASE f = "none"
      BY <1>1, <2>2, <2>3, <2>4, <2>6, CompletedStage DEF Local
    <2>5. CASE f # "none"
      <3>1. Announced(r)'
        BY <1>5, <2>3, <2>5 DEF Announced
      <3>2. StageInv(r)'
        BY <1>1, <2>2, <2>3, <2>5, <3>1, CompensatedStage
      <3> QED  BY <1>1, <2>3, <2>6, <3>2 DEF Local
    <2> QED  BY <2>4, <2>5
  <1>8. CASE raised' = raised \cup {r} /\ Continue(r, AskAuditFailed)
    <2> DEFINE front == {Note("COMPENSATED"), Say("COMPENSATED")}
                          \cup {Note("AUDIT_WRITE_FAILED"), Say("TransactionCompensated")}
    <2>1. Reads(AskAuditFailed, front, Answer("503"))
      BY AskAuditFailedReads
    <2>2. /\ Say("COMPENSATED") \in front /\ Say("TransactionCompensated") \in front
          /\ Say("AuditRecordLogged") \notin front
          /\ \A x \in States : Say(x) \in front => x = "COMPENSATED"
      <3>1. "TransactionCompensated" \notin States
        BY DEF States
      <3> QED  BY <3>1, Different
    <2> HIDE DEF front
    <2>3. /\ Types' /\ Others(r) /\ Base(r)' /\ AskInv(r)'
          /\ Phase(r)' = Answer("503") /\ Front(todo[r])' = front
          /\ \A x : Due(r, x)' <=> Done(r, x) \/ x \in front
          /\ stage'[r] = "PROCESSING"
      BY <1>6, <1>8, <2>1
    <2>4. Announced(r)'
      BY <2>2, <2>3 DEF Announced
    <2>5. StageInv(r)'
      BY <1>1, <2>2, <2>3, <2>4, CompensatedStage
    <2>6. AuditInv(r)'
      BY <1>8, <1>9, <2>2, <2>3, NoteSay, Different DEF AuditInv
    <2> QED  BY <1>1, <2>3, <2>5, <2>6 DEF Local
  <1> QED  BY <1>2, <1>7, <1>8

LEMMA AskKeeps ==
    ASSUME NEW r \in Asks, Types, Local(r), AskStep(r), UNCHANGED storeVars
    PROVE  Types' /\ Local(r)' /\ Others(r)
  BY ReceiveAskKeeps, MakeModelKeeps, QueryInferKeep, AuditAskKeeps DEF AskStep

-----------------------------------------------------------------------------
(* The invariant of the whole. *)

LEMMA AdvanceKeeps ==
    ASSUME NEW r \in Requests, Types, Local(r), Advance(r)
    PROVE  Types' /\ Local(r)' /\ Others(r)
  BY LogKeeps, ReplyKeeps, IngestKeeps, PaymentKeeps, AskKeeps DEF Advance, Effect

\* A request is writing its audit record once all that was in front is done.
LEMMA WritingFacts ==
    ASSUME NEW r \in Requests, Base(r)
    PROVE  Writing(r) <=> Phase(r).op \in AuditOps /\ Front(todo[r]) = {}
  <1>1. CASE todo[r] = << >>
    BY <1>1, NoteSay DEF Writing, Phase, AuditOps
  <1>2. CASE todo[r] # << >>
    <2>1. Script(todo[r]) /\ Phase(r) = LastOf(todo[r])
      BY <1>2 DEF Base, Phase
    <2>2. AuditOps \cap FrontOps = {}
      BY DEF AuditOps, FrontOps
    <2> QED  BY <1>2, <2>1, <2>2, HeadOfScript DEF Writing
  <1> QED  BY <1>1, <1>2

LEMMA ArrivalKeeps ==
    ASSUME NEW r \in Requests, Types, Local(r), RecordArrives(r), UNCHANGED storeVars
    PROVE  Types' /\ Local(r)' /\ Others(r)
  <1>1. /\ up' = up /\ todo' = todo /\ log' = log /\ stage' = stage /\ reply' = reply
        /\ vector' = vector /\ search' = search /\ raised' = raised
        /\ audited' = audited \cup {r}
    BY DEF RecordArrives, told, storeVars
  <1>2. Types'
    BY <1>1 DEF Types
  <1>3. Others(r)
    BY <1>1 DEF Others, Same
  <1>4. Phase(r)' = Phase(r) /\ Front(todo[r])' = Front(todo[r])
    BY <1>1 DEF Phase
  <1>5. \A x : (Done(r, x)' <=> Done(r, x)) /\ (Due(r, x)' <=> Due(r, x))
    BY <1>1, <1>4 DEF Done, Due
  <1>6. Base(r)' /\ StageInv(r)'
    BY <1>1, <1>4, <1>5 DEF Local, Base, StageInv, Silent, Tells, Announced
  <1>7. r \in Ingests => IngestInv(r)'
    BY <1>1, <1>4, <1>5 DEF Local, IngestInv, Untouched, Complete
  <1>8. (r \in Payments => PaymentInv(r)') /\ (r \in Asks => AskInv(r)')
    BY <1>4, <1>5 DEF Local, PaymentInv, AskInv
  <1>9. r \in Audits => AuditInv(r)'
    <2>1. r \in raised \/ (Phase(r).op \in AuditOps /\ Front(todo[r]) = {})
      BY WritingFacts DEF RecordArrives, Local
    <2> QED  BY <1>1, <1>4, <1>5, <2>1 DEF Local, AuditInv
  <1> QED  BY <1>2, <1>3, <1>6, <1>7, <1>8, <1>9 DEF Local

LEMMA InitIInv == Init => IInv
  <1> SUFFICES ASSUME Init PROVE IInv
    OBVIOUS
  <1> USE DEF Init
  <1>1. ASSUME NEW r \in Requests
        PROVE  /\ Step(Entry(r), "request") \in Steps
               /\ Entry(r) \in {"receive_ingest", "receive_payment", "receive_ask"}
               /\ Step(Entry(r), "request").op \notin FrontOps
    <2>1. Entry(r) \in {"receive_ingest", "receive_payment", "receive_ask"}
      BY DEF Entry
    <2>2. Entry(r) \in LastOps /\ "request" \in Names
      BY <2>1 DEF LastOps, Names
    <2> QED  BY <2>1, <2>2, StepFacts, OpsSplit, OpsDisjoint, NamesAreArgs
  <1>2. Types
    <2>1. todo \in [Requests -> Seq(Steps)]
      BY <1>1
    <2>2. log \in [Requests -> Seq(Entries)]
      OBVIOUS
    <2>3. reply \in [Requests -> Replies]
      BY DEF Replies
    <2> QED  BY <2>1, <2>2, <2>3 DEF Types
  <1>3. ASSUME NEW r \in Requests PROVE Local(r)
    <2> DEFINE x == Step(Entry(r), "request")
    <2>1. x \in Steps /\ x.op \notin FrontOps /\ x.op = Entry(r)
      BY <1>1, StepFacts
    <2>2. Script(<<x>>) /\ Front(<<x>>) = {} /\ LastOf(<<x>>) = x
      BY <2>1, OneStep
    <2>20. todo[r] = <<x>>
      OBVIOUS
    <2>3. todo[r] # << >> /\ log[r] = << >> /\ stage[r] = "INITIALIZED"
          /\ reply[r] = "none" /\ r \notin audited /\ r \notin raised /\ r \notin vector
          /\ r \in Ingests => search[r] = {}
      OBVIOUS
    <2> HIDE DEF x
    <2>4. Phase(r) = x /\ Front(todo[r]) = {} /\ Script(todo[r])
      <3>1. Front(todo[r]) = {} /\ Script(todo[r]) /\ LastOf(todo[r]) = x
        BY ONLY <2>2, <2>20, Zenon
      <3> QED  BY <2>3, <3>1 DEF Phase
    <2>5. \A y : ~ Done(r, y) /\ ~ Due(r, y)
      BY <2>3, <2>4 DEF Done, Due
    <2>6. Base(r)
      BY <1>1, <2>1, <2>3, <2>4 DEF Base
    <2>7. StageInv(r)
      BY <1>1, <2>1, <2>3, <2>4 DEF StageInv, Silent
    <2>8. r \in Ingests => IngestInv(r)
      <3> SUFFICES ASSUME r \in Ingests PROVE IngestInv(r)
        OBVIOUS
      <3>1. x = Step("receive_ingest", "request") /\ x.op = "receive_ingest"
        BY <2>1 DEF x, Entry
      <3> QED  BY <2>3, <2>4, <3>1, Different DEF IngestInv, Untouched
    <2>9. r \in Payments => PaymentInv(r)
      <3> SUFFICES ASSUME r \in Payments PROVE PaymentInv(r)
        OBVIOUS
      <3>1. x = Step("receive_payment", "request")
        BY OneRoute DEF x, Entry
      <3> QED  BY <2>4, <2>5, <3>1 DEF PaymentInv
    <2>10. r \in Asks => AskInv(r)
      <3> SUFFICES ASSUME r \in Asks PROVE AskInv(r)
        OBVIOUS
      <3>1. x = Step("receive_ask", "request")
        BY OneRoute DEF x, Entry
      <3> QED  BY <2>4, <3>1, StepFacts DEF AskInv
    <2>11. AuditInv(r)
      <3>1. Phase(r).op \notin {"delete", "reply"}
        BY <1>1, <2>1, <2>4
      <3> QED  BY <2>3, <2>5, <3>1, NoteSay DEF AuditInv
    <2> QED  BY <2>6, <2>7, <2>8, <2>9, <2>10, <2>11 DEF Local
  <1> QED  BY <1>2, <1>3 DEF IInv

LEMMA NextIInv == IInv /\ [Next]_vars => IInv'
  <1> SUFFICES ASSUME IInv, [Next]_vars PROVE IInv'
    OBVIOUS
  <1>1. Types /\ \A r \in Requests : Local(r)
    BY DEF IInv
  <1>2. ASSUME NEW r \in Requests, Advance(r) PROVE IInv'
    <2>1. Types' /\ Local(r)' /\ Others(r)
      BY <1>1, <1>2, AdvanceKeeps
    <2>2. \A q \in Requests \ {r} : Local(q)'
      BY <1>1, <2>1, SameKeeps DEF Others
    <2> QED  BY <2>1, <2>2 DEF IInv
  <1>3. ASSUME UNCHANGED <<told, todo, audit, reply, storeVars>>, up' \in BOOLEAN
        PROVE  IInv'
    <2>1. /\ todo' = todo /\ log' = log /\ stage' = stage /\ reply' = reply
          /\ audited' = audited /\ raised' = raised /\ vector' = vector /\ search' = search
      BY <1>3 DEF told, audit, storeVars
    <2>2. Types'
      BY <1>1, <1>3, <2>1 DEF Types
    <2>3. \A q \in Requests : Same(q)
      BY <2>1 DEF Same
    <2> QED  BY <1>1, <2>2, <2>3, SameKeeps DEF IInv
  <1>4. CASE Crash /\ UNCHANGED storeVars
    BY <1>3, <1>4 DEF Crash
  <1>5. CASE UNCHANGED vars
    <2>1. up' \in BOOLEAN
      BY <1>1, <1>5 DEF Types, vars, effectVars
    <2> QED  BY <1>3, <1>5, <2>1 DEF vars, effectVars
  <1>6. ASSUME NEW r \in Audits, RecordArrives(r), UNCHANGED storeVars PROVE IInv'
    BY <1>1, <1>6, OneRoute, ArrivalKeeps, SameKeeps DEF IInv, Others
  <1> QED  BY <1>2, <1>4, <1>5, <1>6 DEF Next


-----------------------------------------------------------------------------
(* What the invariant says of the requests that were answered. *)

LEMMA Settled ==
    ASSUME IInv, NEW r \in Requests, reply[r] # "none"
    PROVE  /\ Phase(r) = Answer(reply[r]) /\ Front(todo[r]) = {} /\ Local(r)
           /\ Phase(r).op = "reply" /\ Phase(r).arg = reply[r]
           /\ \A x : Due(r, x) <=> Done(r, x)
  <1>1. Local(r) /\ todo[r] = << >>
    BY DEF IInv, Local, Base
  <1>2. Phase(r) = Answer(reply[r]) /\ Front(todo[r]) = {}
    BY <1>1, FrontOfEmpty DEF Phase
  <1> QED  BY <1>1, <1>2, NoteSay DEF Due

LEMMA SaidIsPublished ==
    ASSUME NEW r, NEW x
    PROVE  Done(r, Say(x)) <=> Published(r, x)
  <1>1. \A y : Note(y) # Say(x)
    BY NoteSay
  <1>2. Say(x).op = "publish" /\ Say(x) = Step("publish", x)
    BY NoteSay DEF Say
  <1> QED  BY <1>1, <1>2 DEF Done, Tried, Logged, Published

LEMMA NotedIsRecordedOrLost ==
    ASSUME NEW r \in Requests, Types, NEW x \in Owners, Done(r, Note(x))
    PROVE  Logged(r, "record", x) \/ Logged(r, "lost", x)
  <1>1. PICK i \in 1..Len(log[r]) : Tried(log[r][i]) = Note(x)
    BY DEF Done
  <1>2. log[r][i] \in Entries
    BY ElementOfSeq DEF Types
  <1>3. log[r][i].op # "publish"
    BY <1>1, NoteSay DEF Tried
  <1>4. log[r][i].arg = x
    BY <1>1, <1>3, NoteSay DEF Tried
  <1>5. log[r][i].op \in {"record", "lost"}
    BY <1>2, <1>3, <1>4 DEF Entries
  <1>6. log[r][i] = Step(log[r][i].op, x)
    BY <1>2, <1>4 DEF Entries, Step
  <1> QED  BY <1>5, <1>6 DEF Logged

\* Every run of RequestMesh keeps the inductive invariant.
THEOREM Invariance == Spec => []IInv
  BY InitIInv, NextIInv, PTL DEF Spec, Safe

\* The stores and histories of the routes keep their types.
THEOREM RoutesTyped == Spec => []TypeOK
  <1>1. ASSUME IInv PROVE TypeOK
    <2>1. Types
      BY <1>1 DEF IInv
    <2>2. \A r \in Requests : \A i \in 1..Len(log[r]) :
             log[r][i].op \in {"record", "lost", "tried", "publish"}
      <3> SUFFICES ASSUME NEW r \in Requests, NEW i \in 1..Len(log[r])
                   PROVE  log[r][i].op \in {"record", "lost", "tried", "publish"}
        OBVIOUS
      <3>1. log[r][i] \in Entries
        BY <2>1, ElementOfSeq DEF Types
      <3> QED  BY <3>1 DEF Entries
    <2> QED  BY <2>1, <2>2 DEF Types, TypeOK
  <1> QED  BY <1>1, Invariance, PTL

\* An ingest is answered 200 (app/main.py: ingest) only with its chunks in
\* both backends and its audit record stored, for any number of requests and
\* chunks and however the calls fail.
THEOREM SuccessIsComplete == Spec => []SuccessMeansBoth
  <1>1. ASSUME IInv, NEW r \in Ingests, reply[r] = "200" PROVE Complete(r) /\ r \in audited
    <2>1. r \in Requests /\ reply[r] # "none"
      BY <1>1, OneRoute
    <2>2. Phase(r) = Answer("200") /\ Local(r)
      BY <1>1, <2>1, Settled
    <2>3. r \in Audits
      BY OneRoute
    <2> QED  BY <2>2, <2>3 DEF Local, IngestInv, AuditInv
  <1>2. IInv => SuccessMeansBoth
    BY <1>1 DEF SuccessMeansBoth
  <1> QED  BY <1>2, Invariance, PTL

\* What a failed ingest leaves in a backend is owned by a record of the
\* store's failure, in the add or in the rollback, or the sink failed that record
\* too (of a rollback, after the audit record) and IngestionCompensated is out.
THEOREM LeftoversHaveOwners == Spec => []LeftoversOwned
  <1>1. ASSUME IInv, NEW r \in Ingests, reply[r] \notin {"none", "200"}, Indexed(r)
        PROVE  Owned(r) \/ (OwnerLost(r) /\ Published(r, "IngestionCompensated"))
    <2>1. r \in Requests /\ r \in Audits /\ Types
      BY <1>1, OneRoute DEF IInv
    <2>2. /\ Phase(r) = Answer(reply[r]) /\ Front(todo[r]) = {}
          /\ IngestInv(r) /\ AuditInv(r)
          /\ Phase(r).op = "reply" /\ \A x : Due(r, x) <=> Done(r, x)
      BY <1>1, <2>1, Settled DEF Local
    <2>3. Phase(r) \in {Answer("500"), Answer("502"), Answer("503")}
      <3>1. Phase(r) # Answer("200")
        BY <1>1, <2>2, Different
      <3> QED  BY <2>2, <3>1, Different DEF IngestInv
    <2>7. Published(r, "IngestionCompensated")
      BY <2>2, <2>3, SaidIsPublished DEF IngestInv
    <2>4. CASE Phase(r) = Answer("500")
      BY <1>1, <2>2, <2>4 DEF IngestInv, Untouched, Indexed
    <2>5. CASE Phase(r) = Answer("502")
      <3>1. Done(r, Note("STORE_ADD_FAILED"))
        BY <2>2, <2>5 DEF IngestInv
      <3> QED  BY <2>1, <2>7, <3>1, NotedIsRecordedOrLost DEF Owned, OwnerLost, Owners
    <2>6. CASE Phase(r) = Answer("503")
      <3>1. Done(r, Note("ROLLBACK_FAILED")) \/ (r \notin vector /\ search[r] = {})
        <4>1. search[r] \subseteq 1..Chunks
          BY <1>1 DEF IInv, Types
        <4> QED  BY <2>2, <2>6, <4>1 DEF IngestInv
      <3>2. Done(r, Note("ROLLBACK_FAILED")) /\ r \in raised
        BY <1>1, <2>2, <2>6, <3>1 DEF Indexed, AuditInv
      <3> QED  BY <2>1, <2>7, <3>2, NotedIsRecordedOrLost DEF Owned, OwnerLost, Owners
    <2> QED  BY <2>3, <2>4, <2>5, <2>6
  <1>2. IInv => LeftoversOwned
    BY <1>1 DEF LeftoversOwned
  <1> QED  BY <1>2, Invariance, PTL

\* Wherever the process dies, what an ingest has put into a backend was
\* announced before, and its audit record is of a complete ingest or of one
\* whose write seemed to fail, which its handler takes back.
THEOREM CrashesLeaveTrails == Spec => []CrashLeavesTrail
  <1>1. ASSUME IInv, NEW r \in Ingests
        PROVE  /\ Indexed(r) => Published(r, "PROCESSING") /\ Published(r, "TelemetryIngested")
               /\ r \in audited => Complete(r) \/ r \in raised
    <2>1. r \in Requests
      BY OneRoute
    <2>2. Local(r) /\ IngestInv(r)
      BY <1>1, <2>1 DEF IInv, Local
    <2>3. /\ Phase(r).op \in {"receive_ingest", "split", "add", "audit", "delete"}
             \/ Phase(r) \in {Answer("200"), Answer("500"), Answer("502"), Answer("503")}
      BY <2>2, StepFacts DEF IngestInv
    <2>4. ASSUME Indexed(r)
          PROVE  Published(r, "PROCESSING") /\ Published(r, "TelemetryIngested")
      <3>1. ~ Untouched(r)
        BY <2>4 DEF Untouched, Indexed
      <3>2. Done(r, Say("PROCESSING")) /\ Done(r, Say("TelemetryIngested"))
        BY <2>2, <2>3, <3>1 DEF IngestInv
      <3> QED  BY <3>2, SaidIsPublished
    <2>5. ASSUME r \in audited PROVE Complete(r) \/ r \in raised
      <3>1. AuditInv(r)
        BY <2>2, OneRoute DEF Local
      <3>2. Complete(r) \/ Phase(r) = Answer("503")
        <4>1. CASE Phase(r).op \in AuditOps /\ Front(todo[r]) = {}
          <5>1. Phase(r).op = "audit"
            BY <2>3, <4>1, NoteSay DEF AuditOps
          <5>2. r \in vector /\ 1..Chunks \subseteq search[r]
            BY <2>2, <4>1, <5>1 DEF IngestInv
          <5>3. search[r] \subseteq 1..Chunks
            BY <1>1 DEF IInv, Types
          <5> QED  BY <5>2, <5>3 DEF Complete
        <4> QED  BY <2>2, <2>5, <3>1, <4>1 DEF AuditInv, IngestInv
      <3> QED  BY <3>1, <3>2 DEF AuditInv
    <2> QED  BY <2>4, <2>5
  <1>2. IInv => CrashLeavesTrail
    BY <1>1 DEF CrashLeavesTrail
  <1> QED  BY <1>2, Invariance, PTL

\* A request that was answered after COMPENSATED has published its
\* compensating event, on every route but the payment that was never tokenized.
THEOREM FailuresAreAnnounced == Spec => []FailuresAnnounced
  <1>1. ASSUME IInv, NEW r \in Requests, reply[r] # "none", stage[r] = "COMPENSATED",
               r \in Payments => Published(r, "PaymentTransactionIngested")
        PROVE  CompensatingEvent(r)
    <2>1. /\ Front(todo[r]) = {} /\ StageInv(r)
          /\ Phase(r).op = "reply" /\ \A x : Due(r, x) <=> Done(r, x)
      BY <1>1, Settled DEF Local
    <2>2. Announced(r)
      BY <1>1, <2>1 DEF StageInv, Tells, Silent
    <2> QED  BY <1>1, <2>1, <2>2, SaidIsPublished DEF Announced, CompensatingEvent
  <1>2. IInv => FailuresAnnounced
    BY <1>1 DEF FailuresAnnounced
  <1> QED  BY <1>2, Invariance, PTL

-----------------------------------------------------------------------------
(* What the events of a request tell, at the moment they are published.      *)

\* IngestionCompensated, where a script has it, is said just before the answer.
Closes(s) == \A i \in 1..Len(s) : s[i] = Say("IngestionCompensated") => i = Len(s) - 1

Failed == {Answer("500"), Answer("502"), Answer("503")}

\* Once it is said, nothing is left to do but to answer with a failure.
SaidLast(r) ==
    /\ Closes(todo[r])
    /\ Due(r, Say("IngestionCompensated")) => Phase(r) \in Failed
    /\ Done(r, Say("IngestionCompensated")) => Front(todo[r]) = {}

SaidLastByAll == \A r \in Ingests : SaidLast(r)

LEMMA ClosesAfter ==
    ASSUME NEW a \in Seq(Steps), NEW b \in Seq(Steps), Closes(b),
           \A i \in 1..Len(a) : a[i] # Say("IngestionCompensated")
    PROVE  Closes(a \o b)
  <1> DEFINE c == a \o b
             m == Len(a)
             n == Len(b)
  <1>1. /\ m \in Nat /\ n \in Nat /\ Len(c) = m + n
        /\ \A i \in 1..m + n : c[i] = IF i <= m THEN a[i] ELSE b[i - m]
    BY LenProperties, ConcatProperties
  <1> SUFFICES ASSUME NEW i \in 1..Len(c), c[i] = Say("IngestionCompensated")
               PROVE  i = Len(c) - 1
    BY DEF Closes
  <1>2. \A j \in 1..m : a[j] # Say("IngestionCompensated")
    OBVIOUS
  <1>3. \A j \in 1..n : b[j] = Say("IngestionCompensated") => j = n - 1
    BY DEF Closes
  <1> HIDE DEF c, m, n
  <1>4. i \in Nat /\ i <= m + n /\ i >= 1
    BY <1>1
  <1>5. ~ (i <= m)
    <2>1. i <= m => i \in 1..m /\ c[i] = a[i]
      BY <1>1, <1>4
    <2> QED  BY <1>2, <2>1
  <1>6. i - m \in 1..n /\ c[i] = b[i - m]
    BY <1>1, <1>4, <1>5
  <1>7. i - m = n - 1
    BY <1>3, <1>6
  <1> QED  BY <1>1, <1>4, <1>7

\* A script that does not say it.
LEMMA ClosesUnsaid ==
    ASSUME NEW s, NEW front, NEW last, Reads(s, front, last),
           Say("IngestionCompensated") \notin front
    PROVE  Closes(s)
  <1> SUFFICES ASSUME NEW i \in 1..Len(s), s[i] = Say("IngestionCompensated") PROVE FALSE
    BY DEF Closes
  <1>1. Script(s) /\ s[i].op \in FrontOps
    BY NoteSay DEF Reads
  <1>2. i # Len(s) /\ Len(s) \in Nat
    BY <1>1, LenProperties DEF Script
  <1>3. i \in 1..(Len(s) - 1)
    BY <1>2
  <1> QED  BY <1>3 DEF Reads, Front

LEMMA CompensatedCloses ==
    ASSUME NEW reason \in Names, reason # "COMPENSATED", NEW code \in Names
    PROVE  Compensated(reason, code) \in Seq(Steps) /\ Closes(Compensated(reason, code))
  <1> DEFINE a == Transition("COMPENSATED")
             b == <<Note(reason), Say("IngestionCompensated"), Answer(code)>>
  <1>1. /\ {"COMPENSATED", "IngestionCompensated"} \subseteq Names
        /\ Note("COMPENSATED") # Say("IngestionCompensated")
        /\ Say("COMPENSATED") # Say("IngestionCompensated")
    BY Different DEF Names
  <1>2. a \in Seq(Steps) /\ \A i \in 1..Len(a) : a[i] # Say("IngestionCompensated")
    BY <1>1, NoteSay DEF Transition
  <1>3. b \in Seq(Steps) /\ Len(b) = 3 /\ b[1] = Note(reason) /\ b[3] = Answer(code)
    BY <1>1, NoteSay
  <1>4. /\ Note(reason) # Say("IngestionCompensated")
        /\ Answer(code) # Say("IngestionCompensated")
    BY NoteSay
  <1> HIDE DEF a, b
  <1>5. Closes(b)
    BY <1>3, <1>4 DEF Closes
  <1>6. Closes(a \o b) /\ a \o b \in Seq(Steps)
    BY <1>2, <1>3, <1>5, ClosesAfter, ConcatProperties
  <1> QED  BY <1>6 DEF Compensated, a, b

LEMMA RollbackCloses ==
    /\ Closes(RollbackFailed)
    /\ Closes(EachChunk("unindex") \o AuditWriteFailed)
  <1>1. /\ {"ROLLBACK_FAILED", "AUDIT_WRITE_FAILED", "503"} \subseteq Names
        /\ Note("ROLLBACK_FAILED") # Say("IngestionCompensated")
    BY Different DEF Names
  <1>2. AuditWriteFailed \in Seq(Steps) /\ Closes(AuditWriteFailed)
    BY <1>1, CompensatedCloses DEF AuditWriteFailed
  <1>3. Closes(RollbackFailed)
    <2> DEFINE a == <<Note("ROLLBACK_FAILED")>>
    <2>1. a \in Seq(Steps) /\ \A i \in 1..Len(a) : a[i] # Say("IngestionCompensated")
      BY <1>1, NoteSay
    <2> HIDE DEF a
    <2>2. Closes(a \o AuditWriteFailed)
      BY <1>2, <2>1, ClosesAfter
    <2> QED  BY <2>2 DEF RollbackFailed, a
  <1>4. Closes(EachChunk("unindex") \o AuditWriteFailed)
    <2> DEFINE a == EachChunk("unindex")
    <2>1. "unindex" \in Ops
      BY OpsSplit DEF FrontOps
    <2>2. \A i \in 1..Chunks : /\ Step("unindex", i) \in Steps
                                /\ Step("unindex", i) # Say("IngestionCompensated")
      BY <2>1, StepFacts, Different, RoutesPartition DEF Args
    <2>3. /\ a \in Seq(Steps) /\ Len(a) = Chunks
          /\ \A i \in 1..Chunks : a[i] = Step("unindex", i)
      BY <2>2, RoutesPartition DEF EachChunk
    <2> HIDE DEF a
    <2>4. \A i \in 1..Len(a) : a[i] # Say("IngestionCompensated")
      BY <2>2, <2>3
    <2> QED  BY <1>2, <2>3, <2>4, ClosesAfter DEF a
  <1> QED  BY <1>3, <1>4

\* A step that goes on with another script, before the event was said.
LEMMA GoesOn ==
    ASSUME NEW r \in Ingests, Types, Local(r), NEW op, At(r, op), Quiet,
           ~ Done(r, Say("IngestionCompensated")),
           NEW new, NEW front, NEW last, Reads(new, front, last), Continue(r, new),
           last.op = "reply" => last.arg \in Codes,
           \/ Say("IngestionCompensated") \notin front
           \/ Closes(new) /\ last \in Failed
    PROVE  SaidLast(r)'
  <1>1. r \in Requests /\ Base(r)
    BY OneRoute DEF Local
  <1>2. /\ Phase(r)' = last /\ Front(todo[r])' = front
        /\ ~ Done(r, Say("IngestionCompensated"))'
        /\ \A x : Due(r, x)' <=> Done(r, x) \/ x \in front
    BY <1>1, ContinueFacts DEF Quiet
  <1>3. todo'[r] = new
    BY <1>1 DEF Continue, Types
  <1>4. Closes(new)
    BY ClosesUnsaid
  <1> QED  BY <1>2, <1>3, <1>4 DEF SaidLast

\* A step in front of the others that is done.
LEMMA GoesDown ==
    ASSUME NEW r \in Ingests, Types, Local(r), SaidLast(r),
           RecordEffect(r) \/ PublishEffect(r)
             \/ (Quiet /\ Continue(r, Tail(todo[r])) /\ (At(r, "index") \/ At(r, "unindex")))
    PROVE  SaidLast(r)'
  <1> DEFINE h == Head(todo[r])
  <1>1. r \in Requests /\ Base(r)
    BY OneRoute DEF Local
  <1>2. {"index", "unindex", "record", "publish"} \subseteq FrontOps
    BY DEF FrontOps
  <1>3. \E op \in {"index", "unindex", "record", "publish"} : At(r, op)
    BY DEF RecordEffect, PublishEffect
  <1>4. /\ todo[r] # << >> /\ Script(todo[r]) /\ h \in Front(todo[r])
        /\ Continue(r, Tail(todo[r]))
    BY <1>1, <1>2, <1>3, AtFacts DEF RecordEffect, PublishEffect
  <1>5. /\ Phase(r)' = Phase(r) /\ Front(todo[r])' = Front(todo[r]) \ {h}
        /\ \A x : Due(r, x)' => Due(r, x)
        /\ \A x : Done(r, x)' => Done(r, x) \/ x = h
    <2>1. CASE RecordEffect(r) \/ PublishEffect(r)
      BY <1>1, <2>1, LogFacts
    <2>2. ASSUME Quiet, NEW op \in {"index", "unindex"}, At(r, op)
          PROVE  /\ Phase(r)' = Phase(r) /\ Front(todo[r])' = Front(todo[r]) \ {h}
                 /\ \A x : Done(r, x)' <=> Done(r, x)
      <3>1. op \in FrontOps /\ op \notin {"record", "publish"}
        BY <1>2
      <3> QED  BY <1>1, <1>4, <2>2, <3>1, CallFacts DEF Quiet
    <2> QED  BY <2>1, <2>2 DEF Due
  <1>6. ~ Done(r, Say("IngestionCompensated"))
    BY <1>4 DEF SaidLast
  <1> DEFINE t == Tail(todo[r])
             n == Len(todo[r])
  <1>7. /\ todo'[r] = t /\ n \in Nat /\ n > 0 /\ Len(t) = n - 1
        /\ h = todo[r][1] /\ \A i \in 1..(n - 1) : t[i] = todo[r][i + 1]
    <2>1. todo[r] \in Seq(Steps)
      BY <1>4 DEF Script
    <2>2. todo'[r] = t
      BY <1>1, <1>4 DEF Continue, Types
    <2> QED  BY <1>4, <2>1, <2>2, LenProperties, HeadTailProperties, EmptySeq
  <1>8. \A i \in 1..n : todo[r][i] = Say("IngestionCompensated") => i = n - 1
    BY DEF SaidLast, Closes
  <1> HIDE DEF h, t, n
  <1>9. Closes(t)
    <2> SUFFICES ASSUME NEW i \in 1..(n - 1), t[i] = Say("IngestionCompensated")
                 PROVE  i = n - 2
      BY <1>7 DEF Closes
    <2>1. i + 1 \in 1..n /\ todo[r][i + 1] = Say("IngestionCompensated")
      BY <1>7
    <2> QED  BY <1>7, <1>8, <2>1
  <1>10. h = Say("IngestionCompensated") => Front(t) = {}
    <2>1. ASSUME h = Say("IngestionCompensated") PROVE Front(t) = {}
      <3>1. 1 \in 1..n
        BY <1>7
      <3>2. todo[r][1] = Say("IngestionCompensated") /\ n \in Nat
        BY <1>7, <2>1
      <3>3. n = 2
        BY <1>8, <3>1, <3>2
      <3> QED  BY <1>7, <3>3 DEF Front
    <2> QED  BY <2>1
  <1> QED  BY <1>5, <1>6, <1>7, <1>9, <1>10 DEF SaidLast

\* The ingest route says the event last on each of its ways to fail.
LEMMA IngestSaysLast ==
    ASSUME NEW r \in Ingests, Types, Local(r), SaidLast(r), IngestStep(r)
    PROVE  SaidLast(r)'
  <1>1. r \in Requests /\ Base(r) /\ IngestInv(r)
    BY OneRoute DEF Local
  <1>2. /\ {"STORE_ADD_FAILED", "UNHANDLED_FAILURE", "chunks", "document", "TelemetryIngested",
            "500", "502"} \subseteq Names
        /\ {"add", "delete", "split", "receive_ingest", "audit"} \subseteq LastOps
        /\ Codes = {"200", "500", "502", "503"}
        /\ {"index", "unindex"} \subseteq FrontOps
    BY DEF Names, LastOps, Codes, FrontOps
  <1>3. \A x : Answer(x).op = "reply" /\ Answer(x).arg = x
    BY NoteSay
  <1>4. ASSUME NEW op, At(r, op), op \notin FrontOps \cup {"reply"}
        PROVE  ~ Done(r, Say("IngestionCompensated"))
    <2>1. Phase(r).op = op
      BY <1>1, <1>4, AtFacts
    <2>2. Phase(r) \notin Failed
      BY <1>3, <1>4, <2>1 DEF Failed
    <2> QED  BY <2>2 DEF SaidLast, Due
  <1>5. ASSUME NEW op, At(r, op), op \in FrontOps
        PROVE  ~ Done(r, Say("IngestionCompensated"))
    <2>1. Head(todo[r]) \in Front(todo[r])
      BY <1>1, <1>5, AtFacts
    <2> QED  BY <2>1 DEF SaidLast
  <1>6. {"add", "delete", "split", "receive_ingest", "audit"} \cap (FrontOps \cup {"reply"}) = {}
    BY DEF FrontOps
  <1>7. CASE ReceiveIngest(r)
    <2>1. At(r, "receive_ingest") /\ Quiet
          /\ Continue(r, Transition("PROCESSING") \o <<Step("split", "document")>>)
      BY <1>7 DEF ReceiveIngest, Quiet, told
    <2>2. Step("split", "document").op # "reply"
      BY StepFacts
    <2>3. Say("IngestionCompensated") \notin {Note("PROCESSING"), Say("PROCESSING")}
      BY Different
    <2> QED  BY <1>2, <1>4, <1>6, <2>1, <2>2, <2>3, BeginningReads, GoesOn
  <1>8. CASE Split(r)
    <2>1. At(r, "split") /\ Quiet /\ ~ Done(r, Say("IngestionCompensated"))
      BY <1>4, <1>6, <1>8 DEF Split, Quiet, told
    <2>2. CASE Continue(r, <<Say("TelemetryIngested"), Step("add", "chunks")>>)
      <3>1. /\ Step("add", "chunks") \in Steps /\ Step("add", "chunks").op \notin FrontOps
            /\ Step("add", "chunks").op # "reply"
        BY <1>2, StepFacts, OpsSplit, OpsDisjoint, NamesAreArgs
      <3>2. Reads(<<Say("TelemetryIngested"), Step("add", "chunks")>>,
                  {Say("TelemetryIngested")}, Step("add", "chunks"))
        BY <1>2, <3>1, NoteSay, TwoSteps DEF Reads
      <3>3. Say("IngestionCompensated") \notin {Say("TelemetryIngested")}
        BY Different
      <3> QED  BY <2>1, <2>2, <3>1, <3>2, <3>3, GoesOn
    <2>3. CASE Continue(r, Compensated("UNHANDLED_FAILURE", "500"))
      <3>1. Answer("500") \in Failed /\ Answer("500").arg \in Codes
        BY <1>2, <1>3 DEF Failed
      <3>2. Closes(Compensated("UNHANDLED_FAILURE", "500"))
        BY <1>2, CompensatedCloses
      <3> QED  BY <1>2, <2>1, <2>3, <3>1, <3>2, CompensatedReads, GoesOn
    <2> QED  BY <1>8, <2>2, <2>3 DEF Split
  <1>9. ASSUME Quiet, ~ Done(r, Say("IngestionCompensated")), NEW op, At(r, op),
               Continue(r, StoreAddFailed)
        PROVE  SaidLast(r)'
    <2>1. Answer("502") \in Failed /\ Answer("502").arg \in Codes
      BY <1>2, <1>3 DEF Failed
    <2>2. /\ Closes(StoreAddFailed)
          /\ Reads(StoreAddFailed, {Note("COMPENSATED"), Say("COMPENSATED")}
                     \cup {Note("STORE_ADD_FAILED"), Say("IngestionCompensated")}, Answer("502"))
      BY <1>2, CompensatedCloses, CompensatedReads DEF StoreAddFailed
    <2> QED  BY <1>9, <2>1, <2>2, GoesOn
  <1>10. ASSUME Quiet, ~ Done(r, Say("IngestionCompensated")), NEW op, At(r, op),
                Continue(r, RollbackFailed) \/ Continue(r, EachChunk("unindex") \o AuditWriteFailed)
         PROVE  SaidLast(r)'
    <2>1. Answer("503") \in Failed /\ Answer("503").arg \in Codes
      BY <1>2, <1>3 DEF Failed
    <2> QED  BY <1>10, <2>1, RollbackCloses, RollbackFailedReads, UnindexingReads, GoesOn
  <1>11. CASE Add(r)
    <2>1. At(r, "add") /\ Quiet /\ ~ Done(r, Say("IngestionCompensated"))
      BY <1>4, <1>6, <1>11 DEF Add, Quiet, told
    <2>2. CASE Continue(r, EachChunk("index") \o <<Step("audit", "chunks")>>)
      <3>1. Step("audit", "chunks").op # "reply"
        BY StepFacts
      <3>2. Say("IngestionCompensated") \notin {Step("index", i) : i \in 1..Chunks} \cup {}
        BY Different
      <3> QED  BY <2>1, <2>2, <3>1, <3>2, IndexingReads, GoesOn
    <2> QED  BY <1>9, <1>11, <2>1, <2>2 DEF Add
  <1>12. CASE Index(r)
    <2>1. At(r, "index") /\ Quiet /\ ~ Done(r, Say("IngestionCompensated"))
      BY <1>2, <1>5, <1>12 DEF Index, Quiet, told
    <2> QED  BY <1>9, <1>12, <2>1, GoesDown DEF Index
  <1>13. CASE Audit(r)
    <2>1. At(r, "audit") /\ Quiet /\ ~ Done(r, Say("IngestionCompensated"))
      BY <1>4, <1>6, <1>13 DEF Audit, AuditWrite, Quiet, told
    <2>2. CASE Continue(r, Completed)
      <3>1. Answer("200").arg \in Codes
        BY <1>2, <1>3
      <3>2. /\ Say("IngestionCompensated") \notin {Note("COMPLETED"), Say("COMPLETED")}
                                                   \cup {Say("AuditRecordLogged")}
            /\ Reads(Completed, {Note("COMPLETED"), Say("COMPLETED")}
                                  \cup {Say("AuditRecordLogged")}, Answer("200"))
        BY Different, CompletedReads DEF Completed
      <3> QED  BY <2>1, <2>2, <3>1, <3>2, GoesOn
    <2>3. CASE Continue(r, <<Step("delete", "chunks")>>)
      <3>1. Step("delete", "chunks") \in Steps /\ Step("delete", "chunks").op \notin FrontOps
            /\ Step("delete", "chunks").op # "reply"
        BY <1>2, StepFacts, OpsSplit, OpsDisjoint, NamesAreArgs
      <3>2. Reads(<<Step("delete", "chunks")>>, {}, Step("delete", "chunks"))
        BY <3>1, OneStep DEF Reads
      <3> QED  BY <2>1, <2>3, <3>1, <3>2, GoesOn
    <2> QED  BY <1>13, <2>2, <2>3 DEF Audit, AuditWrite
  <1>14. CASE Delete(r)
    <2>1. At(r, "delete") /\ Quiet /\ ~ Done(r, Say("IngestionCompensated"))
      BY <1>4, <1>6, <1>14 DEF Delete, Quiet, told
    <2> QED  BY <1>10, <1>14, <2>1 DEF Delete
  <1>15. CASE Unindex(r)
    <2>1. At(r, "unindex") /\ Quiet /\ ~ Done(r, Say("IngestionCompensated"))
      BY <1>2, <1>5, <1>15 DEF Unindex, Quiet, told
    <2> QED  BY <1>10, <1>15, <2>1, GoesDown DEF Unindex
  <1> QED  BY <1>7, <1>8, <1>11, <1>12, <1>13, <1>14, <1>15 DEF IngestStep

LEMMA SaidLastKept ==
    IInv /\ SaidLastByAll /\ [Next]_vars => SaidLastByAll'
  <1> SUFFICES ASSUME IInv, \A q \in Ingests : SaidLast(q), [Next]_vars, NEW r \in Ingests
               PROVE  SaidLast(r)'
    BY DEF SaidLastByAll
  <1>1. /\ r \in Requests /\ r \notin Payments /\ r \notin Asks
        /\ Types /\ \A q \in Requests : Local(q)
    BY OneRoute DEF IInv
  <1>2. ASSUME todo'[r] = todo[r], log'[r] = log[r], reply'[r] = reply[r] PROVE SaidLast(r)'
    BY <1>2 DEF SaidLast, Closes, Due, Done, Phase
  <1>3. ASSUME NEW q \in Requests, Advance(q), q # r PROVE SaidLast(r)'
    <2>1. Same(r)
      BY <1>1, <1>3, AdvanceKeeps DEF Others
    <2> QED  BY <1>2, <2>1 DEF Same
  <1>4. CASE Advance(r)
    <2>1. CASE RecordEffect(r) \/ PublishEffect(r)
      BY <1>1, <2>1, GoesDown
    <2>2. CASE ReplyEffect(r)
      <3>1. /\ Phase(r)' = Phase(r) /\ Front(todo[r])' = {}
            /\ \A x : Due(r, x)' <=> Due(r, x)
        BY <1>1, <2>2, ReplyFacts DEF Local
      <3>2. todo'[r] = << >>
        BY <1>1, <2>2 DEF ReplyEffect, Continue, Types
      <3>3. Closes(todo[r])'
        BY <3>2 DEF Closes
      <3> QED  BY <3>1, <3>3 DEF SaidLast
    <2>3. CASE IngestStep(r)
      BY <1>1, <2>3, IngestSaysLast
    <2> QED  BY <1>1, <1>4, <2>1, <2>2, <2>3 DEF Advance, Effect
  <1>5. CASE Crash
    BY <1>2, <1>5 DEF Crash, told
  <1>6. CASE \E q \in Audits : RecordArrives(q)
    BY <1>2, <1>6 DEF RecordArrives, told
  <1>7. CASE UNCHANGED vars
    BY <1>2, <1>7 DEF vars, effectVars, told
  <1> QED  BY <1>3, <1>4, <1>5, <1>6, <1>7 DEF Next

LEMMA SaidLastInit == Init => SaidLastByAll
  <1> SUFFICES ASSUME Init, NEW r \in Ingests PROVE SaidLast(r)
    BY DEF SaidLastByAll
  <1>1. r \in Requests /\ Entry(r) = "receive_ingest"
    BY OneRoute DEF Entry
  <1>2. r \in Requests /\ todo[r] = <<Step("receive_ingest", "request")>> /\ log[r] = << >>
    BY <1>1, Zenon DEF Init
  <1>3. Front(todo[r]) = {}
    BY <1>2 DEF Front
  <1>4. Step("receive_ingest", "request") # Say("IngestionCompensated")
    BY StepFacts, NoteSay
  <1> QED  BY <1>2, <1>3, <1>4 DEF SaidLast, Closes, Due, Done

\* The events an ingest or a question publishes are true when they are
\* published, and stay so: COMPLETED and AuditRecordLogged of what is stored,
\* IngestionCompensated of leftovers whose record the sink holds, or has failed
\* (app/main.py: ingest, ask).
THEOREM EventsTellTheTruth == Spec => []EventsAreTrue
  <1>1. ASSUME IInv, NEW r \in Audits, ToldStored(r)
        PROVE  r \in audited /\ (r \in Ingests => Complete(r))
    <2>1. r \in Requests /\ r \notin Payments /\ (r \in Ingests \/ r \in Asks)
          /\ Local(r) /\ AuditInv(r) /\ StageInv(r) /\ Base(r)
      BY <1>1, OneRoute DEF IInv, Local
    <2>2. Phase(r) = Answer("200")
      <3>1. CASE Published(r, "AuditRecordLogged")
        BY <2>1, <3>1, SaidIsPublished DEF AuditInv, Due
      <3>2. CASE stage[r] = "COMPLETED"
        <4>1. Phase(r).op \in {"receive_ingest", "split", "add", "audit", "delete", "receive_ask",
                               "model", "query", "infer", "audit_ask", "reply"}
          BY <2>1, NoteSay, StepFacts DEF Local, IngestInv, AskInv
        <4>2. Phase(r).op = "reply" /\ Phase(r).arg = "200"
          BY <2>1, <3>2, <4>1 DEF StageInv, Silent, Tells
        <4>3. \A x : Answer(x).arg = x /\ Answer(x).op = "reply"
          BY NoteSay
        <4>4. \A o, x : Step(o, x).op = o
          BY StepFacts
        <4>5. r \in Ingests => Phase(r) = Answer("200")
          BY <2>1, <4>2, <4>3, <4>4 DEF Local, IngestInv
        <4>6. r \in Asks => Phase(r) = Answer("200")
          BY <2>1, <4>2, <4>3, <4>4 DEF Local, AskInv
        <4> QED  BY <2>1, <4>5, <4>6
      <3> QED  BY <1>1, <3>1, <3>2 DEF ToldStored
    <2> QED  BY <2>1, <2>2 DEF Local, IngestInv, AuditInv
  <1>2. ASSUME IInv, NEW r \in Ingests, SaidLast(r),
               Published(r, "IngestionCompensated"), Indexed(r)
        PROVE  Owned(r) \/ OwnerLost(r)
    <2>1. /\ r \in Requests /\ IngestInv(r) /\ AuditInv(r) /\ Types
          /\ search[r] \subseteq 1..Chunks
      BY <1>2, OneRoute DEF IInv, Local, Types
    <2>2. /\ Phase(r) \in Failed /\ Front(todo[r]) = {}
          /\ \A x : Due(r, x) <=> Done(r, x)
      BY <1>2, SaidIsPublished DEF SaidLast, Due
    <2>3. CASE Phase(r) = Answer("500")
      BY <1>2, <2>1, <2>3 DEF IngestInv, Untouched, Indexed
    <2>4. CASE Phase(r) = Answer("502")
      <3>1. Done(r, Note("STORE_ADD_FAILED"))
        BY <2>1, <2>2, <2>4 DEF IngestInv
      <3> QED  BY <2>1, <3>1, NotedIsRecordedOrLost DEF Owned, OwnerLost, Owners
    <2>5. CASE Phase(r) = Answer("503")
      <3>1. Done(r, Note("ROLLBACK_FAILED")) \/ (r \notin vector /\ search[r] = {})
        BY <2>1, <2>2, <2>5 DEF IngestInv
      <3>2. Done(r, Note("ROLLBACK_FAILED")) /\ r \in raised
        BY <1>2, <2>1, <2>5, <3>1 DEF Indexed, AuditInv
      <3> QED  BY <2>1, <3>2, NotedIsRecordedOrLost DEF Owned, OwnerLost, Owners
    <2> QED  BY <2>2, <2>3, <2>4, <2>5 DEF Failed
  <1>3. IInv /\ SaidLastByAll => EventsAreTrue
    BY <1>1, <1>2, OneRoute DEF EventsAreTrue, SaidLastByAll
  <1>4. Spec => [](IInv /\ SaidLastByAll)
    BY InitIInv, NextIInv, SaidLastInit, SaidLastKept, PTL DEF Spec, Safe
  <1> QED  BY <1>3, <1>4, PTL

\* What is answered is over: once the client has its answer, nothing in this
\* process touches the request's chunks, publishes or records for it or answers
\* it again.  Only its audit record may still arrive in the backend.
AnswersAreFinal ==
    [][\A r \in Requests :
          reply[r] # "none" =>
             /\ reply'[r] = reply[r] /\ todo'[r] = todo[r]
             /\ stage'[r] = stage[r] /\ log'[r] = log[r]
             /\ (r \in vector)' <=> r \in vector
             /\ r \in Ingests => search'[r] = search[r]]_vars

\* AnswersAreFinal, for any requests and chunks: each handler answers in its last
\* step, and no step of another request is about this one.
THEOREM AnswersStand == Spec => AnswersAreFinal
  <1>1. ASSUME IInv, [Next]_vars, NEW r \in Requests, reply[r] # "none"
        PROVE  Same(r) \/ \E q \in Audits : RecordArrives(q) /\ UNCHANGED storeVars
    <2>1. /\ Types /\ todo[r] = << >> /\ \A q \in Requests : Local(q)
      BY <1>1 DEF IInv, Local, Base
    <2>2. ~ Advance(r)
      BY <2>1 DEF Advance, Effect, RecordEffect, PublishEffect, ReplyEffect,
                  IngestStep, ReceiveIngest, Split, Add, Index, Audit, Delete, Unindex,
                  PaymentStep, ReceivePayment, Tokenize, Score,
                  AskStep, ReceiveAsk, MakeModel, Query, Infer, AuditAsk, AuditWrite, At
    <2>3. ASSUME NEW q \in Requests, Advance(q) PROVE Same(r)
      BY <2>1, <2>2, <2>3, AdvanceKeeps DEF Others
    <2>4. CASE Crash /\ UNCHANGED storeVars
      BY <2>4 DEF Crash, Same, told, audit, storeVars
    <2>5. CASE UNCHANGED vars
      BY <2>5 DEF vars, effectVars, Same, told, audit, storeVars
    <2> QED  BY <1>1, <2>3, <2>4, <2>5 DEF Next
  <1>2. IInv /\ [Next]_vars =>
          \A r \in Requests :
             reply[r] # "none" =>
                /\ reply'[r] = reply[r] /\ todo'[r] = todo[r]
                /\ stage'[r] = stage[r] /\ log'[r] = log[r]
                /\ (r \in vector)' <=> r \in vector
                /\ r \in Ingests => search'[r] = search[r]
    BY <1>1 DEF Same, RecordArrives, told, storeVars
  <1> QED  BY <1>2, Invariance, PTL DEF AnswersAreFinal, Spec, Safe

-----------------------------------------------------------------------------
(* Every route is a lifecycle of RequestLifecycle: its steps but three kinds *)
(* leave the lifecycle as it is.                                             *)

\* What a step may do to its request's lifecycle.
Moves(r) ==
    /\ up /\ up' = up
    /\ \/ /\ stage[r] = "INITIALIZED" /\ stage' = [stage EXCEPT ![r] = "PROCESSING"]
          /\ reply' = reply
       \/ /\ stage[r] = "PROCESSING"
          /\ \E end \in {"COMPLETED", "COMPENSATED"} : stage' = [stage EXCEPT ![r] = end]
          /\ reply' = reply
       \/ /\ reply[r] = "none" /\ stage' = stage
          /\ \E code \in Codes : /\ reply' = [reply EXCEPT ![r] = code]
                                 /\ \/ stage[r] = "COMPLETED" /\ code = "200"
                                    \/ stage[r] = "COMPENSATED"
                                    \/ r \in Asks /\ ~ ModelConfigured /\ code = "500"

LEMMA EventMoves ==
    ASSUME IInv, NEW r \in Requests, RecordEffect(r) \/ PublishEffect(r)
    PROVE  Moves(r) \/ UNCHANGED <<up, stage, reply>>
  <1> DEFINE h == Head(todo[r])
  <1>1. Types /\ Local(r) /\ Base(r) /\ StageInv(r)
    BY DEF IInv, Local
  <1>2. /\ h \in Front(todo[r]) /\ h \in Steps
        /\ up' = up /\ reply' = reply
    BY <1>1, LogFacts
  <1>3. /\ up
        /\ \/ stage' = stage
           \/ h.op = "publish" /\ h.arg \in States /\ stage' = [stage EXCEPT ![r] = h.arg]
    BY DEF RecordEffect, PublishEffect, At
  <1>4. CASE stage' = stage
    BY <1>2, <1>4
  <1>5. CASE h.op = "publish" /\ h.arg \in States /\ stage' = [stage EXCEPT ![r] = h.arg]
    <2> DEFINE s == h.arg
    <2>1. Say(s) \in Front(todo[r]) /\ s \in States
      BY <1>2, <1>5, SayIs
    <2> HIDE DEF h
    <2>2. \A at : ~ Silent(r, at)
      BY <2>1 DEF Silent
    <2>3. \A from, to : Tells(r, from, to) => s = to /\ stage[r] = from
      BY <2>1 DEF Tells
    <2>4. Phase(r).op \in {"split", "tokenize", "model", "reply"}
      <3>1. Phase(r).op \in {"receive_ingest", "receive_payment", "receive_ask",
                             "split", "tokenize", "model", "add", "audit", "delete",
                             "score", "query", "infer", "audit_ask", "reply"}
        <4>1. Phase(r) \in Steps /\ Phase(r).op \notin FrontOps
          <5>1. Script(todo[r]) /\ todo[r] # << >>
            <6>1. todo[r] # << >>
              BY DEF RecordEffect, PublishEffect, At
            <6> QED  BY <1>1, <6>1 DEF Base
          <5> QED  BY <5>1, HeadOfScript DEF Phase
        <4>2. Phase(r).op \in Ops
          BY <4>1 DEF Steps
        <4> QED  BY <4>1, <4>2, OpsSplit DEF LastOps
      <3> QED  BY <1>1, <2>2, <3>1 DEF StageInv
    <2>5. CASE Phase(r).op \in {"split", "tokenize", "model"}
      <3>1. s = "PROCESSING" /\ stage[r] = "INITIALIZED"
        BY <1>1, <2>3, <2>5 DEF StageInv
      <3> QED  BY <1>2, <1>3, <1>5, <3>1 DEF Moves
    <2>6. CASE Phase(r).op = "reply"
      <3>1. s \in {"COMPLETED", "COMPENSATED"} /\ stage[r] = "PROCESSING"
        BY <1>1, <2>2, <2>3, <2>6 DEF StageInv
      <3> QED  BY <1>2, <1>3, <1>5, <3>1 DEF Moves
    <2> QED  BY <2>4, <2>5, <2>6
  <1> QED  BY <1>3, <1>4, <1>5

LEMMA ReplyMoves ==
    ASSUME IInv, NEW r \in Requests, ReplyEffect(r)
    PROVE  Moves(r)
  <1> DEFINE code == Phase(r).arg
  <1>1. Types /\ Base(r) /\ StageInv(r)
    BY DEF IInv, Local
  <1>2. /\ Phase(r).op = "reply" /\ Front(todo[r]) = {}
        /\ reply[r] = "none" /\ reply'[r] = code /\ up
        /\ reply' \in [Requests -> Replies]
        /\ \A q \in Requests : q # r => reply'[q] = reply[q]
        /\ up' = up /\ stage' = stage
    BY <1>1, ReplyFacts
  <1>3. code \in Codes
    BY <1>1, <1>2 DEF Base
  <1>4. \/ stage[r] = "COMPLETED" /\ code = "200"
        \/ stage[r] = "COMPENSATED"
        \/ r \in Asks /\ ~ ModelConfigured /\ code = "500"
    BY <1>1, <1>2 DEF StageInv, Tells, Silent
  <1>5. reply' = [reply EXCEPT ![r] = code]
    BY <1>1, <1>2 DEF Types
  <1> HIDE DEF code
  <1> QED  BY <1>2, <1>3, <1>4, <1>5 DEF Moves

LEMMA NextMoves ==
    ASSUME IInv, [Next]_vars
    PROVE  \/ UNCHANGED <<up, stage, reply>>
           \/ up /\ up' = FALSE /\ UNCHANGED <<stage, reply>>
           \/ \E r \in Requests : Moves(r)
  <1>1. ASSUME NEW r \in Requests, Effect(r)
        PROVE  Moves(r) \/ UNCHANGED <<up, stage, reply>>
    BY <1>1, EventMoves, ReplyMoves DEF Effect
  <1>2. ASSUME NEW r \in Requests, IngestStep(r) \/ PaymentStep(r) \/ AskStep(r)
        PROVE  UNCHANGED <<up, stage, reply>>
    <2>1. CASE IngestStep(r)
      BY <2>1 DEF IngestStep, ReceiveIngest, Split, Add, Index, Audit, AuditWrite,
                  Delete, Unindex, told
    <2>2. CASE PaymentStep(r)
      BY <2>2 DEF PaymentStep, ReceivePayment, Tokenize, Score, told
    <2>3. CASE AskStep(r)
      BY <2>3 DEF AskStep, ReceiveAsk, MakeModel, Query, Infer, AuditAsk, AuditWrite, told
    <2> QED  BY <1>2, <2>1, <2>2, <2>3
  <1>3. CASE Crash
    BY <1>3 DEF Crash, told
  <1>4. CASE UNCHANGED vars
    BY <1>4 DEF vars, effectVars, told
  <1>5. ASSUME NEW r \in Audits, RecordArrives(r) PROVE UNCHANGED <<up, stage, reply>>
    BY <1>5 DEF RecordArrives, told
  <1> QED  BY <1>1, <1>2, <1>3, <1>4, <1>5 DEF Next, Advance

\* A question whose handler could not make its model client is answered 500 and
\* stays in PROCESSING; every other request of the three routes is a lifecycle
\* of RequestLifecycle, whatever the configuration.
Settling == {r \in Requests : r \in Asks => ModelConfigured}
SettlingLifecycle ==
    INSTANCE RequestLifecycle
        WITH Requests <- Settling,
             stage <- [r \in Settling |-> stage[r]],
             verdict <- [r \in Settling |-> Verdict(r)]

\* A step of a lifecycle, as a request of a set R sees it in its copies of the
\* stages and answers: the set is that of all requests, or of the settling ones.
Stages(R) == [q \in R |-> stage[q]]
Verdicts(R) == [q \in R |-> Verdict(q)]

\* r moves a lifecycle with stages st and answers ve to st2 and ve2.
LifecycleStep(r, st, st2, ve, ve2) ==
    /\ up /\ up' = up
    /\ \/ st[r] = "INITIALIZED" /\ st2 = [st EXCEPT ![r] = "PROCESSING"] /\ ve2 = ve
       \/ /\ st[r] = "PROCESSING"
          /\ \E end \in {"COMPLETED", "COMPENSATED"} : st2 = [st EXCEPT ![r] = end]
          /\ ve2 = ve
       \/ /\ ve[r] = "none" /\ st2 = st
          /\ \/ st[r] = "COMPLETED" /\ ve2 = [ve EXCEPT ![r] = "success"]
             \/ /\ st[r] = "COMPENSATED"
                /\ \E v \in {"success", "failure"} : ve2 = [ve EXCEPT ![r] = v]

LEMMA MovesAreActions ==
    ASSUME Types, NEW R, R \subseteq Requests, NEW r \in R, Moves(r),
           r \in Asks => ModelConfigured
    PROVE  LifecycleStep(r, Stages(R), Stages(R)', Verdicts(R), Verdicts(R)')
  <1> DEFINE st == [q \in R |-> stage[q]]
             ve == [q \in R |-> Verdict(q)]
  <1>1. up /\ up' = up /\ st[r] = stage[r]
    BY DEF Moves
  <1>2. ASSUME reply' = reply PROVE ve' = ve
    BY <1>2 DEF Verdict
  <1>3. ASSUME NEW s, stage' = [stage EXCEPT ![r] = s] PROVE st' = [st EXCEPT ![r] = s]
    BY <1>3 DEF Types
  <1>4. ASSUME stage' = stage PROVE st' = st
    BY <1>4
  <1>5. ASSUME NEW code \in Codes, reply[r] = "none", reply' = [reply EXCEPT ![r] = code]
        PROVE  ve[r] = "none"
               /\ ve' = [ve EXCEPT ![r] = IF code = "200" THEN "success" ELSE "failure"]
    <2>1. /\ Verdict(r) = "none"
          /\ Verdict(r)' = IF code = "200" THEN "success" ELSE "failure"
      BY <1>5 DEF Types, Verdict, Codes
    <2>2. \A q \in R : q # r => Verdict(q)' = Verdict(q)
      BY <1>5 DEF Types, Verdict
    <2> QED  BY <2>1, <2>2
  <1> HIDE DEF st, ve
  <1>6. LifecycleStep(r, st, st', ve, ve')
    <2>1. CASE /\ stage[r] = "INITIALIZED" /\ stage' = [stage EXCEPT ![r] = "PROCESSING"]
               /\ reply' = reply
      BY <2>1, <1>1, <1>2, <1>3 DEF LifecycleStep
    <2>2. CASE /\ stage[r] = "PROCESSING" /\ reply' = reply
               /\ \E end \in {"COMPLETED", "COMPENSATED"} : stage' = [stage EXCEPT ![r] = end]
      BY <2>2, <1>1, <1>2, <1>3 DEF LifecycleStep
    <2>3. ASSUME reply[r] = "none", stage' = stage, NEW code \in Codes,
                 reply' = [reply EXCEPT ![r] = code],
                 \/ stage[r] = "COMPLETED" /\ code = "200"
                 \/ stage[r] = "COMPENSATED"
          PROVE  /\ ve[r] = "none" /\ st' = st
                 /\ \/ st[r] = "COMPLETED" /\ ve' = [ve EXCEPT ![r] = "success"]
                    \/ /\ st[r] = "COMPENSATED"
                       /\ \E v \in {"success", "failure"} : ve' = [ve EXCEPT ![r] = v]
      <3>1. /\ ve[r] = "none" /\ st' = st
            /\ ve' = [ve EXCEPT ![r] = IF code = "200" THEN "success" ELSE "failure"]
        BY <2>3, <1>4, <1>5
      <3> QED  BY <2>3, <3>1, <1>1
    <2> QED  BY <1>1, <2>1, <2>2, <2>3 DEF Moves, LifecycleStep
  <1> QED  BY <1>6 DEF st, ve, Stages, Verdicts

\* The routes of app/main.py implement RequestLifecycle wherever the model
\* client can be made: no request settles twice or out of order, or is told
\* of a success after a failure that was not compensated.
THEOREM RefinesLifecycle == ASSUME ModelConfigured PROVE Safe => Lifecycle!Safe
  <1>1. Init => Lifecycle!Init
    BY DEF Init, Lifecycle!Init, Verdict
  <1>2. IInv /\ [Next]_vars => [Lifecycle!Next]_(Lifecycle!lifecycleVars)
    <2> SUFFICES ASSUME IInv, [Next]_vars
                 PROVE  Lifecycle!Next \/ UNCHANGED Lifecycle!lifecycleVars
      OBVIOUS
    <2>1. ASSUME NEW r \in Requests, Moves(r) PROVE Lifecycle!Next
      <3>1. Types /\ stage = [q \in Requests |-> stage[q]]
            /\ stage' = [q \in Requests |-> stage'[q]]
        BY <2>1 DEF IInv, Types, Moves
      <3>2. /\ stage = Stages(Requests) /\ stage' = Stages(Requests)'
            /\ [q \in Requests |-> Verdict(q)] = Verdicts(Requests)
            /\ [q \in Requests |-> Verdict(q)]' = Verdicts(Requests)'
        BY <3>1 DEF Stages, Verdicts
      <3>3. Lifecycle!Process(r) \/ Lifecycle!Settle(r) \/ Lifecycle!Answer(r)
        <4>1. LifecycleStep(r, stage, stage', Verdicts(Requests), Verdicts(Requests)')
          BY <2>1, <3>1, <3>2, MovesAreActions
        <4> QED  BY <3>2, <4>1
                 DEF LifecycleStep, Lifecycle!Process, Lifecycle!Settle, Lifecycle!Answer
      <3> QED  BY <3>3 DEF Lifecycle!Next
    <2>2. CASE up /\ up' = FALSE /\ UNCHANGED <<stage, reply>>
      BY <2>2 DEF Lifecycle!Next, Lifecycle!Crash, Verdict
    <2>3. CASE UNCHANGED <<up, stage, reply>>
      BY <2>3 DEF Lifecycle!lifecycleVars, Verdict
    <2> QED  BY <2>1, <2>2, <2>3, NextMoves
  <1> QED  BY <1>1, <1>2, InitIInv, NextIInv, PTL DEF Safe, Lifecycle!Safe

\* Whatever the configuration, ingests and payments implement RequestLifecycle,
\* and questions do where the model client can be made.
THEOREM SettlingRefinesLifecycle == Safe => SettlingLifecycle!Safe
  <1> DEFINE st == [q \in Settling |-> stage[q]]
             ve == [q \in Settling |-> Verdict(q)]
  <1>1. Init => SettlingLifecycle!Init
    BY DEF Init, SettlingLifecycle!Init, Verdict, Settling
  <1>2. IInv /\ [Next]_vars => [SettlingLifecycle!Next]_(SettlingLifecycle!lifecycleVars)
    <2> SUFFICES ASSUME IInv, [Next]_vars
                 PROVE  SettlingLifecycle!Next \/ UNCHANGED SettlingLifecycle!lifecycleVars
      OBVIOUS
    <2>1. ASSUME NEW r \in Settling, Moves(r) PROVE SettlingLifecycle!Next
      <3>1. Types /\ Settling \subseteq Requests /\ (r \in Asks => ModelConfigured)
        BY DEF IInv, Settling
      <3>2. \/ SettlingLifecycle!Process(r)
            \/ SettlingLifecycle!Settle(r)
            \/ SettlingLifecycle!Answer(r)
        <4>1. LifecycleStep(r, Stages(Settling), Stages(Settling)',
                            Verdicts(Settling), Verdicts(Settling)')
          BY <2>1, <3>1, MovesAreActions
        <4> QED  BY <4>1 DEF LifecycleStep, SettlingLifecycle!Process, SettlingLifecycle!Settle,
                             SettlingLifecycle!Answer, Stages, Verdicts
      <3> QED  BY <3>2 DEF SettlingLifecycle!Next
    <2>2. ASSUME NEW r \in Requests, r \notin Settling, Moves(r)
          PROVE  UNCHANGED SettlingLifecycle!lifecycleVars
      <3>1. \A q \in Settling : q # r /\ stage'[q] = stage[q] /\ reply'[q] = reply[q]
        <4>1. Types /\ Settling \subseteq Requests
          BY DEF IInv, Settling
        <4> QED  BY <2>2, <4>1 DEF Moves, Types
      <3>2. \A q \in Settling : Verdict(q)' = Verdict(q)
        BY <3>1 DEF Verdict
      <3> QED  BY <2>2, <3>1, <3>2 DEF SettlingLifecycle!lifecycleVars, Moves
    <2>3. CASE up /\ up' = FALSE /\ UNCHANGED <<stage, reply>>
      BY <2>3 DEF SettlingLifecycle!Next, SettlingLifecycle!Crash, Verdict
    <2>4. CASE UNCHANGED <<up, stage, reply>>
      BY <2>4 DEF SettlingLifecycle!lifecycleVars, Verdict
    <2> QED  BY <2>1, <2>2, <2>3, <2>4, NextMoves
  <1> QED  BY <1>1, <1>2, InitIInv, NextIInv, PTL DEF Safe, SettlingLifecycle!Safe

\* An answered question has left PROCESSING (app/main.py: ask) wherever the
\* model client can be made: AnsweredFlowsSettle fails for no other reason than
\* the client's constructor, which no except clause covers.
THEOREM QuestionsSettle == ASSUME ModelConfigured PROVE Spec => []AnsweredFlowsSettle
  <1>1. ASSUME IInv, NEW r \in Asks, reply[r] # "none"
        PROVE  stage[r] \in {"COMPLETED", "COMPENSATED"}
    <2>1. r \in Requests
      BY OneRoute
    <2>2. Front(todo[r]) = {} /\ StageInv(r) /\ Phase(r).op = "reply"
      BY <1>1, <2>1, Settled DEF Local
    <2> QED  BY <2>2 DEF StageInv, Tells
  <1>2. IInv => AnsweredFlowsSettle
    BY <1>1 DEF AnsweredFlowsSettle
  <1> QED  BY <1>2, Invariance, PTL

-----------------------------------------------------------------------------
(* The audit records of ingests and questions keep what AuditLog promises:   *)
(* by its phase, a request has not begun its write, is writing, was told     *)
(* that the write raised, or tells of a record that is stored.               *)

LEMMA OutcomeIsPhase ==
    ASSUME Types, NEW r \in Audits, Local(r)
    PROVE  AuditOutcome(r) =
             IF Phase(r).op \in AuditOps /\ Front(todo[r]) = {} THEN "writing"
             ELSE IF Phase(r) = Answer("200") THEN "ok"
             ELSE IF r \in raised THEN "failed" ELSE "none"
  <1> DEFINE event == Say("AuditRecordLogged")
  <1>1. r \in Requests /\ Base(r) /\ AuditInv(r)
    BY OneRoute DEF Local
  <1>2. ToldLogged(r) <=> Due(r, event)
    <2>1. Published(r, "AuditRecordLogged") <=> Done(r, event)
      BY SaidIsPublished
    <2>2. (\E i \in 1..Len(todo[r]) : todo[r][i] = event) <=> event \in Front(todo[r])
      <3>1. CASE todo[r] = << >>
        BY <3>1, FrontOfEmpty
      <3>2. CASE todo[r] # << >>
        <4>1. Script(todo[r])
          BY <1>1, <3>2 DEF Base
        <4>2. Len(todo[r]) \in Nat
          BY <4>1, LenProperties DEF Script
        <4>3. todo[r][Len(todo[r])] # event
          BY <4>1, HeadOfScript, NoteSay DEF LastOf, FrontOps
        <4>4. \A i \in 1..Len(todo[r]) : i = Len(todo[r]) \/ i \in 1..(Len(todo[r]) - 1)
          BY <4>2
        <4>5. 1..(Len(todo[r]) - 1) \subseteq 1..Len(todo[r])
          BY <4>2
        <4> QED  BY <4>3, <4>4, <4>5 DEF Front
      <3> QED  BY <3>1, <3>2
    <2> QED  BY <2>1, <2>2 DEF ToldLogged, Due
  <1>3. Writing(r) <=> Phase(r).op \in AuditOps /\ Front(todo[r]) = {}
    BY <1>1, WritingFacts
  <1> QED  BY <1>1, <1>2, <1>3 DEF AuditOutcome, AuditInv

OutcomesFollow ==
    \A r \in Audits :
       /\ r \in Requests /\ AuditInv(r)
       /\ Writing(r) <=> Phase(r).op \in AuditOps /\ Front(todo[r]) = {}
       /\ AuditOutcome(r) = IF Phase(r).op \in AuditOps /\ Front(todo[r]) = {} THEN "writing"
                            ELSE IF Phase(r) = Answer("200") THEN "ok"
                            ELSE IF r \in raised THEN "failed" ELSE "none"

LEMMA OutcomesArePhases == IInv => OutcomesFollow
  <1> SUFFICES ASSUME IInv, NEW r \in Audits
               PROVE  /\ r \in Requests /\ AuditInv(r)
                      /\ Writing(r) <=> Phase(r).op \in AuditOps /\ Front(todo[r]) = {}
                      /\ AuditOutcome(r) =
                           IF Phase(r).op \in AuditOps /\ Front(todo[r]) = {} THEN "writing"
                           ELSE IF Phase(r) = Answer("200") THEN "ok"
                           ELSE IF r \in raised THEN "failed" ELSE "none"
    BY DEF OutcomesFollow
  <1>1. r \in Requests /\ Types /\ Local(r)
    BY OneRoute DEF IInv
  <1>2. AuditInv(r) /\ Base(r)
    BY <1>1 DEF Local
  <1> QED  BY <1>1, <1>2, OutcomeIsPhase, WritingFacts

\* A step of another request, or of none.
LEMMA SameOutcome ==
    ASSUME NEW q, Same(q)
    PROVE  AuditOutcome(q)' = AuditOutcome(q)
  BY DEF Same, AuditOutcome, Writing, ToldLogged, Published, Logged

Unheard == UNCHANGED <<[q \in Audits |-> AuditOutcome(q)], audited>>

\* A step of AuditLog, told by the outcome it leaves.
LEMMA OutcomeMoves ==
    ASSUME NEW r \in Audits, NEW o, NEW new,
           AuditOutcome(r) = o, AuditOutcome(r)' = new,
           \A q \in Audits \ {r} : AuditOutcome(q)' = AuditOutcome(q),
           \/ new = o /\ audited' = audited
           \/ new = "writing" /\ o # "writing" /\ audited' = audited /\ r \notin audited
           \/ o = "writing" /\ new = "ok" /\ audited' = audited \cup {r}
           \/ o = "writing" /\ new = "failed" /\ audited' = audited
           \/ o \in {"writing", "failed"} /\ new = o /\ audited' = audited \cup {r}
    PROVE  AuditPromise!Next \/ Unheard
  <1> DEFINE outcome == [q \in Audits |-> AuditOutcome(q)]
  <1>1. /\ outcome[r] = o
        /\ outcome' = [outcome EXCEPT ![r] = new]
    OBVIOUS
  <1>2. new = o => outcome' = outcome
    BY <1>1
  <1> HIDE DEF outcome
  <1>3. CASE new = o /\ audited' = audited
    BY <1>2, <1>3 DEF Unheard, outcome
  <1>4. CASE new = "writing" /\ o # "writing" /\ audited' = audited /\ r \notin audited
    <2>1. audited' = audited \ {r}
      BY <1>4
    <2>2. AuditPromise!Begin(r)
      BY <1>1, <1>4, <2>1 DEF AuditPromise!Begin, outcome
    <2> QED  BY <2>2 DEF AuditPromise!Next
  <1>5. CASE o = "writing" /\ new = "ok" /\ audited' = audited \cup {r}
    <2>1. AuditPromise!Succeed(r)
      BY <1>1, <1>5 DEF AuditPromise!Succeed, outcome
    <2> QED  BY <2>1 DEF AuditPromise!Next, AuditPromise!End
  <1>6. CASE o = "writing" /\ new = "failed" /\ audited' = audited
    <2>1. AuditPromise!Fail(r)
      BY <1>1, <1>6 DEF AuditPromise!Fail, outcome
    <2> QED  BY <2>1 DEF AuditPromise!Next, AuditPromise!End
  <1>7. CASE o \in {"writing", "failed"} /\ new = o /\ audited' = audited \cup {r}
    <2>1. AuditPromise!Keep(r)
      BY <1>1, <1>2, <1>7 DEF AuditPromise!Keep, outcome
    <2> QED  BY <2>1 DEF AuditPromise!Next
  <1> QED  BY <1>3, <1>4, <1>5, <1>6, <1>7

\* The steps that are no audit write leave alone what is stored and raised, and
\* a handler that tells of its record goes on to its answer.
LEMMA AuditUntouched ==
    ASSUME NEW r \in Requests, Types, Local(r), Advance(r)
    PROVE  \/ r \in Ingests /\ Audit(r)
           \/ r \in Asks /\ AuditAsk(r)
           \/ /\ audited' = audited /\ raised' = raised
              /\ r \in Audits => ~ Writing(r)
              /\ r \in Audits /\ Phase(r) = Answer("200") => Phase(r)' = Phase(r)
  <1> DEFINE kept == audited' = audited /\ raised' = raised
  <1>1. Base(r)
    BY DEF Local
  <1>2. /\ \A x : Answer(x).op = "reply"
        /\ Answer("200") # Answer("503")
    BY NoteSay, Different
  <1>3. CASE Effect(r)
    <2>1. Phase(r)' = Phase(r) /\ kept
      BY <1>1, <1>3, LogFacts, ReplyFacts DEF Effect
    <2>2. \E op \in {"record", "publish", "reply"} : At(r, op)
      BY <1>3 DEF Effect, RecordEffect, PublishEffect, ReplyEffect
    <2>3. ~ Writing(r)
      BY <2>2 DEF At, Writing, AuditOps
    <2> QED  BY <2>1, <2>3
  <1>4. ASSUME r \in Ingests, IngestStep(r), ~ Audit(r)
        PROVE  kept /\ ~ Writing(r) /\ Phase(r) # Answer("200")
    <2>1. PICK op \in {"receive_ingest", "split", "add", "delete", "index", "unindex"} :
             At(r, op) /\ kept
      BY <1>4 DEF IngestStep, ReceiveIngest, Split, Add, Index, Delete, Unindex, audit
    <2>2. ~ Writing(r)
      BY <2>1 DEF At, Writing, AuditOps
    <2>3. CASE op \in {"receive_ingest", "split", "add", "delete"}
      <3>1. op \notin FrontOps
        BY <2>3 DEF FrontOps
      <3>2. Phase(r).op = op
        BY <1>1, <2>1, <3>1, AtFacts
      <3> QED  BY <1>2, <2>1, <2>2, <2>3, <3>2
    <2>4. CASE op \in {"index", "unindex"}
      <3>1. op \in FrontOps
        BY <2>4 DEF FrontOps
      <3>2. Head(todo[r]) \in Front(todo[r]) /\ Head(todo[r]).op = op
        BY <1>1, <2>1, <3>1, AtFacts
      <3>3. Phase(r) = Step("audit", "chunks") \/ Phase(r) = Answer("503")
        BY <1>4, <2>4, <3>2 DEF Local, IngestInv
      <3> QED  BY <1>2, <2>1, <2>2, <3>3, StepFacts
    <2> QED  BY <2>1, <2>3, <2>4
  <1>5. ASSUME r \in Asks, AskStep(r), ~ AuditAsk(r)
        PROVE  kept /\ ~ Writing(r) /\ Phase(r) # Answer("200")
    <2>1. PICK op \in {"receive_ask", "model", "query", "infer"} : At(r, op) /\ kept
      BY <1>5 DEF AskStep, ReceiveAsk, MakeModel, Query, Infer, audit
    <2>2. ~ Writing(r)
      BY <2>1 DEF At, Writing, AuditOps
    <2>3. op \notin FrontOps
      BY DEF FrontOps
    <2>4. Phase(r).op = op
      BY <1>1, <2>1, <2>3, AtFacts
    <2> QED  BY <1>2, <2>1, <2>2, <2>4
  <1>6. ASSUME r \in Payments, PaymentStep(r) PROVE kept /\ r \notin Audits
    BY <1>6, OneRoute DEF PaymentStep, ReceivePayment, Tokenize, Score, audit
  <1> QED  BY <1>3, <1>4, <1>5, <1>6 DEF Advance

\* After a write that returned, the handler goes on with what it records next.
LEMMA WrittenThenTold ==
    ASSUME NEW r, \/ todo'[r] = Completed
                  \/ \E f : todo'[r] = Answered(f)
    PROVE  ~ Writing(r)'
  <1>1. Head(Completed).op = "record"
    BY DEF Completed, Transition, Note, Step
  <1>2. \A f : Head(Answered(f)).op = "record"
    BY DEF Answered, Transition, Note, Step
  <1> QED  BY <1>1, <1>2 DEF Writing, AuditOps

LEMMA AdvanceAudits ==
    ASSUME IInv, IInv', NEW r \in Requests, Advance(r)
    PROVE  AuditPromise!Next \/ Unheard
  <1>1. Types /\ Local(r) /\ Others(r)
    <2>1. Types /\ Local(r)
      BY DEF IInv
    <2> QED  BY <2>1, AdvanceKeeps
  <1>2. \A q \in Audits \ {r} : AuditOutcome(q)' = AuditOutcome(q)
    BY <1>1, OneRoute, SameOutcome DEF Others
  <1>3. CASE r \notin Audits
    <2>1. audited' = audited
      BY <1>1, <1>3, OneRoute, AuditUntouched
    <2> QED  BY <1>2, <1>3, <2>1 DEF Unheard
  <1>4. CASE r \in Audits
    <2> DEFINE wait == Phase(r).op \in AuditOps /\ Front(todo[r]) = {}
               told200 == Phase(r) = Answer("200")
    <2>1. /\ AuditInv(r) /\ (Writing(r) <=> wait)
          /\ AuditOutcome(r) = IF wait THEN "writing"
                               ELSE IF told200 THEN "ok"
                               ELSE IF r \in raised THEN "failed" ELSE "none"
      BY <1>4, OutcomesArePhases DEF OutcomesFollow
    <2>2. /\ AuditInv(r)' /\ (Writing(r)' <=> wait')
          /\ AuditOutcome(r)' = IF wait' THEN "writing"
                                ELSE IF told200' THEN "ok"
                                ELSE IF (r \in raised)' THEN "failed" ELSE "none"
      <3>1. OutcomesFollow'
        BY OutcomesArePhases, PTL
      <3> QED  BY <1>4, <3>1 DEF OutcomesFollow
    <2>4. /\ wait => r \notin raised /\ ~ told200
          /\ r \in raised => ~ wait /\ ~ told200
          /\ r \in audited => r \in raised \/ told200 \/ wait
      <3>1. wait => Phase(r).op # "delete" /\ Phase(r).op # "reply"
        BY DEF AuditOps
      <3> QED  BY <2>1, <3>1, NoteSay, Different DEF AuditInv
    <2>5. /\ wait' => ~ (r \in raised)' /\ ~ told200'
          /\ (r \in raised)' => ~ wait' /\ ~ told200'
          /\ (r \in audited)' => (r \in raised)' \/ told200' \/ wait'
          /\ told200' => (r \in audited)'
      <3>1. wait' => Phase(r)'.op # "delete" /\ Phase(r)'.op # "reply"
        BY DEF AuditOps
      <3> QED  BY <2>2, <3>1, NoteSay, Different DEF AuditInv
    <2> HIDE DEF wait, told200
    <2>6. CASE (r \in Ingests /\ Audit(r)) \/ (r \in Asks /\ AuditAsk(r))
      <3>1. PICK op \in AuditOps, done \in {Completed, Answered(Head(todo[r]).arg)} :
              /\ At(r, op)
              /\ \/ audited' = audited \cup {r} /\ raised' = raised /\ Continue(r, done)
                 \/ audited' = audited /\ raised' = raised \cup {r}
        BY <2>6 DEF Audit, AuditAsk, AuditWrite, AuditOps
      <3>2. Writing(r) /\ AuditOutcome(r) = "writing" /\ r \notin raised
        BY <2>1, <2>4, <3>1 DEF At, Writing
      <3>3. CASE audited' = audited /\ raised' = raised \cup {r}
        <4>1. AuditOutcome(r)' = "failed"
          BY <2>2, <2>5, <3>3
        <4> QED  BY <1>2, <1>4, <3>2, <3>3, <4>1, OutcomeMoves
      <3>4. CASE audited' = audited \cup {r} /\ raised' = raised /\ Continue(r, done)
        <4>1. ~ Writing(r)'
          <5>1. todo'[r] = done
            BY <1>1, <3>4 DEF Continue, Types
          <5> QED  BY <5>1, WrittenThenTold
        <4>2. AuditOutcome(r)' = "ok"
          BY <2>2, <2>5, <3>2, <3>4, <4>1
        <4> QED  BY <1>2, <1>4, <3>2, <3>4, <4>2, OutcomeMoves
      <3> QED  BY <3>1, <3>3, <3>4
    <2>7. CASE /\ audited' = audited /\ raised' = raised
               /\ ~ Writing(r)
               /\ Phase(r) = Answer("200") => Phase(r)' = Phase(r)
      <3>1. told200 => told200' /\ ~ wait'
        BY <2>7, <2>5 DEF told200
      <3>2. ~ wait
        BY <2>1, <2>7
      <3>3. \/ AuditOutcome(r)' = AuditOutcome(r)
            \/ /\ AuditOutcome(r)' = "writing" /\ AuditOutcome(r) # "writing"
               /\ r \notin audited
        BY <2>1, <2>2, <2>4, <2>5, <2>7, <3>1, <3>2
      <3> QED  BY <1>2, <1>4, <2>7, <3>3, OutcomeMoves
    <2> QED  BY <1>1, <1>4, <2>6, <2>7, AuditUntouched
  <1> QED  BY <1>3, <1>4

LEMMA ArrivalAudits ==
    ASSUME IInv, NEW r \in Audits, RecordArrives(r)
    PROVE  AuditPromise!Next \/ Unheard
  <1>1. audited' = audited \cup {r} /\ UNCHANGED <<todo, log, raised>>
    BY DEF RecordArrives, told
  <1>2. \A q \in Audits : AuditOutcome(q)' = AuditOutcome(q)
    BY <1>1 DEF AuditOutcome, Writing, ToldLogged, Published, Logged
  <1>3. AuditOutcome(r) \in {"writing", "failed"}
    <2>1. /\ AuditInv(r)
          /\ Writing(r) <=> Phase(r).op \in AuditOps /\ Front(todo[r]) = {}
          /\ AuditOutcome(r) = IF Phase(r).op \in AuditOps /\ Front(todo[r]) = {} THEN "writing"
                               ELSE IF Phase(r) = Answer("200") THEN "ok"
                               ELSE IF r \in raised THEN "failed" ELSE "none"
      BY OutcomesArePhases DEF OutcomesFollow
    <2>2. r \in raised => Phase(r) # Answer("200")
      BY <2>1, NoteSay, Different DEF AuditInv
    <2> QED  BY <2>1, <2>2 DEF RecordArrives
  <1> QED  BY <1>1, <1>2, <1>3, OutcomeMoves

\* The AuditRecordLogged events of the ingest and ask routes (app/main.py) tell
\* of records that the sink holds for good, and a request whose write raised
\* never tells of one, however late its record arrives: the routes implement
\* AuditLog, crash or no crash.
THEOREM RefinesAuditLog == Safe => KeepsAuditPromise
  <1>1. Init => AuditPromise!Init
    <2> SUFFICES ASSUME Init PROVE AuditPromise!Init
      OBVIOUS
    <2>1. ASSUME NEW r \in Audits PROVE AuditOutcome(r) = "none"
      <3>1. r \in Requests /\ todo[r] = <<Step(Entry(r), "request")>> /\ log[r] = << >>
            /\ raised = {}
        <4>1. r \in Requests
          BY OneRoute
        <4>2. /\ todo = [q \in Requests |-> <<Step(Entry(q), "request")>>]
              /\ log = [q \in Requests |-> << >>] /\ raised = {}
          BY DEF Init
        <4> QED  BY <4>1, <4>2
      <3>2. Len(log[r]) = 0 /\ Len(todo[r]) = 1 /\ Head(todo[r]) = todo[r][1]
            /\ todo[r][1].op \notin {"audit", "audit_ask", "publish"}
        <4>1. Step(Entry(r), "request").op \in {"receive_ingest", "receive_payment", "receive_ask"}
          BY StepFacts DEF Entry
        <4> QED  BY <3>1, <4>1
      <3>3. ~ Writing(r)
        BY <3>2 DEF Writing, AuditOps
      <3>4. ~ ToldLogged(r)
        BY <3>2, NoteSay DEF ToldLogged, Published, Logged
      <3> QED  BY <3>1, <3>3, <3>4 DEF AuditOutcome
    <2>2. audited = {}
      BY DEF Init
    <2> QED  BY <2>1, <2>2 DEF AuditPromise!Init
  <1>2. IInv /\ IInv' /\ [Next]_vars => [AuditPromise!Next]_(AuditPromise!logVars)
    <2> SUFFICES ASSUME IInv, IInv', [Next]_vars PROVE AuditPromise!Next \/ Unheard
      BY DEF AuditPromise!logVars, Unheard
    <2>1. CASE Crash \/ UNCHANGED vars
      <3>1. UNCHANGED <<todo, log, raised, audited>>
        BY <2>1 DEF Crash, vars, effectVars, told, audit
      <3> QED  BY <3>1 DEF Unheard, AuditOutcome, Writing, ToldLogged, Published, Logged
    <2> QED  BY <2>1, AdvanceAudits, ArrivalAudits DEF Next
  <1>3. AuditPromise!Init /\ [][AuditPromise!Next]_(AuditPromise!logVars) => KeepsAuditPromise
    BY DEF KeepsAuditPromise, AuditPromise!Safe
  <1> QED  BY <1>1, <1>2, <1>3, InitIInv, NextIInv, PTL DEF Safe

=============================================================================
