-------------------------- MODULE MonitoringProofs --------------------------
(***************************************************************************)
(* Monitoring's invariants for any requests, probes, plan and settings.    *)
(*                                                                         *)
(* ReadyWasSeen and OptionalHarmless speak of a report when it is          *)
(* concluded; Contacts says what each of its contacts has established by   *)
(* then, while services went down and came back.  Likewise Path says, for  *)
(* each place in the middleware, what will make the count agree with the   *)
(* answer.                                                                 *)
(***************************************************************************)
EXTENDS Monitoring, FiniteSetTheorems, TLAPS

Inside == {r \in Requests : stage[r] \notin {"away", "unhandled"}}

HttpTyped ==
    /\ stage \in [Requests -> Stages]
    /\ status \in [Requests -> Classes]
    /\ doomed \in [Requests -> BOOLEAN]
    /\ sent \in [Requests -> Classes \cup {"none"}]
    /\ counted \in [Requests -> Classes \cup {"none"}]

Path ==
    \A r \in Requests :
        /\ stage[r] = "app" => status[r] = "5xx" /\ sent[r] = "none" /\ ~ doomed[r]
        /\ stage[r] = "body" => sent[r] = status[r] /\ ~ doomed[r]
        /\ stage[r] \in {"observe", "leave"} =>
              IF doomed[r] THEN status[r] = "5xx" ELSE sent[r] = status[r]
        /\ stage[r] = "leave" => counted[r] = status[r]
        /\ stage[r] = "unhandled" => counted[r] = "5xx"
        /\ stage[r] = "away" /\ sent[r] # "none" => counted[r] = sent[r]

HttpInv == HttpTyped /\ Path /\ inFlight = Cardinality(Inside)

HealthTyped ==
    /\ setting \in Settings
    /\ up \subseteq Services
    /\ at \in [Probes -> 0..(Last + 1)]
    /\ failed \in [Probes -> SUBSET Configured]
    /\ verdict \in [Probes -> {"none", "ok", "failed"}]
    /\ ready \in {"none", "ok", "failed"}
    /\ seen \in [Probes -> SUBSET Services]
    /\ outage \subseteq Probes

Contacts ==
    \A r \in Probes :
        /\ Contacting(r) => up \cap Needed \subseteq seen[r]
        /\ Contacting(r) /\ ~ Needed \subseteq up => r \in outage
        /\ \A d \in failed[r] : d \in Required => r \in outage
        /\ \A i \in 1..Last :
              /\ i < at[r]
              /\ Plan[i].check \in Configured
              /\ Plan[i].service \in Needed
              => Plan[i].check \in failed[r] \/ Plan[i].service \in seen[r]
        /\ at[r] \in 1..Last => verdict[r] = "none"
        /\ at[r] = Last + 1 /\ verdict[r] = "ok" => Required \subseteq Configured \ failed[r]
        /\ at[r] = Last + 1 /\ verdict[r] = "failed" =>
              ~ Required \subseteq Configured \ failed[r]
        /\ at[r] = 0 => failed[r] = {}

HealthInv == HealthTyped /\ Contacts

\* A report is made only while its request is in the handler.
Together == \A r \in Probes : stage[r] # "app" => at[r] = 0

IInv == HttpInv /\ HealthInv /\ Together

-----------------------------------------------------------------------------

LEMMA LastNat == Last \in Nat /\ DOMAIN Plan = 1..Last
BY PlanAssumption DEF Last

LEMMA PlanTyped ==
    ASSUME NEW i \in 1..Last
    PROVE  /\ Plan[i].check \in Checks
           /\ Plan[i].service \in Services
           /\ Plan[i].service \in Uses(Plan[i].check)
<1> DEFINE Entry == [check : STRING, service : Services]
<1>1. i \in DOMAIN Plan
  BY LastNat
<1>2. Plan \in Seq(Entry)
  BY PlanAssumption
<1>3. Plan[i] \in Entry
  <2> HIDE DEF Entry
  <2> QED BY <1>1, <1>2
<1> QED BY <1>1, <1>3 DEF Checks, Uses

\* A required check needs every service it contacts.
LEMMA NeededOf ==
    ASSUME NEW i \in 1..Last, Plan[i].check \in Required
    PROVE  Plan[i].service \in Needed
BY PlanTyped DEF Needed

LEMMA InsideFinite == IsFiniteSet(Inside) /\ Cardinality(Inside) \in Nat
<1>1. Inside \subseteq Requests
  BY DEF Inside
<1> QED BY <1>1, ProbesAreRequests, FS_Subset, FS_CardinalityType

-----------------------------------------------------------------------------

\* What a step of the middleware may do to one request.
HttpAction(r) ==
    \/ Enter(r) \/ Raise(r) \/ Wrapped(r)
    \/ \E class \in Classes : Start(r, class)

\* A request that is inside stays inside, until it leaves.
LEMMA Counted ==
    ASSUME NEW r \in Requests, HttpTyped, HttpAction(r),
           inFlight = Cardinality(Inside)
    PROVE  inFlight' = Cardinality(Inside')
<1>1. CASE Enter(r)
  <2>1. r \notin Inside /\ Inside' = Inside \cup {r}
    BY <1>1 DEF Enter, Move, Inside, HttpTyped
  <2> QED BY <2>1, <1>1, InsideFinite, FS_AddElement DEF Enter
<1>2. CASE Leave(r)
  <2>1. r \in Inside /\ Inside' = Inside \ {r}
    BY <1>2 DEF Leave, Move, Inside, HttpTyped
  <2>2. inFlight' = inFlight - 1
    BY <1>2 DEF Leave
  <2> QED BY <2>1, <2>2, InsideFinite, FS_RemoveElement
<1>3. CASE Raise(r) \/ End(r) \/ Observe(r) \/ Unhandled(r)
  <2>1. Inside' = Inside /\ inFlight' = inFlight
    BY <1>3 DEF Raise, End, Observe, Unhandled, Move, Inside, HttpTyped
  <2> QED BY <2>1
<1>4. CASE \E class \in Classes : Start(r, class)
  <2>1. Inside' = Inside /\ inFlight' = inFlight
    BY <1>4 DEF Start, Move, Inside, HttpTyped
  <2> QED BY <2>1
<1> QED BY <1>1, <1>2, <1>3, <1>4 DEF HttpAction, Wrapped

LEMMA HttpStep ==
    ASSUME NEW r \in Requests, HttpInv, HttpAction(r)
    PROVE  HttpInv'
<1> USE DEF HttpInv
<1>1. inFlight' = Cardinality(Inside')
  BY Counted
<1>2. HttpTyped' /\ Path'
  <2>1. CASE Enter(r)
    BY <2>1 DEF Enter, Move, HttpTyped, Path, Stages, Classes
  <2>2. CASE Raise(r)
    BY <2>2 DEF Raise, Move, HttpTyped, Path, Stages, Classes
  <2>3. CASE End(r)
    BY <2>3 DEF End, Move, HttpTyped, Path, Stages, Classes
  <2>4. CASE Observe(r)
    BY <2>4 DEF Observe, Move, HttpTyped, Path, Stages, Classes
  <2>5. CASE Leave(r)
    BY <2>5 DEF Leave, Move, HttpTyped, Path, Stages, Classes
  <2>6. CASE Unhandled(r)
    BY <2>6 DEF Unhandled, Move, HttpTyped, Path, Stages, Classes
  <2>7. CASE \E class \in Classes : Start(r, class)
    BY <2>7 DEF Start, Move, HttpTyped, Path, Stages, Classes
  <2> QED BY <2>1, <2>2, <2>3, <2>4, <2>5, <2>6, <2>7 DEF HttpAction, Wrapped
<1> QED BY <1>1, <1>2

LEMMA OneMoves ==
    ASSUME NEW r \in Requests, HttpInv, HttpAction(r)
    PROVE  \A q \in Requests : q # r => stage'[q] = stage[q]
<1>1. \E to : stage' = [stage EXCEPT ![r] = to]
  BY DEF HttpAction, Wrapped, Enter, Start, Raise, End, Observe, Leave, Unhandled, Move
<1> QED BY <1>1 DEF HttpInv, HttpTyped

LEMMA HttpStutter == ASSUME HttpInv, UNCHANGED httpVars PROVE HttpInv'
BY DEF httpVars, HttpInv, HttpTyped, Path, Inside

-----------------------------------------------------------------------------

\* What the report needs is settled at start-up.
LEMMA SameNeeds ==
    ASSUME setting' = setting
    PROVE  Configured' = Configured /\ Required' = Required /\ Needed' = Needed
BY DEF Configured, Required, Needed

LEMMA FlipStep ==
    ASSUME HealthInv, NEW s \in Services, Flip(s)
    PROVE  HealthInv'
<1> USE LastNat, SameNeeds DEF HealthInv, Flip, reportVars
<1>1. HealthTyped'
  BY DEF HealthTyped
<1>2. Contacts'
  <2> SUFFICES ASSUME NEW r \in Probes
               PROVE  /\ Contacting(r) => up' \cap Needed \subseteq seen'[r]
                      /\ Contacting(r) /\ ~ Needed \subseteq up' => r \in outage'
                      /\ seen[r] \subseteq seen'[r]
                      /\ outage \subseteq outage'
    BY DEF Contacts, Contacting
  <2> QED BY DEF Contacting, HealthTyped
<1> QED BY <1>1, <1>2

LEMMA BeginStep ==
    ASSUME HealthInv, NEW q \in Probes, at[q] = 0, Begin(q)
    PROVE  HealthInv'
<1> USE LastNat, SameNeeds DEF HealthInv, Begin
<1>1. HealthTyped'
  BY DEF HealthTyped
<1>2. Contacts'
  <2> SUFFICES ASSUME NEW r \in Probes, r = q
               PROVE  /\ at'[r] = 1 /\ failed'[r] = {} /\ verdict'[r] = "none"
                      /\ up \cap Needed \subseteq seen'[r]
                      /\ ~ Needed \subseteq up => r \in outage'
    BY DEF Contacts, Contacting, HealthTyped
  <2> QED BY DEF Contacts, HealthTyped
<1> QED BY <1>1, <1>2

LEMMA ContactStep ==
    ASSUME HealthInv, NEW q \in Probes, Contact(q)
    PROVE  HealthInv'
<1> USE LastNat, SameNeeds DEF HealthInv
<1>0. /\ at[q] \in 1..Last
      /\ at' = [at EXCEPT ![q] = @ + 1]
      /\ UNCHANGED <<setting, up, verdict, ready, seen, outage>>
  BY DEF Contact, Contacting
<1>1. /\ \A r \in Probes : r # q => failed'[r] = failed[r]
      /\ failed \in [Probes -> SUBSET Configured] =>
            failed' \in [Probes -> SUBSET Configured]
      /\ failed'[q] = IF /\ Plan[at[q]].check \in Configured
                         /\ Plan[at[q]].service \notin up
                      THEN failed[q] \cup {Plan[at[q]].check} ELSE failed[q]
  BY DEF Contact, HealthTyped
<1>2. HealthTyped'
  BY <1>0, <1>1 DEF HealthTyped
<1>3. ASSUME NEW r \in Probes
      PROVE  /\ \A d \in failed'[r] : d \in Required => r \in outage
             /\ \A i \in 1..Last :
                   /\ i < at'[r]
                   /\ Plan[i].check \in Configured
                   /\ Plan[i].service \in Needed
                   => Plan[i].check \in failed'[r] \/ Plan[i].service \in seen[r]
  <2>1. CASE r # q
    BY <2>1, <1>0, <1>1 DEF Contacts, HealthTyped
  <2>2. CASE r = q
    <3>1. \A d \in failed'[r] : d \in Required => r \in outage
      BY <2>2, <1>0, <1>1, NeededOf DEF Contacts, Contacting
    <3>2. ASSUME NEW i \in 1..Last, i < at'[r],
                 Plan[i].check \in Configured, Plan[i].service \in Needed
          PROVE  Plan[i].check \in failed'[r] \/ Plan[i].service \in seen[r]
      <4>1. i < at[r] \/ i = at[r]
        BY <3>2, <2>2, <1>0 DEF HealthTyped
      <4>2. failed[r] \subseteq failed'[r]
        BY <2>2, <1>1
      <4>3. CASE i < at[r]
        BY <4>2, <4>3, <3>2 DEF Contacts
      <4>4. CASE i = at[r]
        BY <4>4, <3>2, <2>2, <1>0, <1>1 DEF Contacts, Contacting
      <4> QED BY <4>1, <4>3, <4>4
    <3> QED BY <3>1, <3>2
  <2> QED BY <2>1, <2>2
<1>4. ASSUME NEW r \in Probes
      PROVE  /\ Contacting(r)' => Contacting(r)
             /\ at'[r] \in 1..Last => verdict[r] = "none"
             /\ at'[r] = Last + 1 /\ verdict[r] = "ok" =>
                  Required \subseteq Configured \ failed'[r]
             /\ at'[r] = Last + 1 /\ verdict[r] = "failed" =>
                  ~ Required \subseteq Configured \ failed'[r]
             /\ at'[r] = 0 => failed'[r] = {}
  <2>1. CASE r # q
    BY <2>1, <1>0, <1>1 DEF Contacts, HealthTyped, Contacting
  <2>2. CASE r = q
    BY <2>2, <1>0 DEF Contacts, HealthTyped, Contacting
  <2> QED BY <2>1, <2>2
<1>5. Contacts'
  BY <1>0, <1>3, <1>4 DEF Contacts
<1> QED BY <1>2, <1>5

LEMMA ConcludeStep ==
    ASSUME HealthInv, NEW q \in Probes, Conclude(q)
    PROVE  HealthInv'
<1> USE LastNat, SameNeeds DEF HealthInv, Conclude
<1>1. HealthTyped'
  BY DEF HealthTyped
<1>2. Contacts'
  <2> SUFFICES ASSUME NEW r \in Probes
               PROVE  /\ at[r] \in 1..Last => verdict'[r] = "none"
                      /\ at[r] = Last + 1 /\ verdict'[r] = "ok" =>
                            Required \subseteq Configured \ failed[r]
                      /\ at[r] = Last + 1 /\ verdict'[r] = "failed" =>
                            ~ Required \subseteq Configured \ failed[r]
    BY DEF Contacts, Contacting
  <2>1. CASE r # q
    BY <2>1 DEF Contacts, HealthTyped
  <2>2. CASE r = q
    BY <2>2 DEF HealthTyped
  <2> QED BY <2>1, <2>2
<1> QED BY <1>1, <1>2

LEMMA SetReadyStep ==
    ASSUME HealthInv, NEW q \in Probes, SetReady(q)
    PROVE  HealthInv'
<1> USE LastNat, SameNeeds DEF HealthInv, SetReady, Return
<1>1. HealthTyped'
  BY DEF HealthTyped
<1>2. Contacts'
  BY DEF Contacts, Contacting, HealthTyped
<1> QED BY <1>1, <1>2

LEMMA HealthStutter == ASSUME HealthInv, UNCHANGED healthVars PROVE HealthInv'
BY SameNeeds DEF healthVars, reportVars, HealthInv, HealthTyped, Contacts, Contacting

-----------------------------------------------------------------------------

LEMMA InitInv == Init => IInv
<1> SUFFICES ASSUME Init PROVE IInv
  OBVIOUS
<1> USE DEF Init, HttpInit, HealthInit
<1>1. HttpTyped /\ Path
  BY DEF HttpTyped, Path, Stages, Classes
<1>2. inFlight = Cardinality(Inside)
  <2>1. Inside = {}
    BY DEF Inside
  <2> QED BY <2>1, FS_EmptySet
<1>3. HealthTyped
  BY LastNat DEF HealthTyped
<1>4. Contacts
  BY LastNat DEF Contacts, Contacting
<1>5. Together
  BY DEF Together
<1> QED BY <1>1, <1>2, <1>3, <1>4, <1>5 DEF IInv, HttpInv, HealthInv

LEMMA ProbeStep ==
    ASSUME IInv, NEW q \in Probes, Probe(q)
    PROVE  IInv'
<1> USE DEF IInv
<1>0. q \in Requests
  BY ProbesAreRequests
<1>1. CASE BeginProbe(q)
  <2>1. Enter(q) /\ Begin(q)
    BY <1>1 DEF BeginProbe
  <2>2. at[q] = 0
    BY <2>1 DEF Enter, Move, Together
  <2>3. Together'
    BY <2>1, <1>0 DEF Enter, Move, Begin, Together, HealthInv, HealthTyped,
                      HttpInv, HttpTyped
  <2> QED BY <1>0, <2>1, <2>2, <2>3, HttpStep, BeginStep DEF HttpAction
<1>2. CASE AnswerProbe(q)
  <2>1. PICK class \in Classes : Start(q, class)
    BY <1>2 DEF AnswerProbe, Classes
  <2>2. Together'
    BY <1>2, <2>1 DEF AnswerProbe, Start, Move, healthVars, reportVars, Together,
                      HttpInv, HttpTyped
  <2>3. UNCHANGED healthVars
    BY <1>2 DEF AnswerProbe
  <2> QED BY <1>0, <2>1, <2>2, <2>3, HttpStep, HealthStutter DEF HttpAction
<1>3. CASE stage[q] = "app" /\ Reporting(q) /\ UNCHANGED httpVars
  <2>1. HealthInv'
    BY <1>3, ContactStep, ConcludeStep, SetReadyStep DEF Reporting
  <2>2. \A r \in Probes : r # q => at'[r] = at[r]
    BY <1>3 DEF Reporting, Contact, Conclude, SetReady, Return, HealthInv, HealthTyped
  <2>3. Together'
    BY <1>3, <2>2 DEF httpVars, Together
  <2> QED BY <1>3, <2>1, <2>3, HttpStutter
<1>4. CASE Wrapped(q) /\ UNCHANGED healthVars
  <2>1. stage[q] # "app"
    BY <1>4 DEF Wrapped, End, Observe, Leave, Unhandled, Move
  <2>2. \A r \in Probes : r # q => stage'[r] = stage[r]
    BY <1>0, <1>4, OneMoves, ProbesAreRequests DEF HttpAction
  <2>3. Together'
    BY <1>4, <2>1, <2>2 DEF Together, healthVars, reportVars
  <2> QED BY <1>0, <1>4, <2>3, HttpStep, HealthStutter DEF HttpAction
<1> QED BY <1>1, <1>2, <1>3, <1>4 DEF Probe

LEMMA OtherStep ==
    ASSUME IInv, NEW q \in Others, Other(q)
    PROVE  IInv'
<1> USE DEF IInv
<1>1. q \in Requests /\ q \notin Probes
  BY DEF Others
<1>2. HttpAction(q) /\ UNCHANGED healthVars
  BY DEF Other, HttpAction
<1>3. \A r \in Probes : stage'[r] = stage[r]
  BY <1>1, <1>2, OneMoves, ProbesAreRequests
<1>4. Together'
  BY <1>2, <1>3 DEF Together, healthVars, reportVars
<1> QED BY <1>1, <1>2, <1>4, HttpStep, HealthStutter

LEMMA StepInv == IInv /\ [Next]_vars => IInv'
<1> SUFFICES ASSUME IInv, [Next]_vars PROVE IInv'
  OBVIOUS
<1>1. ASSUME NEW s \in Services, Flip(s), UNCHANGED httpVars
      PROVE  IInv'
  <2>1. Together'
    BY <1>1 DEF Flip, httpVars, reportVars, Together, IInv
  <2> QED BY <1>1, <2>1, FlipStep, HttpStutter DEF IInv
<1>2. CASE UNCHANGED vars
  <2>1. Together'
    BY <1>2 DEF vars, httpVars, healthVars, reportVars, Together, IInv
  <2> QED BY <1>2, <2>1, HttpStutter, HealthStutter DEF vars, IInv
<1> QED BY <1>1, <1>2, ProbeStep, OtherStep DEF Next

LEMMA Invariance == Spec => []IInv
BY InitInv, StepInv, PTL DEF Spec

-----------------------------------------------------------------------------

\* Every variable keeps its type; the gauge counts requests that exist.
THEOREM TypeCorrect == Spec => []TypeOK
<1>1. IInv => TypeOK
  <2> SUFFICES ASSUME IInv PROVE TypeOK
    OBVIOUS
  <2>1. Inside \subseteq Requests
    BY DEF Inside
  <2>2. inFlight \in 0..Cardinality(Requests)
    BY <2>1, InsideFinite, ProbesAreRequests, FS_Subset, FS_CardinalityType
       DEF IInv, HttpInv
  <2> QED BY <2>2 DEF IInv, HttpInv, HealthInv, HttpTyped, HealthTyped, TypeOK
<1> QED BY <1>1, Invariance, PTL

\* No scrape misses a request: the gauge is the number of those inside the
\* middleware, and what has left the application is counted before it leaves.
THEOREM NoneEscapes == Spec => []EveryRequestShown
<1>1. IInv => EveryRequestShown
  <2> SUFFICES ASSUME IInv PROVE EveryRequestShown
    OBVIOUS
  <2>1. \A r \in Requests : stage[r] \in {"leave", "unhandled"} => counted[r] # "none"
    BY DEF IInv, HttpInv, HttpTyped, Path, Classes
  <2> QED BY <2>1 DEF IInv, HttpInv, Inside, EveryRequestShown
<1> QED BY <1>1, Invariance, PTL

\* The counter names the status the client got.
THEOREM CountsAnswers == Spec => []CountedAsAnswered
<1>1. IInv => CountedAsAnswered
  BY DEF IInv, HttpInv, Path, CountedAsAnswered
<1> QED BY <1>1, Invariance, PTL

\* A report that is ok has seen all it needs, whatever goes down meanwhile and
\* in whatever order the checks contact their services.
THEOREM ReadinessSeen == Spec => []ReadyWasSeen
<1>1. IInv => ReadyWasSeen
  <2> SUFFICES ASSUME IInv, NEW r \in Probes, Concluded(r), verdict[r] = "ok"
               PROVE  Required \subseteq Configured /\ Needed \subseteq seen[r]
    BY DEF ReadyWasSeen
  <2> USE LastNat DEF IInv, HealthInv
  <2>1. Required \subseteq Configured \ failed[r]
    BY DEF Contacts, Concluded
  <2>2. ASSUME NEW s \in Needed PROVE s \in seen[r]
    <3>1. PICK check \in Required : s \in Uses(check)
      BY DEF Needed
    <3>2. PICK i \in 1..Last : Plan[i].check = check /\ Plan[i].service = s
      BY <3>1 DEF Uses
    <3> QED BY <2>1, <2>2, <3>1, <3>2 DEF Contacts, Concluded
  <2> QED BY <2>1, <2>2
<1> QED BY <1>1, Invariance, PTL

\* A report that failed has found something it needs missing: what is optional
\* never makes it fail.
THEOREM OptionalNeverHarms == Spec => []OptionalHarmless
<1>1. IInv => OptionalHarmless
  <2> SUFFICES ASSUME IInv, NEW r \in Probes, Concluded(r), verdict[r] = "failed",
                      Required \subseteq Configured
               PROVE  r \in outage
    BY DEF OptionalHarmless
  <2>1. PICK check \in Required : check \in failed[r]
    BY DEF IInv, HealthInv, Contacts, Concluded
  <2> QED BY <2>1 DEF IInv, HealthInv, Contacts
<1> QED BY <1>1, Invariance, PTL

=============================================================================
