---------------------- MODULE TransitionRecordsProofs -----------------------
(***************************************************************************)
(* EventPublisher's invariants and AuditSink's promises, as the threads of *)
(* TransitionRecords use both, for any number of threads, producers and    *)
(* attempts and any backoff.                                               *)
(*                                                                         *)
(* A step of record_transition is one of the publisher's or leaves it      *)
(* alone, so PInv is shown inductive for the publisher and carried over.   *)
(* It adds to the three invariants what makes them inductive: attempts are *)
(* made only while no producer is installed (so that Install never finds   *)
(* one, and drops none), and what is left of the backoff makes up, once a  *)
(* failure has been noted, for the quiet time that is missing.             *)
(***************************************************************************)
EXTENDS TransitionRecords, FiniteSetTheorems, TLAPS

\* One attempt at a time, in terms of the threads.
OneAttempt ==
    /\ connecting <=> Attempting # {}
    /\ \A t, u \in Attempting : t = u

ClaimedWhileNone == connecting => producer = None

NotRetiredYet == closing = "no" => retired = None

BackoffLeft ==
    (\A t \in Threads : pc[t] # "defer") => wait + quiet >= Backoff

PInv ==
    /\ TypeOK /\ OneAttempt /\ ClaimedWhileNone /\ NotRetiredYet
    /\ BackoffLeft /\ BackoffHonoured /\ NoProducerLost

LEMMA PInit == Init => PInv
  <1> SUFFICES ASSUME Init PROVE PInv
    OBVIOUS
  <1> USE BackoffPositive DEF Init
  <1>1. TypeOK
    <2>1. wait \in 0..Backoff /\ quiet \in 0..Backoff
      OBVIOUS
    <2>2. connecting \in BOOLEAN /\ broker \in BOOLEAN
      OBVIOUS
    <2> QED  BY <2>1, <2>2 DEF TypeOK, PublishSteps
  <1>2. OneAttempt
    BY DEF OneAttempt, Attempting
  <1>3. ClaimedWhileNone /\ NotRetiredYet /\ BackoffLeft /\ BackoffHonoured /\ NoProducerLost
    BY DEF ClaimedWhileNone, NotRetiredYet, BackoffLeft, BackoffHonoured, NoProducerLost
  <1> QED  BY <1>1, <1>2, <1>3 DEF PInv

\* The steps that leave every thread where it is.
LEMMA OutsideStep ==
    ASSUME PInv, Tick \/ BrokerChanges \/ CloseSwap \/ CloseFlush
    PROVE  PInv'
  <1> USE BackoffPositive DEF PInv
  <1>1. pc' = pc /\ connecting' = connecting /\ local' = local
    BY DEF Tick, BrokerChanges, CloseSwap, CloseFlush
  <1>2. TypeOK'
    <2>1. CASE Tick
      BY <1>1, <2>1 DEF TypeOK, Tick
    <2>2. CASE BrokerChanges
      BY <1>1, <2>2 DEF TypeOK, BrokerChanges
    <2>3. CASE CloseSwap
      BY <1>1, <2>3 DEF TypeOK, CloseSwap
    <2>4. CASE CloseFlush
      BY <1>1, <2>4 DEF TypeOK, CloseFlush
    <2> QED  BY <2>1, <2>2, <2>3, <2>4
  <1>3. OneAttempt'
    BY <1>1 DEF OneAttempt, Attempting
  <1>4. ClaimedWhileNone' /\ NotRetiredYet'
    BY <1>1 DEF ClaimedWhileNone, NotRetiredYet, Tick, BrokerChanges, CloseSwap, CloseFlush
  <1>5. BackoffLeft' /\ BackoffHonoured'
    BY <1>1 DEF BackoffLeft, BackoffHonoured, TypeOK, Tick, BrokerChanges, CloseSwap, CloseFlush
  <1>6. NoProducerLost'
    <2>1. CASE CloseSwap
      BY <1>1, <2>1 DEF CloseSwap, NoProducerLost, NotRetiredYet, TypeOK
    <2>2. CASE CloseFlush
      BY <1>1, <2>2 DEF CloseFlush, NoProducerLost
    <2>3. CASE Tick \/ BrokerChanges
      BY <1>1, <2>3 DEF Tick, BrokerChanges, NoProducerLost
    <2> QED  BY <2>1, <2>2, <2>3
  <1> QED  BY <1>2, <1>3, <1>4, <1>5, <1>6

\* The steps of a thread that is not in an attempt, before or after.
LEMMA PlainStep ==
    ASSUME PInv, NEW t \in Threads,
           \/ Publish(t) \/ Send(t)
           \/ Lookup(t) /\ pc'[t] # "create"
    PROVE  PInv'
  <1> USE DEF PInv
  <1>1. /\ UNCHANGED <<producer, connecting, wait, open, closing, retired, broker, quiet>>
        /\ pc[t] \in {"idle", "lookup", "send"}
        /\ \E to \in {"idle", "lookup", "send"} : pc' = [pc EXCEPT ![t] = to]
        /\ \E p \in Producers \cup {None} : local' = [local EXCEPT ![t] = p]
    BY DEF Publish, Send, Lookup, GoTo, Take, TypeOK
  <1>2. TypeOK'
    BY <1>1 DEF TypeOK, PublishSteps
  <1>3. Attempting' = Attempting
    BY <1>1 DEF Attempting, TypeOK
  <1>4. OneAttempt' /\ ClaimedWhileNone' /\ NotRetiredYet'
    BY <1>1, <1>3 DEF OneAttempt, ClaimedWhileNone, NotRetiredYet
  <1>5. \A u \in Threads :
            /\ pc'[u] \in {"create", "defer", "install"} <=> pc[u] \in {"create", "defer", "install"}
            /\ pc'[u] \in {"create", "defer", "install"} => pc'[u] = pc[u] /\ local'[u] = local[u]
    BY <1>1 DEF TypeOK
  <1>6. BackoffLeft' /\ BackoffHonoured'
    BY <1>1, <1>5 DEF BackoffLeft, BackoffHonoured
  <1>7. NoProducerLost'
    BY <1>1, <1>5 DEF NoProducerLost
  <1> QED  BY <1>2, <1>4, <1>6, <1>7

\* A thread claims the attempt: nobody else had.
LEMMA ClaimStep ==
    ASSUME PInv, NEW t \in Threads, Lookup(t), pc'[t] = "create"
    PROVE  PInv'
  <1> USE BackoffPositive DEF PInv
  <1>1. /\ UNCHANGED <<producer, wait, open, closing, retired, broker, quiet, local>>
        /\ pc[t] = "lookup" /\ pc' = [pc EXCEPT ![t] = "create"]
        /\ producer = None /\ ~ connecting /\ wait = 0 /\ connecting' = TRUE
    BY DEF Lookup, GoTo, TypeOK
  <1>2. TypeOK'
    BY <1>1 DEF TypeOK, PublishSteps
  <1>3. Attempting = {} /\ Attempting' = {t}
    BY <1>1 DEF OneAttempt, Attempting, TypeOK
  <1>4. OneAttempt' /\ ClaimedWhileNone' /\ NotRetiredYet'
    BY <1>1, <1>3 DEF OneAttempt, ClaimedWhileNone, NotRetiredYet
  <1>5. quiet = Backoff
    BY <1>1, <1>3 DEF BackoffLeft, Attempting, TypeOK
  <1>6. BackoffLeft' /\ BackoffHonoured'
    BY <1>1, <1>5 DEF BackoffLeft, BackoffHonoured, TypeOK
  <1>7. NoProducerLost'
    BY <1>1, <1>3 DEF NoProducerLost, Attempting, TypeOK
  <1> QED  BY <1>2, <1>4, <1>6, <1>7

\* The thread in the attempt goes on with it, or ends it.
LEMMA AttemptStep ==
    ASSUME PInv, NEW t \in Threads, Create(t) \/ Defer(t) \/ Install(t)
    PROVE  PInv'
  <1> USE BackoffPositive DEF PInv
  <1>1. /\ pc[t] \in {"create", "defer", "install"}
        /\ t \in Attempting /\ Attempting = {t} /\ connecting /\ producer = None
    BY DEF Create, Defer, Install, GoTo, OneAttempt, Attempting, ClaimedWhileNone
  <1>2. \A u \in Threads : u # t => pc[u] \notin {"create", "defer", "install"}
    BY <1>1 DEF Attempting
  <1>3. /\ \E to \in PublishSteps : pc' = [pc EXCEPT ![t] = to]
        /\ UNCHANGED <<closing, retired, broker>>
    BY DEF Create, Defer, Install, GoTo, PublishSteps
  <1>4. \A u \in Threads : u # t => pc'[u] = pc[u]
    BY <1>3 DEF TypeOK
  <1>5. CASE Create(t)
    <2>1. /\ pc'[t] \in {"install", "defer"} /\ pc[t] = "create"
          /\ UNCHANGED <<producer, connecting, wait>>
      BY <1>5 DEF Create, GoTo, TypeOK
    <2>2. TypeOK'
      <3>1. pc' \in [Threads -> PublishSteps]
        BY <1>3 DEF TypeOK
      <3>2. open' \subseteq Producers /\ local' \in [Threads -> Producers \cup {None}]
        BY <1>5 DEF Create, TypeOK, Take
      <3>3. quiet' \in 0..Backoff
        BY <1>5 DEF Create, TypeOK
      <3> QED  BY <1>3, <2>1, <3>1, <3>2, <3>3 DEF TypeOK
    <2>3. Attempting' = {t}
      BY <1>2, <1>4, <2>1 DEF Attempting
    <2>4. OneAttempt' /\ ClaimedWhileNone' /\ NotRetiredYet'
      BY <1>1, <1>3, <2>1, <2>3 DEF OneAttempt, ClaimedWhileNone, NotRetiredYet
    <2>5. BackoffHonoured'
      BY <1>2, <1>4, <2>1 DEF BackoffHonoured
    <2>6. quiet = Backoff
      BY <2>1 DEF BackoffHonoured
    <2>7. BackoffLeft'
      BY <1>5, <2>1, <2>6 DEF BackoffLeft, Create, TypeOK, GoTo
    <2>8. NoProducerLost'
      BY <1>2, <1>3, <1>4, <1>5, <2>1 DEF NoProducerLost, Create, Take, TypeOK, GoTo
    <2> QED  BY <2>2, <2>4, <2>5, <2>7, <2>8
  <1>6. CASE Defer(t)
    <2>1. /\ pc'[t] = "idle" /\ pc[t] = "defer" /\ connecting' = FALSE /\ wait' = Backoff
          /\ UNCHANGED <<producer, local, open, quiet>>
      BY <1>6 DEF Defer, GoTo, TypeOK
    <2>2. TypeOK'
      <3>1. pc' \in [Threads -> PublishSteps] /\ wait' \in 0..Backoff
        BY <1>3, <2>1 DEF TypeOK
      <3>2. connecting' \in BOOLEAN
        BY <2>1
      <3> QED  BY <1>3, <2>1, <3>1, <3>2 DEF TypeOK
    <2>3. Attempting' = {}
      BY <1>2, <1>4, <2>1 DEF Attempting
    <2>4. OneAttempt' /\ ClaimedWhileNone' /\ NotRetiredYet'
      BY <1>3, <2>1, <2>3 DEF OneAttempt, ClaimedWhileNone, NotRetiredYet
    <2>5. BackoffHonoured' /\ BackoffLeft'
      BY <1>2, <1>4, <2>1 DEF BackoffHonoured, BackoffLeft, TypeOK
    <2>6. NoProducerLost'
      BY <1>2, <1>3, <1>4, <2>1 DEF NoProducerLost
    <2> QED  BY <2>2, <2>4, <2>5, <2>6
  <1>7. CASE Install(t)
    <2>1. /\ pc'[t] = "send" /\ pc[t] = "install" /\ connecting' = FALSE
          /\ producer' = local[t] /\ local' = [local EXCEPT ![t] = local[t]]
          /\ UNCHANGED <<wait, open, quiet>>
      BY <1>1, <1>7 DEF Install, GoTo, Take, TypeOK
    <2>2. TypeOK'
      <3>1. pc' \in [Threads -> PublishSteps]
        BY <1>3 DEF TypeOK
      <3>2. /\ producer' \in Producers \cup {None}
            /\ local' \in [Threads -> Producers \cup {None}]
        BY <2>1 DEF TypeOK
      <3>3. connecting' \in BOOLEAN
        BY <2>1
      <3> QED  BY <1>3, <2>1, <3>1, <3>2, <3>3 DEF TypeOK
    <2>3. Attempting' = {}
      BY <1>2, <1>4, <2>1 DEF Attempting
    <2>4. OneAttempt' /\ ClaimedWhileNone' /\ NotRetiredYet'
      BY <1>3, <2>1, <2>3 DEF OneAttempt, ClaimedWhileNone, NotRetiredYet
    <2>5. BackoffHonoured' /\ BackoffLeft'
      BY <1>2, <1>4, <2>1 DEF BackoffHonoured, BackoffLeft, TypeOK
    <2>6. NoProducerLost'
      <3>1. open \subseteq {producer, retired, local[t]}
        BY <1>2, <2>1 DEF NoProducerLost
      <3>2. None \notin open
        BY NoneIsNoProducer DEF TypeOK
      <3> QED  BY <1>1, <1>3, <2>1, <3>1, <3>2 DEF NoProducerLost
    <2> QED  BY <2>2, <2>4, <2>5, <2>6
  <1> QED  BY <1>5, <1>6, <1>7

LEMMA PNext == PInv /\ [Next]_vars => PInv'
  <1> SUFFICES ASSUME PInv, [Next]_vars PROVE PInv'
    OBVIOUS
  <1>1. CASE UNCHANGED vars
    BY <1>1 DEF vars, PInv, TypeOK, OneAttempt, Attempting, ClaimedWhileNone,
                NotRetiredYet, BackoffLeft, BackoffHonoured, NoProducerLost
  <1>2. CASE Tick \/ BrokerChanges \/ CloseSwap \/ CloseFlush
    BY <1>2, OutsideStep
  <1>3. ASSUME NEW t \in Threads, Publish(t) \/ Thread(t) PROVE PInv'
    BY <1>3, PlainStep, ClaimStep, AttemptStep DEF Thread
  <1> QED  BY <1>1, <1>2, <1>3 DEF Next

-----------------------------------------------------------------------------
(* record_transition's steps are the publisher's, or leave it alone. *)

LEMMA PublisherStep == [RecordNext]_recordVars => [Next]_vars
  <1> SUFFICES ASSUME [RecordNext]_recordVars, ~ UNCHANGED vars
               PROVE  Next
    OBVIOUS
  <1>1. ~ UNCHANGED recordVars
    BY DEF recordVars
  <1>2. CASE Tick \/ BrokerChanges \/ CloseSwap \/ CloseFlush
    BY <1>2 DEF Next
  <1>3. ASSUME NEW t \in Threads, BeginRecord(t) \/ RecordStep(t) \/ Outside(t)
        PROVE  Publish(t) \/ Thread(t)
    BY <1>3 DEF RecordStep, BeginRecord, AuditStep, PublishRecord, PublishStep, Outside
  <1> QED  BY <1>1, <1>2, <1>3 DEF RecordNext, Next

\* record_transition implements EventPublisher: whatever is so of the publisher
\* under any use of it is so under the handlers' use.
THEOREM ImplementsPublisher == RecordSafe => Safe
  <1>1. RecordInit => Init
    BY DEF RecordInit
  <1> QED  BY <1>1, PublisherStep, PTL DEF RecordSafe, Safe

LEMMA PublisherInv == RecordSafe => []PInv
  <1>1. RecordInit => PInv
    BY PInit DEF RecordInit
  <1>2. PInv /\ [RecordNext]_recordVars => PInv'
    BY PNext, PublisherStep
  <1> QED  BY <1>1, <1>2, PTL DEF RecordSafe

\* The publisher's types: what is left of the backoff never exceeds it, and no
\* thread sends to what is no producer.
THEOREM PublisherTypes == RecordSafe => []TypeOK
  <1>1. PInv => TypeOK
    BY DEF PInv
  <1> QED  BY <1>1, PublisherInv, PTL

\* Producer creation is single-flight for any number of threads.
THEOREM OneFlight == RecordSafe => []SingleFlight
  <1>1. ASSUME OneAttempt PROVE SingleFlight
    <2>1. CASE Attempting = {}
      BY <1>1, <2>1, FS_EmptySet DEF OneAttempt, SingleFlight
    <2>2. ASSUME NEW t \in Attempting PROVE SingleFlight
      <3>1. Attempting = {t}
        BY <1>1, <2>2 DEF OneAttempt
      <3>2. Cardinality({t}) = 1
        BY FS_Singleton
      <3> QED  BY <1>1, <3>1, <3>2 DEF OneAttempt, SingleFlight
    <2> QED  BY <2>1, <2>2
  <1>2. PInv => SingleFlight
    BY <1>1 DEF PInv
  <1> QED  BY <1>2, PublisherInv, PTL

\* No connection is begun within the backoff of one that failed, whatever the
\* backoff and however long the attempt took.
THEOREM BackoffKept == RecordSafe => []BackoffHonoured
  <1>1. PInv => BackoffHonoured
    BY DEF PInv
  <1> QED  BY <1>1, PublisherInv, PTL

\* No producer is left open and forgotten, whenever the process exits.
THEOREM NoneLost == RecordSafe => []NoProducerLost
  <1>1. PInv => NoProducerLost
    BY DEF PInv
  <1> QED  BY <1>1, PublisherInv, PTL

-----------------------------------------------------------------------------
(* The audit sink.  AuditLog's Keep is for writes that have not returned,   *)
(* so a late request must find the record of one that has: Evidence.  The   *)
(* requests given up are among those sent: Counted.                         *)

Evidence ==
    \A w \in Writers :
        /\ write[w] = "none" => late[w] = 0
        /\ sink.backend # "off" /\ write[w] = "ok" => w \in stored

Counted ==
    \A w \in Writers :
        /\ write[w] \in {"none", "ok", "failed"} => tries[w] = 0
        /\ sink.backend = "off" => tries[w] = 0
        /\ write[w] = "send" => tries[w] < Attempts
        /\ write[w] = "sent" => late[w] < tries[w]
        /\ write[w] \in {"send", "unheard"} => late[w] <= tries[w]

SInv == SinkTypeOK /\ Evidence /\ Counted

\* What the constructor refuses leaves only stores that protect their records.
LEMMA DurableIsProtected ==
    ASSUME SinkTypeOK, sink.backend # "off"
    PROVE  Protected
  BY BackendsKnown DEF SinkTypeOK, Accepted, Configurations, Protected

LEMMA SInit == SinkInit => SInv
  BY AttemptsPositive DEF SinkInit, SInv, SinkTypeOK, Evidence, Counted, WriteSteps

\* What AuditLog sees of a step that moves one place to state "to".
Seen(to) == IF to \in {"none"} \cup Settled THEN to ELSE "writing"

LEMMA Mapped ==
    ASSUME SinkTypeOK, NEW w \in Writers, NEW to \in WriteSteps,
           sink' = sink, write' = [write EXCEPT ![w] = to]
    PROVE  /\ sink.backend = "off" =>
                  /\ Outcomes' = Outcomes
                  /\ Kept = {} /\ Kept' = {}
           /\ sink.backend # "off" =>
                  /\ Outcomes' = [Outcomes EXCEPT ![w] = Seen(to)]
                  /\ Outcomes[w] = Seen(write[w])
                  /\ Outcomes \in [Writers -> {"none", "writing"} \cup Settled]
                  /\ Kept = stored /\ Kept' = stored'
  <1>1. CASE sink.backend = "off"
    <2>1. Outcomes = [u \in Writers |-> "none"] /\ Outcomes' = [u \in Writers |-> "none"]
      BY <1>1 DEF Outcomes, Outcome
    <2>2. Kept = {} /\ Kept' = {}
      BY <1>1 DEF Kept
    <2> QED  BY <1>1, <2>1, <2>2
  <1>2. CASE sink.backend # "off"
    <2>1. /\ Outcomes = [u \in Writers |-> Seen(write[u])]
          /\ Outcomes' = [u \in Writers |-> Seen(write'[u])]
      BY <1>2 DEF Outcomes, Outcome, Seen
    <2>2. Kept = stored /\ Kept' = stored'
      BY <1>2 DEF Kept
    <2>3. write'[w] = to /\ \A u \in Writers : u # w => write'[u] = write[u]
      BY DEF SinkTypeOK
    <2>4. \A u \in Writers : Seen(write[u]) \in {"none", "writing"} \cup Settled
      BY DEF Seen
    <2> QED  BY <1>2, <2>1, <2>2, <2>3, <2>4
  <1> QED  BY <1>1, <1>2

\* The moves of a write, as AuditLog sees them.
LEMMA WriteMove ==
    ASSUME SInv, NEW w \in Writers, NEW to \in WriteSteps,
           sink' = sink, write' = [write EXCEPT ![w] = to],
           \/ Seen(write[w]) # "writing" /\ to = "send" /\ stored' = stored \ {w}
           \/ /\ Seen(write[w]) = "writing" /\ to \notin {"none", "ok"}
              /\ stored' = stored
           \/ /\ Seen(write[w]) = "writing" /\ to \in {"ok", "unheard"}
              /\ stored' = stored \cup {w}
           \/ to = write[w] /\ to # "none" /\ stored' = stored \cup {w}
           \/ to = write[w] /\ stored' = stored
    PROVE  \/ Log!Begin(w) \/ Log!Keep(w) \/ Log!End(w)
           \/ Outcomes' = Outcomes /\ Kept' = Kept
  <1>1. CASE sink.backend = "off"
    BY <1>1, Mapped DEF SInv
  <1>2. CASE sink.backend # "off"
    <2>1. /\ Outcomes' = [Outcomes EXCEPT ![w] = Seen(to)]
          /\ Outcomes[w] = Seen(write[w])
          /\ Outcomes \in [Writers -> {"none", "writing"} \cup Settled]
          /\ Kept = stored /\ Kept' = stored'
      BY <1>2, Mapped DEF SInv
    <2>2. Outcomes[w] = Seen(to) => Outcomes' = Outcomes
      BY <2>1
    <2>3. write[w] = "ok" => w \in stored
      BY <1>2 DEF SInv, Evidence
    <2>4. CASE Seen(write[w]) # "writing" /\ to = "send" /\ stored' = stored \ {w}
      BY <2>1, <2>4 DEF Log!Begin, Seen, Settled
    <2>5. CASE Seen(write[w]) = "writing" /\ to \notin {"none", "ok"} /\ stored' = stored
      BY <2>1, <2>2, <2>5 DEF Log!End, Log!Fail, Seen, Settled
    <2>6. CASE Seen(write[w]) = "writing" /\ to = "ok" /\ stored' = stored \cup {w}
      BY <2>1, <2>6 DEF Log!End, Log!Succeed, Seen, Settled
    <2>7. CASE Seen(write[w]) = "writing" /\ to = "unheard" /\ stored' = stored \cup {w}
      BY <2>1, <2>2, <2>7 DEF Log!Keep, Seen, Settled
    <2>8. CASE to = write[w] /\ to # "none" /\ stored' = stored \cup {w}
      <3>1. CASE w \in stored
        BY <2>1, <2>2, <2>8, <3>1
      <3>2. CASE w \notin stored
        BY <2>1, <2>2, <2>3, <2>8, <3>2 DEF Log!Keep, Seen, Settled
      <3> QED  BY <3>1, <3>2
    <2>9. CASE to = write[w] /\ stored' = stored
      BY <2>1, <2>2, <2>9
    <2> QED  BY <2>4, <2>5, <2>6, <2>7, <2>8, <2>9
  <1> QED  BY <1>1, <1>2

\* Every step of a write moves its own place only.
LEMMA SinkStep ==
    ASSUME SInv, NEW w \in Writers,
           StartWrite(w) \/ Write(w) \/ LateAttempt(w) \/ Remove(w)
    PROVE  /\ SInv'
           /\ \/ Log!Begin(w) \/ Log!Keep(w) \/ Log!End(w)
              \/ Outcomes' = Outcomes /\ Kept' = Kept
  <1> USE AttemptsPositive DEF SInv
  <1>1. CASE StartWrite(w)
    <2>1. SInv'
      BY <1>1 DEF StartWrite, SinkTypeOK, WriteSteps, Evidence, Counted, Settled
    <2>2. Seen(write[w]) # "writing"
      BY <1>1 DEF StartWrite, Seen, Settled
    <2> QED  BY <1>1, <2>1, <2>2, WriteMove DEF StartWrite, WriteSteps
  <1>2. CASE StoreLocally(w)
    <2>1. SInv'
      BY <1>2 DEF StoreLocally, SinkTypeOK, WriteSteps, Evidence, Counted, Settled
    <2>2. Seen(write[w]) = "writing"
      BY <1>2 DEF StoreLocally, Seen, Settled
    <2> QED  BY <1>2, <2>1, <2>2, WriteMove DEF StoreLocally, WriteSteps
  <1>3. CASE SendAttempt(w)
    <2>1. SInv'
      BY <1>3 DEF SendAttempt, SinkTypeOK, WriteSteps, Evidence, Counted, Settled
    <2>2. Seen(write[w]) = "writing"
      BY <1>3 DEF SendAttempt, Seen, Settled
    <2> QED  BY <1>3, <2>1, <2>2, WriteMove DEF SendAttempt, WriteSteps
  <1>4. CASE HandleAttempt(w)
    <2>1. PICK to \in WriteSteps :
             /\ Hear(w, to) /\ sink' = sink /\ late' = late
             /\ \/ to \in {"ok", "unheard"} /\ stored' = stored \cup {w}
                \/ to \in {"failed", "unheard", "send"} /\ stored' = stored
             /\ to = "send" => tries[w] < Attempts
      BY <1>4 DEF HandleAttempt, Retried, WriteSteps
    <2>2. SInv'
      <3>1. sink' \in Accepted /\ late' \in [Writers -> 0..Attempts] /\ stored' \subseteq Writers
        BY <2>1 DEF SinkTypeOK
      <3>2. /\ write' \in [Writers -> WriteSteps] /\ write'[w] = to
            /\ \A u \in Writers : u # w => write'[u] = write[u]
        BY <2>1 DEF SinkTypeOK, Hear
      <3>3. /\ tries' \in [Writers -> 0..Attempts]
            /\ tries'[w] = IF to \in Settled THEN 0 ELSE tries[w]
            /\ \A u \in Writers : u # w => tries'[u] = tries[u]
        BY <2>1 DEF SinkTypeOK, Hear
      <3>4. Evidence'
        BY <2>1, <3>1, <3>2 DEF SinkTypeOK, Evidence
      <3>5. write[w] = "sent" /\ late[w] < tries[w]
        BY <1>4 DEF HandleAttempt, Counted
      <3>6. Counted'
        BY <2>1, <3>2, <3>3, <3>5 DEF SinkTypeOK, Counted, Settled
      <3> QED  BY <3>1, <3>2, <3>3, <3>4, <3>6 DEF SinkTypeOK
    <2>3. Seen(write[w]) = "writing"
      BY <1>4 DEF HandleAttempt, Seen, Settled
    <2> QED  BY <2>1, <2>2, <2>3, WriteMove DEF Hear
  <1>5. CASE AttemptTimesOut(w)
    <2>1. PICK to \in {"send", "failed"} :
             Hear(w, to) /\ (to = "send" => tries[w] < Attempts)
      BY <1>5 DEF AttemptTimesOut, Retried
    <2>2. SInv'
      <3>1. /\ sink' = sink /\ stored' = stored
            /\ write[w] \in {"sent", "unheard"}
            /\ late' = [late EXCEPT ![w] = IF write[w] = "sent" THEN @ + 1 ELSE @]
        BY <1>5 DEF AttemptTimesOut
      <3>2. /\ write' \in [Writers -> WriteSteps] /\ write'[w] = to
            /\ \A u \in Writers : u # w => write'[u] = write[u]
        BY <2>1 DEF SinkTypeOK, Hear, WriteSteps
      <3>3. /\ tries' \in [Writers -> 0..Attempts]
            /\ tries'[w] = IF to \in Settled THEN 0 ELSE tries[w]
            /\ \A u \in Writers : u # w => tries'[u] = tries[u]
        BY <2>1 DEF SinkTypeOK, Hear
      <3>4. late[w] <= tries[w] /\ (write[w] = "sent" => late[w] < tries[w])
        BY <3>1 DEF Counted, SinkTypeOK
      <3>5. /\ late' \in [Writers -> 0..Attempts] /\ late'[w] <= tries[w]
            /\ \A u \in Writers : u # w => late'[u] = late[u]
        BY <3>1, <3>4 DEF SinkTypeOK
      <3>6. Evidence'
        BY <2>1, <3>1, <3>2, <3>5 DEF SinkTypeOK, Evidence
      <3>7. Counted'
        <4>1. \A u \in Writers : tries[u] \in Nat /\ Attempts \in Nat /\ late'[u] \in Nat
          BY <3>5 DEF SinkTypeOK
        <4>2. sink.backend = "off" => tries'[w] = 0
          BY <3>3 DEF Counted
        <4> QED  BY <2>1, <3>1, <3>2, <3>3, <3>5, <4>1, <4>2 DEF Counted, Settled
      <3> QED  BY <3>1, <3>2, <3>3, <3>5, <3>6, <3>7 DEF SinkTypeOK
    <2>3. Seen(write[w]) = "writing"
      BY <1>5 DEF AttemptTimesOut, Seen, Settled
    <2> QED  BY <1>5, <2>1, <2>2, <2>3, WriteMove DEF AttemptTimesOut, Hear, WriteSteps
  <1>6. CASE LateAttempt(w)
    <2>1. /\ sink' = sink /\ write' = write /\ write[w] \in WriteSteps /\ write[w] # "none"
          /\ write' = [write EXCEPT ![w] = write[w]]
          /\ stored' = stored \/ stored' = stored \cup {w}
      BY <1>6 DEF LateAttempt, SinkTypeOK, Evidence, Counted
    <2>2. SInv'
      BY <1>6 DEF LateAttempt, SinkTypeOK, Evidence, Counted
    <2> QED  BY <2>1, <2>2, WriteMove
  <1>7. CASE Remove(w)
    <2>1. sink.backend = "off"
      BY <1>7, DurableIsProtected DEF Remove
    <2>2. SInv'
      BY <1>7, <2>1 DEF Remove, SinkTypeOK, Evidence, Counted
    <2>3. /\ sink' = sink /\ write[w] \in WriteSteps
          /\ write' = [write EXCEPT ![w] = write[w]]
      BY <1>7 DEF Remove, SinkTypeOK
    <2> QED  BY <2>1, <2>2, <2>3, Mapped
  <1> QED  BY <1>1, <1>2, <1>3, <1>4, <1>5, <1>6, <1>7 DEF Write

\* record_transition's steps are the sink's, one place at a time.
LEMMA RecordSinkStep ==
    ASSUME SInv, [RecordNext]_recordVars
    PROVE  SInv' /\ [Log!Next]_(Log!logVars)
  <1>1. CASE UNCHANGED sinkVars
    <2>1. SInv'
      BY <1>1 DEF sinkVars, writeVars, SInv, SinkTypeOK, Evidence, Counted
    <2>2. Outcomes' = Outcomes /\ Kept' = Kept
      BY <1>1 DEF sinkVars, writeVars, Outcomes, Outcome, Kept
    <2> QED  BY <2>1, <2>2 DEF Log!logVars
  <1>2. ASSUME NEW w \in Writers, StartWrite(w) \/ Write(w) \/ LateAttempt(w) \/ Remove(w)
        PROVE  SInv' /\ [Log!Next]_(Log!logVars)
    BY <1>2, SinkStep DEF Log!Next, Log!logVars
  <1>3. CASE UNCHANGED recordVars
    BY <1>1, <1>3 DEF recordVars
  <1>4. CASE /\ Tick \/ BrokerChanges \/ CloseSwap \/ CloseFlush
             /\ UNCHANGED <<sinkVars, stage>>
    BY <1>1, <1>4
  <1>5. ASSUME NEW t \in Threads, BeginRecord(t) \/ RecordStep(t) \/ Outside(t)
        PROVE  SInv' /\ [Log!Next]_(Log!logVars)
    <2>1. t \in Writers
      BY ThreadsWrite
    <2> QED  BY <1>1, <1>2, <1>5, <2>1
             DEF BeginRecord, RecordStep, AuditStep, PublishRecord, PublishStep, Outside
  <1> QED  BY <1>3, <1>4, <1>5 DEF RecordNext

\* The sink's types: the requests that were given up are among those sent.
THEOREM SinkTypes == RecordSafe => []SinkTypeOK
  <1>1. RecordInit => SInv
    BY SInit DEF RecordInit
  <1>2. SInv /\ [RecordNext]_recordVars => SInv'
    BY RecordSinkStep
  <1>3. SInv => SinkTypeOK
    BY DEF SInv
  <1> QED  BY <1>1, <1>2, <1>3, PTL DEF RecordSafe

\* Whatever becomes of requests and answers, on every backend the constructor
\* accepts: a write that returned is in the store for good (AuditLog's safety).
THEOREM RefinesAuditLog == RecordSafe => Log!Safe
  <1>1. RecordInit => SInv /\ Log!Init
    <2>1. ASSUME RecordInit PROVE Log!Init
      BY <2>1 DEF RecordInit, SinkInit, Log!Init, Outcomes, Outcome, Kept
    <2> QED  BY <2>1, SInit DEF RecordInit
  <1>2. SInv /\ [RecordNext]_recordVars => SInv' /\ [Log!Next]_(Log!logVars)
    BY RecordSinkStep
  <1> QED  BY <1>1, <1>2, PTL DEF RecordSafe, Log!Safe

-----------------------------------------------------------------------------
(* The two together: where a thread is in publish() and in its audit write  *)
(* follow from where it is in record_transition.                            *)

InStep ==
    /\ stage \in [Threads -> {"idle", "audit", "publish"}]
    /\ \A t \in Threads :
          /\ pc[t] # "idle" <=> stage[t] = "publish"
          /\ stage[t] = "publish" => write[t] \in Settled

LEMMA InStepByAll == PInv /\ SInv /\ InStep /\ [RecordNext]_recordVars => InStep'
  <1> SUFFICES ASSUME PInv, SInv, InStep, [RecordNext]_recordVars PROVE InStep'
    OBVIOUS
  <1>1. /\ pc \in [Threads -> PublishSteps] /\ write \in [Threads -> WriteSteps]
        /\ stage \in [Threads -> {"idle", "audit", "publish"}]
    BY ThreadsWrite DEF PInv, TypeOK, SInv, SinkTypeOK, InStep
  <1>2. CASE pc' = pc /\ stage' = stage /\ write' = write
    BY <1>2 DEF InStep
  <1>3. ASSUME NEW t \in Threads, BeginRecord(t) PROVE InStep'
    <2>1. /\ pc' = pc /\ stage[t] = "idle" /\ stage' = [stage EXCEPT ![t] = "audit"]
          /\ write' = [write EXCEPT ![t] = "send"]
      BY <1>3 DEF BeginRecord, Enter, StartWrite, vars
    <2> QED  BY <1>1, <2>1 DEF InStep
  <1>4. ASSUME NEW t \in Threads, AuditStep(t) PROVE InStep'
    <2>1. /\ pc' = pc /\ stage' = stage /\ stage[t] = "audit"
          /\ \A u \in Threads : u # t => write'[u] = write[u]
      BY <1>1, <1>4 DEF AuditStep, vars, Write, StoreLocally, SendAttempt, HandleAttempt,
                       AttemptTimesOut, Hear
    <2> QED  BY <1>1, <2>1 DEF InStep
  <1>5. ASSUME NEW t \in Threads, PublishRecord(t) PROVE InStep'
    <2>1. /\ pc' = [pc EXCEPT ![t] = "lookup"] /\ stage' = [stage EXCEPT ![t] = "publish"]
          /\ write' = write /\ write[t] \in Settled
      BY <1>5 DEF PublishRecord, Enter, Publish, GoTo, sinkVars, writeVars
    <2> QED  BY <1>1, <2>1 DEF InStep
  <1>6. ASSUME NEW t \in Threads, PublishStep(t) PROVE InStep'
    <2>1. /\ write' = write /\ stage[t] = "publish"
          /\ stage' = [stage EXCEPT ![t] = IF pc'[t] = "idle" THEN "idle" ELSE "publish"]
          /\ \A u \in Threads : u # t => pc'[u] = pc[u]
      BY <1>1, <1>6 DEF PublishStep, sinkVars, writeVars, Thread, Lookup, Create, Defer, Install,
                       Send, GoTo
    <2> QED  BY <1>1, <2>1 DEF InStep
  <1>7. ASSUME NEW t \in Threads, Outside(t) PROVE InStep'
    <2>1. pc' = pc /\ stage' = stage /\ write' = write
      BY <1>7 DEF Outside, vars, LateAttempt, Remove
    <2> QED  BY <1>2, <2>1
  <1>8. CASE (Tick \/ BrokerChanges \/ CloseSwap \/ CloseFlush) /\ UNCHANGED <<sinkVars, stage>>
    <2>1. pc' = pc /\ stage' = stage /\ write' = write
      BY <1>8 DEF Tick, BrokerChanges, CloseSwap, CloseFlush, sinkVars, writeVars
    <2> QED  BY <1>2, <2>1
  <1>9. CASE UNCHANGED recordVars
    BY <1>2, <1>9 DEF recordVars, vars, sinkVars, writeVars
  <1> QED  BY <1>3, <1>4, <1>5, <1>6, <1>7, <1>8, <1>9 DEF RecordNext, RecordStep

\* A transition's event is under way only once its audit write has ended, and
\* if that write returned, on a backend that lasts, the record is in the store
\* all the while: neither the brokers' outage nor another thread's write, nor a
\* late request of its own, takes it away (record_transition's order).
RecordBeforeEvent ==
    \A t \in Threads :
        pc[t] # "idle" =>
            /\ stage[t] = "publish"
            /\ write[t] \in Settled
            /\ sink.backend # "off" /\ write[t] = "ok" => t \in stored

\* Who reads a transition's event can find the evidence of it, or its write has
\* raised (record_transition writes, and then publishes).
THEOREM RecordsComeFirst == RecordSafe => []RecordBeforeEvent
  <1>1. RecordInit => SInv /\ InStep
    <2>1. ASSUME RecordInit PROVE InStep
      BY <2>1 DEF RecordInit, Init, InStep
    <2> QED  BY <2>1, SInit DEF RecordInit
  <1>2. PInv /\ SInv /\ InStep /\ [RecordNext]_recordVars => SInv' /\ InStep'
    BY RecordSinkStep, InStepByAll
  <1>3. SInv /\ InStep => RecordBeforeEvent
    BY ThreadsWrite DEF SInv, Evidence, InStep, RecordBeforeEvent
  <1> QED  BY <1>1, <1>2, <1>3, PublisherInv, PTL DEF RecordSafe

=============================================================================
