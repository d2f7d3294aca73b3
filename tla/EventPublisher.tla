--------------------------- MODULE EventPublisher ---------------------------
(***************************************************************************)
(* contexts/governance/publisher.py: EventPublisher.  Request threads      *)
(* publish; the first that finds no producer connects, outside the lock,   *)
(* while the others skip the broker; a failed connection is not tried      *)
(* again before a backoff has passed; close(), registered with atexit,     *)
(* runs in the exiting main thread while request threads may be anywhere.  *)
(*                                                                         *)
(* Time is kept as what is left of the backoff, so that it needs no bound. *)
(***************************************************************************)
EXTENDS Naturals, FiniteSets

CONSTANTS
    Threads,     \* threads that publish
    Producers,   \* the KafkaProducer objects that may be open at once
    None,        \* no producer
    Backoff      \* KAFKA_RECONNECT_BACKOFF_SECONDS, in ticks

ASSUME BackoffPositive == Backoff \in Nat \ {0}
ASSUME NoneIsNoProducer == None \notin Producers

VARIABLES
    producer,     \* _producer
    connecting,   \* _connecting
    wait,         \* ticks until _next_connection_attempt, 0 once it is reached
    pc,           \* where each thread is in publish()
    local,        \* the producer each thread holds
    open,         \* the producers created and not closed
    closing,      \* where close() is: "no", "flush" or "closed"
    retired,      \* the producer close() has taken out
    broker,       \* the brokers can be reached
    quiet         \* history: ticks since a connection last failed, up to Backoff

vars == <<producer, connecting, wait, pc, local, open, closing, retired, broker, quiet>>

PublishSteps == {"idle", "lookup", "create", "install", "defer", "send"}

Init ==
    /\ producer = None
    /\ connecting = FALSE
    /\ wait = 0
    /\ pc = [t \in Threads |-> "idle"]
    /\ local = [t \in Threads |-> None]
    /\ open = {}
    /\ closing = "no"
    /\ retired = None
    /\ broker \in BOOLEAN
    /\ quiet = Backoff

GoTo(t, from, to) == pc[t] = from /\ pc' = [pc EXCEPT ![t] = to]
Take(t, p) == local' = [local EXCEPT ![t] = p]

-----------------------------------------------------------------------------
(* The environment. *)

Tick ==
    /\ wait > 0 \/ quiet < Backoff
    /\ wait' = IF wait > 0 THEN wait - 1 ELSE 0
    /\ quiet' = IF quiet < Backoff THEN quiet + 1 ELSE Backoff
    /\ UNCHANGED <<producer, connecting, pc, local, open, closing, retired, broker>>

BrokerChanges ==
    /\ broker' = ~ broker
    /\ UNCHANGED <<producer, connecting, wait, pc, local, open, closing, retired, quiet>>

-----------------------------------------------------------------------------
(* publish() in a request thread. *)

\* The guard has passed and the event is in the bounded diagnostic deque.
Publish(t) ==
    /\ GoTo(t, "idle", "lookup")
    /\ UNCHANGED <<producer, connecting, wait, local, open, closing, retired, broker, quiet>>

\* Mistake: whoever finds no producer connects.
LookupUnclaimed(t) ==
    /\ \/ /\ producer # None
          /\ GoTo(t, "lookup", "send")
          /\ Take(t, producer)
          /\ UNCHANGED connecting
       \/ /\ producer = None /\ wait > 0
          /\ GoTo(t, "lookup", "idle")
          /\ UNCHANGED <<connecting, local>>
       \/ /\ producer = None /\ wait = 0
          /\ GoTo(t, "lookup", "create")
          /\ connecting' = TRUE
          /\ UNCHANGED local
    /\ UNCHANGED <<producer, wait, open, closing, retired, broker, quiet>>

\* _get_producer under the lock: take the producer, skip it, or claim the
\* attempt to connect.
Lookup(t) ==
    /\ \/ /\ producer # None
          /\ GoTo(t, "lookup", "send")
          /\ Take(t, producer)
          /\ UNCHANGED connecting
       \/ /\ producer = None /\ (connecting \/ wait > 0)
          /\ GoTo(t, "lookup", "idle")
          /\ UNCHANGED <<connecting, local>>
       \/ /\ producer = None /\ ~ connecting /\ wait = 0
          /\ GoTo(t, "lookup", "create")
          /\ connecting' = TRUE
          /\ UNCHANGED local
    /\ UNCHANGED <<producer, wait, open, closing, retired, broker, quiet>>

\* KafkaProducer(...), outside the lock: it asks the brokers for their API
\* version and raises when it gets no answer in time.
Create(t) ==
    /\ \/ /\ broker
          /\ GoTo(t, "create", "install")
          /\ \E p \in Producers \ open : Take(t, p) /\ open' = open \cup {p}
          /\ UNCHANGED quiet
       \/ /\ ~ broker
          /\ GoTo(t, "create", "defer")
          /\ quiet' = 0
          /\ UNCHANGED <<local, open>>
    /\ UNCHANGED <<producer, connecting, wait, closing, retired, broker>>

\* Mistake: the attempt is over but remembered as still running.
DeferClaimed(t) ==
    /\ GoTo(t, "defer", "idle")
    /\ wait' = Backoff
    /\ UNCHANGED <<producer, connecting, local, open, closing, retired, broker, quiet>>

\* Mistake: half the backoff.
DeferShort(t) ==
    /\ GoTo(t, "defer", "idle")
    /\ connecting' = FALSE
    /\ wait' = Backoff \div 2
    /\ UNCHANGED <<producer, local, open, closing, retired, broker, quiet>>

\* The attempt failed: under the lock, the claim is dropped and the next
\* attempt set a whole backoff from now.
Defer(t) ==
    /\ GoTo(t, "defer", "idle")
    /\ connecting' = FALSE
    /\ wait' = Backoff
    /\ UNCHANGED <<producer, local, open, closing, retired, broker, quiet>>

\* The attempt succeeded: under the lock, the producer is kept if there is none.
Install(t) ==
    /\ GoTo(t, "install", "send")
    /\ connecting' = FALSE
    /\ producer' = IF producer = None THEN local[t] ELSE producer
    /\ Take(t, producer')
    /\ UNCHANGED <<wait, open, closing, retired, broker, quiet>>

\* send() returns or raises; either way the call to publish ends, and what it
\* raised is counted, as is what the delivery callback is told later.
Send(t) ==
    /\ GoTo(t, "send", "idle")
    /\ Take(t, None)
    /\ UNCHANGED <<producer, connecting, wait, open, closing, retired, broker, quiet>>

-----------------------------------------------------------------------------
(* close() in the exiting main thread. *)

\* The producer is swapped out under the lock ...
CloseSwap ==
    /\ closing = "no"
    /\ closing' = IF producer = None THEN "closed" ELSE "flush"
    /\ retired' = producer
    /\ producer' = None
    /\ UNCHANGED <<connecting, wait, pc, local, open, broker, quiet>>

\* ... and flushed and closed outside it; a thread may still send to it, and
\* finds it closed.
CloseFlush ==
    /\ closing = "flush"
    /\ closing' = "closed"
    /\ open' = open \ {retired}
    /\ retired' = None
    /\ UNCHANGED <<producer, connecting, wait, pc, local, broker, quiet>>

-----------------------------------------------------------------------------

Thread(t) == Lookup(t) \/ Create(t) \/ Defer(t) \/ Install(t) \/ Send(t)

Next ==
    \/ Tick \/ BrokerChanges \/ CloseSwap \/ CloseFlush
    \/ \E t \in Threads : Publish(t) \/ Thread(t)

Safe == Init /\ [][Next]_vars

-----------------------------------------------------------------------------

TypeOK ==
    /\ producer \in Producers \cup {None}
    /\ connecting \in BOOLEAN
    /\ wait \in 0..Backoff
    /\ pc \in [Threads -> PublishSteps]
    /\ local \in [Threads -> Producers \cup {None}]
    /\ open \subseteq Producers
    /\ closing \in {"no", "flush", "closed"}
    /\ retired \in Producers \cup {None}
    /\ broker \in BOOLEAN
    /\ quiet \in 0..Backoff

Attempting == {t \in Threads : pc[t] \in {"create", "install", "defer"}}

\* docs/ARCHITECTURE_AND_OPERATIONS.md: "Kafka producer creation is
\* single-flight".  _connecting is set exactly while one thread is between
\* claiming the attempt and giving it up, and never are there two.
SingleFlight ==
    /\ connecting <=> Attempting # {}
    /\ Cardinality(Attempting) <= 1

\* The same sentence goes on: an outage does not make every request
\* reconnect.  No connection is begun within the backoff of a failed one,
\* counted from the failure, however long the attempt itself took.
BackoffHonoured == \A t \in Threads : pc[t] = "create" => quiet = Backoff

\* A connection that was made is kept: no producer, with its threads and
\* sockets, is left open that is neither installed, nor about to be, nor
\* being closed.
NoProducerLost ==
    open \subseteq
        {producer, retired} \cup {local[t] : t \in {u \in Threads : pc[u] = "install"}}

\* The class promises "recoverable startup": once the brokers stay reachable a producer is
\* installed and stays, until the process exits.
Reconnects == <>[]broker => <>[](producer # None \/ closing # "no")

=============================================================================
