----------------------------- MODULE AuditSink ------------------------------
(***************************************************************************)
(* app/audit.py: AuditSink, over the backend it was constructed with.  A   *)
(* write makes a fresh key and hands the record to the backend's client,   *)
(* which sends it up to Attempts times.  A request the client has given up *)
(* may still arrive, even after the write has raised; a retry then finds   *)
(* what an earlier attempt left.                                           *)
(*                                                                         *)
(* Writers are places for writes in flight.  Retention periods are years,  *)
(* and do not end here.                                                    *)
(***************************************************************************)
EXTENDS Naturals

CONSTANTS
    Writers,    \* places for writes in flight
    Backends,   \* values of AUDIT_BACKEND, "off" for a sink that is not enabled
    Attempts    \* times the client sends a request before it raises

ASSUME AttemptsPositive == Attempts \in Nat \ {0}
ASSUME BackendsKnown == Backends \subseteq {"off", "s3", "azure_blob", "gcs", "other"}

VARIABLES
    sink,     \* the configuration the sink was constructed with
    write,    \* how far each write is
    tries,    \* requests its client has sent
    late,     \* those it has given up that are still on their way
    stored    \* the writes whose record the store has, in one version or more

writeVars == <<write, tries, late, stored>>
sinkVars == <<sink, writeVars>>

\* "immutable" is what the store says of itself: an immutability policy on the
\* container, a locked retention on the bucket, Object Lock on the S3 bucket.
Configurations ==
    {c \in [backend : Backends, immutable : BOOLEAN] :
        c.backend \in {"off", "other"} => ~ c.immutable}

\* Mistake: any retention on the bucket will do, locked or not.
AcceptedUnlocked == {c \in Configurations : c.backend # "other"}

\* The configurations __init__ does not refuse.
Accepted ==
    {c \in Configurations :
        /\ c.backend # "other"
        /\ c.backend \in {"azure_blob", "gcs"} => c.immutable}

\* Uploads that name a blob that must not exist; put_object does not.
CreateOnly == sink.backend \in {"azure_blob", "gcs"}

\* No one removes what was stored: S3 and Azure lock each object as it is put,
\* GCS relies on the bucket.  The bounded deque of a disabled sink drops it.
Protected == sink.backend \in {"s3", "azure_blob"} \/ sink.immutable

\* A bucket without Object Lock refuses a put with a lock.
CanStore(w) ==
    /\ sink.backend = "s3" => sink.immutable
    /\ CreateOnly => w \notin stored

SinkInit ==
    /\ sink \in Accepted
    /\ write = [w \in Writers |-> "none"]
    /\ tries = [w \in Writers |-> 0]
    /\ late = [w \in Writers |-> 0]
    /\ stored = {}

WriteSteps == {"none", "send", "sent", "unheard", "ok", "failed"}
Settled == {"ok", "failed"}

-----------------------------------------------------------------------------

\* A write begins: the sanitized record under a key no other write has.  Its
\* place is free once nothing of an earlier write is on its way.
StartWrite(w) ==
    /\ write[w] \in {"none"} \cup Settled
    /\ late[w] = 0
    /\ write' = [write EXCEPT ![w] = "send"]
    /\ stored' = stored \ {w}
    /\ UNCHANGED <<sink, tries, late>>

\* Without a backend the record goes to a bounded deque.
StoreLocally(w) ==
    /\ sink.backend = "off"
    /\ write[w] = "send"
    /\ write' = [write EXCEPT ![w] = "ok"]
    /\ stored' = stored \cup {w}
    /\ UNCHANGED <<sink, tries, late>>

SendAttempt(w) ==
    /\ sink.backend # "off"
    /\ write[w] = "send"
    /\ write' = [write EXCEPT ![w] = "sent"]
    /\ tries' = [tries EXCEPT ![w] = @ + 1]
    /\ UNCHANGED <<sink, late, stored>>

\* The client knows how a write ended, or goes on with it.
Hear(w, heard) ==
    /\ write' = [write EXCEPT ![w] = heard]
    /\ tries' = [tries EXCEPT ![w] = IF heard \in Settled THEN 0 ELSE @]

\* After an attempt that failed: another one, or the write raises.
Retried(w) == IF tries[w] < Attempts THEN "send" ELSE "failed"

\* The attempt arrives and is stored, or refused for good (the name exists, the
\* lock is not to be had, no permission), or fails in a way that is retried;
\* the answer may be lost.
HandleAttempt(w) ==
    /\ write[w] = "sent"
    /\ \/ /\ CanStore(w)
          /\ stored' = stored \cup {w}
          /\ \E heard \in {"ok", "unheard"} : Hear(w, heard)
       \/ /\ \E heard \in {"failed", "unheard", Retried(w)} : Hear(w, heard)
          /\ UNCHANGED stored
    /\ UNCHANGED <<sink, late>>

\* No answer in time: the client gives this attempt up.
AttemptTimesOut(w) ==
    /\ write[w] \in {"sent", "unheard"}
    /\ late' = [late EXCEPT ![w] = IF write[w] = "sent" THEN @ + 1 ELSE @]
    /\ Hear(w, Retried(w))
    /\ UNCHANGED <<sink, stored>>

\* A request that was given up is lost, or is handled after all.
LateAttempt(w) ==
    /\ late[w] > 0
    /\ late' = [late EXCEPT ![w] = @ - 1]
    /\ \/ CanStore(w) /\ stored' = stored \cup {w}
       \/ UNCHANGED stored
    /\ UNCHANGED <<sink, write, tries>>

\* Someone may remove a record that nothing protects; later records push this
\* one out of the deque.
Remove(w) ==
    /\ ~ Protected
    /\ w \in stored
    /\ stored' = stored \ {w}
    /\ UNCHANGED <<sink, write, tries, late>>

Write(w) ==
    StoreLocally(w) \/ SendAttempt(w) \/ HandleAttempt(w) \/ AttemptTimesOut(w)

-----------------------------------------------------------------------------

\* Types: no more requests than attempts, on their way or sent.
SinkTypeOK ==
    /\ sink \in Accepted
    /\ write \in [Writers -> WriteSteps]
    /\ tries \in [Writers -> 0..Attempts]
    /\ late \in [Writers -> 0..Attempts]
    /\ stored \subseteq Writers

\* The promises of AuditLog, where a durable backend is selected.
Outcome(w) ==
    IF sink.backend = "off" THEN "none"
    ELSE IF write[w] \in {"none"} \cup Settled THEN write[w] ELSE "writing"

Outcomes == [w \in Writers |-> Outcome(w)]
Kept == IF sink.backend = "off" THEN {} ELSE stored

Log == INSTANCE AuditLog WITH outcome <- Outcomes, kept <- Kept

\* docs/ARCHITECTURE_AND_OPERATIONS.md, "immutable audit evidence": a write
\* that returned is in the store for good, one that raised may be, and every
\* write ends, whatever becomes of its requests and answers.
ImplementsAuditLog == Log!Spec

=============================================================================
