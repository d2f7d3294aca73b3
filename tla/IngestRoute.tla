----------------------------- MODULE IngestRoute -----------------------------
(***************************************************************************)
(* POST /ingest-sample (app/main.py: ingest, IngestionService.ingest,      *)
(* RetrievalStore.add and remove) with both retrieval backends configured: *)
(* the vector collection takes a request's chunks in one call, the search  *)
(* index one document at a time.                                           *)
(***************************************************************************)
EXTENDS RequestEffects

CONSTANTS
    Ingests,   \* the requests to this route
    Chunks     \* how many chunks a document is split into

VARIABLES
    vector,    \* the ingests whose chunks the collection holds
    search     \* the chunks of each ingest that the search index holds

storeVars == <<vector, search>>

\* Mistake: the failure is recorded but no event is published.
CompensatedSilently(reason, code) ==
    Transition("COMPENSATED") \o <<Note(reason), Answer(code)>>

\* Mistake: the event is published before the reason is recorded.
CompensatedUnexplained(reason, code) ==
    Transition("COMPENSATED")
        \o <<Say("IngestionCompensated"), Note(reason), Answer(code)>>

\* The three failure paths end alike: transition, record, event, status.
Compensated(reason, code) ==
    Transition("COMPENSATED")
        \o <<Note(reason), Say("IngestionCompensated"), Answer(code)>>

Completed ==
    Transition("COMPLETED") \o <<Say("AuditRecordLogged"), Answer("200")>>

StoreAddFailed == Compensated("STORE_ADD_FAILED", "502")
AuditWriteFailed == Compensated("AUDIT_WRITE_FAILED", "503")

\* Mistake: a failed rollback leaves no record of its own.
RollbackUnrecorded == AuditWriteFailed

RollbackFailed == <<Note("ROLLBACK_FAILED")>> \o AuditWriteFailed

\* The calls a step makes on the search index, chunk after chunk.
EachChunk(op) == [i \in 1..Chunks |-> Step(op, i)]

ReceiveIngest(r) ==
    /\ At(r, "receive_ingest")
    /\ Continue(r, Transition("PROCESSING") \o <<Step("split", "document")>>)
    /\ UNCHANGED <<up, told, audit, reply, storeVars>>

\* Redaction and splitting come before the telemetry event; what they raise
\* is the only thing that reaches the handler's last except clause.
Split(r) ==
    /\ At(r, "split")
    /\ \/ Continue(r, <<Say("TelemetryIngested"), Step("add", "chunks")>>)
       \/ Continue(r, Compensated("UNHANDLED_FAILURE", "500"))
    /\ UNCHANGED <<up, told, audit, reply, storeVars>>

\* Mistake: the audit record does not wait for the search index.
AddAuditingEarly(r) ==
    /\ At(r, "add")
    /\ \/ /\ vector' = vector \cup {r}
          /\ Continue(r, <<Step("audit", "chunks")>>)
       \/ /\ vector' \in {vector, vector \cup {r}}
          /\ Continue(r, StoreAddFailed)
    /\ UNCHANGED <<up, told, audit, reply, search>>

\* embed_documents and collection.add; a failed add may have been applied.
Add(r) ==
    /\ At(r, "add")
    /\ \/ /\ vector' = vector \cup {r}
          /\ Continue(r, EachChunk("index") \o <<Step("audit", "chunks")>>)
       \/ /\ vector' \in {vector, vector \cup {r}}
          /\ Continue(r, StoreAddFailed)
    /\ UNCHANGED <<up, told, audit, reply, search>>

\* search.index, chunk by chunk; no failure undoes what was added before.
Index(r) ==
    /\ At(r, "index")
    /\ \/ /\ search' = [search EXCEPT ![r] = @ \cup {Head(todo[r]).arg}]
          /\ Continue(r, Tail(todo[r]))
       \/ /\ \E stored \in SUBSET {Head(todo[r]).arg} :
                search' = [search EXCEPT ![r] = @ \cup stored]
          /\ Continue(r, StoreAddFailed)
    /\ UNCHANGED <<up, told, audit, reply, vector>>

Audit(r) ==
    /\ AuditWrite(r, "audit", Completed, <<Step("delete", "chunks")>>)
    /\ UNCHANGED storeVars

\* store.remove after a failed audit write: the collection first ...
Delete(r) ==
    /\ At(r, "delete")
    /\ \/ /\ vector' = vector \ {r}
          /\ Continue(r, EachChunk("unindex") \o AuditWriteFailed)
       \/ /\ vector' \in {vector, vector \ {r}}
          /\ Continue(r, RollbackFailed)
    /\ UNCHANGED <<up, told, audit, reply, search>>

\* ... then the search index, chunk by chunk, given up at the first failure.
Unindex(r) ==
    /\ At(r, "unindex")
    /\ \/ /\ search' = [search EXCEPT ![r] = @ \ {Head(todo[r]).arg}]
          /\ Continue(r, Tail(todo[r]))
       \/ /\ \E gone \in SUBSET {Head(todo[r]).arg} :
                search' = [search EXCEPT ![r] = @ \ gone]
          /\ Continue(r, RollbackFailed)
    /\ UNCHANGED <<up, told, audit, reply, vector>>

IngestStep(r) ==
    \/ ReceiveIngest(r) \/ Split(r) \/ Add(r) \/ Index(r)
    \/ Audit(r) \/ Delete(r) \/ Unindex(r)

=============================================================================
