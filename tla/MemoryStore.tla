---------------------------- MODULE MemoryStore ----------------------------
(***************************************************************************)
(* app/storage.py: RetrievalStore without a configured backend, where the  *)
(* documents are kept in one OrderedDict that request threads change and   *)
(* read without a lock.  Each call of a method of the dictionary is atomic *)
(* under the interpreter's lock; anything may happen between two of them.  *)
(*                                                                         *)
(* An ingest adds its chunks one by one and, when the audit write fails,   *)
(* removes them again; a query walks over all documents.                   *)
(***************************************************************************)
EXTENDS Naturals, Sequences, SequencesExt, FiniteSets

CONSTANTS
    Ingests,   \* request threads that add
    Queries,   \* request threads that read
    Chunks,    \* chunks in each ingest
    Limit      \* MEMORY_STORE_MAX_DOCUMENTS

ASSUME IngestsFinite == IsFiniteSet(Ingests)

ASSUME LimitPositive == Limit \in Nat \ {0} /\ Chunks \in Nat \ {0}

VARIABLES
    documents,   \* _documents: the keys, oldest first
    pc,          \* where each ingest is
    chunk,       \* the chunk each ingest is at
    reader,      \* where each query is
    cursor,      \* the key each query's iterator will return next
    read,        \* the documents each query has been given
    spoilt,      \* the queries whose dictionary changed under their iterator
    first        \* history: the documents when each query began

ingestVars == <<documents, pc, chunk>>
queryVars == <<reader, cursor, read, spoilt, first>>
vars == <<ingestVars, queryVars>>

Doc(r) == <<r, chunk[r]>>
Ids == Ingests \X (1..Chunks)
End == <<>>   \* the iterator's cursor behind the last key

Init ==
    /\ documents = << >>
    /\ pc = [r \in Ingests |-> "insert"]
    /\ chunk = [r \in Ingests |-> 1]
    /\ reader = [q \in Queries |-> "idle"]
    /\ cursor = [q \in Queries |-> End]
    /\ read = [q \in Queries |-> << >>]
    /\ spoilt = {}
    /\ first = [q \in Queries |-> << >>]

\* docs without d, where it is one of them.
Without(docs, d) ==
    IF Contains(docs, d) THEN RemoveAt(docs, CHOOSE i \in 1..Len(docs) : docs[i] = d)
    ELSE docs

GoTo(r, from, to) == pc[r] = from /\ pc' = [pc EXCEPT ![r] = to]

\* Every change of keys or of their order changes the dictionary's od_state,
\* which its iterators compare with the one they began with.
Become(docs) ==
    /\ documents' = docs
    /\ spoilt' = IF docs = documents THEN spoilt
                 ELSE spoilt \cup {q \in Queries : reader[q] = "walking"}
    /\ UNCHANGED <<reader, cursor, read, first>>

-----------------------------------------------------------------------------
(* _remember, in the thread of an ingest. *)

Insert(r) ==
    /\ GoTo(r, "insert", "move")
    /\ Become(Append(documents, Doc(r)))
    /\ UNCHANGED chunk

\* move_to_end raises KeyError when another thread has evicted the key.
Move(r) ==
    /\ \/ /\ Contains(documents, Doc(r))
          /\ GoTo(r, "move", "measure")
          /\ Become(Append(Without(documents, Doc(r)), Doc(r)))
       \/ /\ ~ Contains(documents, Doc(r))
          /\ GoTo(r, "move", "failed")
          /\ UNCHANGED <<documents, queryVars>>
    /\ UNCHANGED chunk

\* Mistake: popitem as it is by default, with the newest key.
EvictNewest(r) ==
    /\ \/ /\ documents # << >>
          /\ GoTo(r, "evict", "measure")
          /\ Become(SubSeq(documents, 1, Len(documents) - 1))
       \/ /\ documents = << >>
          /\ GoTo(r, "evict", "failed")
          /\ UNCHANGED <<documents, queryVars>>
    /\ UNCHANGED chunk

\* popitem(last=False): the oldest key goes; KeyError when none is left.
Evict(r) ==
    /\ \/ /\ documents # << >>
          /\ GoTo(r, "evict", "measure")
          /\ Become(Tail(documents))
       \/ /\ documents = << >>
          /\ GoTo(r, "evict", "failed")
          /\ UNCHANGED <<documents, queryVars>>
    /\ UNCHANGED chunk

\* Mistake: a document too many is let stay.
MeasureLoosely(r) ==
    /\ \/ /\ Len(documents) > Limit + 1
          /\ GoTo(r, "measure", "evict")
          /\ UNCHANGED chunk
       \/ /\ Len(documents) <= Limit + 1
          /\ GoTo(r, "measure", IF chunk[r] < Chunks THEN "insert" ELSE "added")
          /\ chunk' = [chunk EXCEPT ![r] = IF @ < Chunks THEN @ + 1 ELSE 1]
    /\ UNCHANGED <<documents, queryVars>>

\* Mistake: the store is emptied down to below its limit.
MeasureEagerly(r) ==
    /\ \/ /\ Len(documents) >= Limit
          /\ GoTo(r, "measure", "evict")
          /\ UNCHANGED chunk
       \/ /\ Len(documents) < Limit
          /\ GoTo(r, "measure", IF chunk[r] < Chunks THEN "insert" ELSE "added")
          /\ chunk' = [chunk EXCEPT ![r] = IF @ < Chunks THEN @ + 1 ELSE 1]
    /\ UNCHANGED <<documents, queryVars>>

\* The loop's condition; its end leads to the next chunk or out of add.
Measure(r) ==
    /\ \/ /\ Len(documents) > Limit
          /\ GoTo(r, "measure", "evict")
          /\ UNCHANGED chunk
       \/ /\ Len(documents) <= Limit
          /\ GoTo(r, "measure", IF chunk[r] < Chunks THEN "insert" ELSE "added")
          /\ chunk' = [chunk EXCEPT ![r] = IF @ < Chunks THEN @ + 1 ELSE 1]
    /\ UNCHANGED <<documents, queryVars>>

\* The audit write decides whether the chunks stay.
Settle(r) ==
    /\ GoTo(r, "added", "kept") \/ GoTo(r, "added", "remove")
    /\ UNCHANGED <<documents, chunk, queryVars>>

\* remove: _documents.pop(doc_id, None), chunk after chunk.
Pop(r) ==
    /\ GoTo(r, "remove", IF chunk[r] < Chunks THEN "remove" ELSE "removed")
    /\ chunk' = [chunk EXCEPT ![r] = IF @ < Chunks THEN @ + 1 ELSE @]
    /\ Become(Without(documents, Doc(r)))

-----------------------------------------------------------------------------
(* query, in the thread of a question. *)

KeyAt(i) == IF i <= Len(documents) THEN documents[i] ELSE End

Walk(q) ==
    /\ reader[q] = "idle"
    /\ reader' = [reader EXCEPT ![q] = "walking"]
    /\ cursor' = [cursor EXCEPT ![q] = KeyAt(1)]
    /\ first' = [first EXCEPT ![q] = documents]
    /\ UNCHANGED <<ingestVars, read, spoilt>>

\* Mistake: an iterator that, like a list's, does not notice changes.
NextUnchecked(q) ==
    /\ reader[q] = "walking"
    /\ IF cursor[q] = End
       THEN /\ reader' = [reader EXCEPT ![q] = "answered"]
            /\ UNCHANGED <<cursor, read>>
       ELSE /\ read' = [read EXCEPT ![q] = Append(@, cursor[q])]
            /\ cursor' = [cursor EXCEPT ![q] = KeyAt(Len(read[q]) + 2)]
            /\ UNCHANGED reader
    /\ UNCHANGED <<ingestVars, spoilt, first>>

\* The iterator's next: behind the last key it ends without looking; before,
\* it raises RuntimeError if the dictionary was changed, and otherwise returns
\* the document under its cursor and moves on.
NextDocument(q) ==
    /\ reader[q] = "walking"
    /\ \/ /\ cursor[q] = End
          /\ reader' = [reader EXCEPT ![q] = "answered"]
          /\ UNCHANGED <<cursor, read>>
       \/ /\ cursor[q] # End /\ q \in spoilt
          /\ reader' = [reader EXCEPT ![q] = "raised"]
          /\ UNCHANGED <<cursor, read>>
       \/ /\ cursor[q] # End /\ q \notin spoilt
          /\ read' = [read EXCEPT ![q] = Append(@, cursor[q])]
          /\ cursor' = [cursor EXCEPT ![q] = KeyAt(Len(read[q]) + 2)]
          /\ UNCHANGED reader
    /\ UNCHANGED <<ingestVars, spoilt, first>>

-----------------------------------------------------------------------------

Next ==
    \/ \E r \in Ingests :
          Insert(r) \/ Move(r) \/ Measure(r) \/ Evict(r) \/ Settle(r) \/ Pop(r)
    \/ \E q \in Queries : Walk(q) \/ NextDocument(q)

Spec == Init /\ [][Next]_vars

-----------------------------------------------------------------------------

Adding == {r \in Ingests : pc[r] \in {"move", "measure", "evict"}}

TypeOK ==
    /\ documents \in Seq(Ids) /\ IsInjective(documents)
    /\ pc \in [Ingests -> {"insert", "move", "measure", "evict", "added",
                           "kept", "remove", "removed", "failed"}]
    /\ chunk \in [Ingests -> 1..Chunks]
    /\ reader \in [Queries -> {"idle", "walking", "answered", "raised"}]
    /\ cursor \in [Queries -> Ids \cup {End}]
    /\ spoilt \subseteq Queries

\* _remember's limit holds without a lock: each thread that is adding has at
\* most one document above it in the store, so that with no thread in add the
\* store is within its limit, though threads measure and evict at once and
\* some of them fail.
MemoryBounded == Len(documents) <= Limit + Cardinality(Adding)

\* Threads that measure at once evict for each other, and the store may lose
\* documents it had room for: but never, of its own limit, as many as there are
\* threads, as long as no ingest takes its chunks back.  In particular there is
\* something to evict wherever there are no more threads than the limit.
EvictionsBounded ==
    (\A r \in Ingests : pc[r] \notin {"remove", "removed"}) =>
        \A r \in Ingests :
            pc[r] = "evict" => Len(documents) + Cardinality(Ingests) >= Limit + 2

\* An ingest that raised in add, which the handler does not roll back, and one
\* that was rolled back have no chunk in the store: a chunk is gone before its
\* thread has moved it, or the store is empty, only after the older chunks of
\* the same ingest are gone as well.
FailuresLeaveNothing ==
    \A r \in Ingests : pc[r] \in {"failed", "removed"} =>
        \A k \in 1..Chunks : ~ Contains(documents, <<r, k>>)

\* A query answers from what was in the store at one moment, or it raises (and
\* /ask falls back): it never answers from half of an eviction or rollback.
AnswersFromOneMoment ==
    \A q \in Queries : reader[q] = "answered" => read[q] = first[q]

=============================================================================
