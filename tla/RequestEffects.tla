--------------------------- MODULE RequestEffects ---------------------------
(***************************************************************************)
(* What the routes of app/main.py have in common: record_transition,       *)
(* record_compensation, the publication of an event and the HTTP answer.   *)
(*                                                                         *)
(* A handler is a sequence of calls to stores, audit sink and publisher,   *)
(* each of which may fail, and between any two of which the process may    *)
(* die or another request run.  todo[r] is what is left of r's handler: a  *)
(* step that can come out in several ways replaces it by the code that     *)
(* follows on that path.                                                   *)
(***************************************************************************)
EXTENDS Naturals, Sequences

CONSTANT Requests

VARIABLES
    up,      \* the process is alive
    todo,    \* each request's remaining steps
    log,     \* history: the records each request wrote or tried to, and its events
    stage,   \* history: the last transition each request published
    audited, \* the requests whose audit record the backend holds
    raised,  \* the requests whose audit write raised
    reply    \* the HTTP status each client got, "none" before

told == <<log, stage>>
audit == <<audited, raised>>
effectVars == <<up, todo, told, audit, reply>>

States == {"PROCESSING", "COMPLETED", "COMPENSATED"}

Step(op, arg) == [op |-> op, arg |-> arg]

Note(x) == Step("record", x)      \* an audit record whose failure is only logged
Say(x) == Step("publish", x)      \* publisher.publish
Answer(code) == Step("reply", code)

\* record_transition: the audit record, then the StateTransitionLogged event,
\* named here by the state it announces.
Transition(state) == <<Note(state), Say(state)>>

At(r, op) == up /\ todo[r] # << >> /\ Head(todo[r]).op = op
Continue(r, steps) == todo' = [todo EXCEPT ![r] = steps]

Logged(r, op, x) == \E i \in 1..Len(log[r]) : log[r][i] = Step(op, x)

\* The records that say why chunks may be left in a store.  What becomes of these
\* is told apart; of the others, it is only that they were tried.
Owners == {"STORE_ADD_FAILED", "ROLLBACK_FAILED"}

Outcomes(x) == IF x \in Owners THEN {"record", "lost"} ELSE {"tried"}

\* AuditSink.write_state_transition and write_compensation.  One that raises is
\* told to the application's own log alone and the handler goes on: its record is
\* lost, or as good as lost, for nobody knows whether it arrives yet.
RecordEffect(r) ==
    /\ At(r, "record")
    /\ \E outcome \in Outcomes(Head(todo[r]).arg) :
          log' = [log EXCEPT ![r] = Append(@, Step(outcome, Head(todo[r]).arg))]
    /\ Continue(r, Tail(todo[r]))
    /\ UNCHANGED <<up, stage, audit, reply>>

\* publish does not raise once the event has passed the boundary guard: the
\* broker's failures are caught there.
PublishEffect(r) ==
    /\ At(r, "publish")
    /\ log' = [log EXCEPT ![r] = Append(@, Head(todo[r]))]
    /\ stage' = IF Head(todo[r]).arg \in States
                THEN [stage EXCEPT ![r] = Head(todo[r]).arg] ELSE stage
    /\ Continue(r, Tail(todo[r]))
    /\ UNCHANGED <<up, audit, reply>>

ReplyEffect(r) ==
    /\ At(r, "reply")
    /\ reply' = [reply EXCEPT ![r] = Head(todo[r]).arg]
    /\ Continue(r, << >>)
    /\ UNCHANGED <<up, told, audit>>

Effect(r) == RecordEffect(r) \/ PublishEffect(r) \/ ReplyEffect(r)

\* Mistake: like the other records, the request's is allowed to fail.
AuditWriteSwallowed(r, op, done, failed) ==
    /\ At(r, op)
    /\ \/ audited' = audited \cup {r} /\ UNCHANGED raised
       \/ raised' = raised \cup {r} /\ UNCHANGED audited
    /\ Continue(r, done)
    /\ UNCHANGED <<up, told, reply>>

\* AuditSink.write, which the routes do act upon, as AuditLog promises it.
AuditWrite(r, op, done, failed) ==
    /\ At(r, op)
    /\ \/ /\ audited' = audited \cup {r}
          /\ Continue(r, done)
          /\ UNCHANGED raised
       \/ /\ raised' = raised \cup {r}
          /\ Continue(r, failed)
          /\ UNCHANGED audited
    /\ UNCHANGED <<up, told, reply>>

AuditOps == {"audit", "audit_ask"}
Writing(r) == todo[r] # << >> /\ Head(todo[r]).op \in AuditOps

\* A request of the backend's client stores the record unheard: before it is
\* answered, after the write has raised, or after the process has died.
RecordArrives(r) ==
    /\ Writing(r) \/ r \in raised
    /\ audited' = audited \cup {r}
    /\ UNCHANGED <<up, todo, told, raised, reply>>

\* The process dies; what it kept in memory of its requests is gone with it.
Crash ==
    /\ up
    /\ up' = FALSE
    /\ UNCHANGED <<todo, told, audit, reply>>

=============================================================================
