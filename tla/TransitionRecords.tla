-------------------------- MODULE TransitionRecords -------------------------
(***************************************************************************)
(* main.py: record_transition, which every step of a request's lifecycle   *)
(* goes through.  It writes the transition to the audit sink, logs and     *)
(* otherwise ignores a write that raises, and publishes the transition as  *)
(* an event; both on the request's own thread.                             *)
(***************************************************************************)
EXTENDS EventPublisher, AuditSink

VARIABLE stage   \* where each thread is in record_transition

recordVars == <<vars, sinkVars, stage>>

ASSUME ThreadsWrite == Writers = Threads

RecordInit ==
    /\ Init
    /\ SinkInit
    /\ stage = [t \in Threads |-> "idle"]

Enter(t, from, to) ==
    /\ stage[t] = from
    /\ stage' = [stage EXCEPT ![t] = to]

\* The payload is sanitized, and the write begins.
BeginRecord(t) ==
    /\ Enter(t, "idle", "audit")
    /\ StartWrite(t)
    /\ UNCHANGED vars

AuditStep(t) ==
    /\ stage[t] = "audit"
    /\ Write(t)
    /\ UNCHANGED <<vars, stage>>

\* Mistake: what the audit write raised is not caught.
PublishIfWritten(t) ==
    /\ write[t] = "ok"
    /\ Enter(t, "audit", "publish")
    /\ Publish(t)
    /\ UNCHANGED sinkVars

\* The write has returned or raised; the event is published either way.
PublishRecord(t) ==
    /\ write[t] \in Settled
    /\ Enter(t, "audit", "publish")
    /\ Publish(t)
    /\ UNCHANGED sinkVars

\* publish() goes on; when it returns, so does record_transition.
PublishStep(t) ==
    /\ stage[t] = "publish"
    /\ Thread(t)
    /\ stage' = [stage EXCEPT ![t] = IF pc'[t] = "idle" THEN "idle" ELSE "publish"]
    /\ UNCHANGED sinkVars

Outside(w) == (LateAttempt(w) \/ Remove(w)) /\ UNCHANGED <<vars, stage>>

RecordStep(t) == AuditStep(t) \/ PublishRecord(t) \/ PublishStep(t)

RecordNext ==
    \/ (Tick \/ BrokerChanges \/ CloseSwap \/ CloseFlush) /\ UNCHANGED <<sinkVars, stage>>
    \/ \E t \in Threads : BeginRecord(t) \/ RecordStep(t) \/ Outside(t)

RecordSafe == RecordInit /\ [][RecordNext]_recordVars

\* Time passes, threads run, and timeouts make every call to the broker and
\* the store end; requests on their way arrive or are lost; and, for
\* Reconnects, the service has traffic.
RecordSpec ==
    /\ RecordSafe
    /\ WF_recordVars(Tick /\ UNCHANGED <<sinkVars, stage>>)
    /\ \A t \in Threads :
          /\ WF_recordVars(BeginRecord(t))
          /\ WF_recordVars(RecordStep(t))
          /\ WF_recordVars(LateAttempt(t) /\ UNCHANGED <<vars, stage>>)

-----------------------------------------------------------------------------

\* record_transition promises not to hide the primary failure: it always comes
\* back to the handler, be the store, the brokers or both out of reach.
RecordReturns == \A t \in Threads : stage[t] # "idle" ~> stage[t] = "idle"

=============================================================================
