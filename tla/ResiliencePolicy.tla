-------------------------- MODULE ResiliencePolicy --------------------------
(***************************************************************************)
(* contexts/ai/resilience.py: ResiliencePolicy.call, the token bucket and  *)
(* the bulkhead in front of every retrieval, step by step as the threads   *)
(* interleave.  A call has two threads: the caller, which takes a token    *)
(* and a slot, submits the operation to a one-thread executor and waits    *)
(* for its future until the timeout, and the worker, which runs the        *)
(* operation and then, as the future's done callback, release_slot.  The   *)
(* callback runs in the caller instead when the future is already done as  *)
(* it is added, when the caller cancels a future that has not started, and *)
(* when submit itself fails.                                               *)
(*                                                                         *)
(* Calls are places for calls in flight: a place is used again once its    *)
(* caller has returned and its slot is back.                               *)
(***************************************************************************)
EXTENDS RateLimits, Sequences, FiniteSets

CONSTANTS
    Calls,            \* places for calls in flight
    MaxConcurrency    \* slots of the bulkhead

\* resilience.py:42 again: at least one slot.
ASSUME BulkheadPositive ==
    /\ MaxConcurrency \in Nat \ {0}
    /\ IsFiniteSet(Calls)

VARIABLES
    clock, tokens, last, stamp, grants,   \* the token bucket: TokenBucket.tla
    pc,        \* where each caller is in call()
    slot,      \* how far each call is with its slot
    fut,       \* the state of each call's future
    answer,    \* what each caller was last given
    free,      \* the value of the semaphore _bulkhead
    active,    \* _active_workers
    seen,      \* each call's local current_active / remaining_active
    gauge      \* the metric rag_bulkhead_active

bucketVars == <<clock, tokens, last, stamp, grants>>
callVars == <<pc, slot, fut, answer>>
countVars == <<free, active, seen, gauge>>
vars == <<bucketVars, callVars, countVars>>

Bucket == INSTANCE TokenBucket WITH Callers <- Calls

CallerSteps ==
    {"idle", "rate", "acquire", "count", "gauge", "submit", "callback",
     "wait", "cancel", "releasing", "shutdown"}
SlotSteps == {"free", "held", "counted", "decrement", "gauge", "release"}
FutureStates == {"none", "pending", "running", "ok", "error", "timeout", "cancelled"}
Answers ==
    {"none", "rate_limited", "rejected", "failed", "timed_out", "result", "error"}

\* Future.done(): a result, an exception (TimeoutError told apart), or cancelled.
Ended == {"ok", "error", "timeout", "cancelled"}

Init ==
    /\ Bucket!Init
    /\ pc = [k \in Calls |-> "idle"]
    /\ slot = [k \in Calls |-> "free"]
    /\ fut = [k \in Calls |-> "none"]
    /\ answer = [k \in Calls |-> "none"]
    /\ free = MaxConcurrency
    /\ active = 0
    /\ seen = [k \in Calls |-> 0]
    /\ gauge = 0

GoTo(k, from, to) ==
    /\ pc[k] = from
    /\ pc' = [pc EXCEPT ![k] = to]

-----------------------------------------------------------------------------
(* The caller, up to the submission. *)

Tick == Bucket!Tick /\ UNCHANGED <<callVars, countVars>>

\* call() begins: _take_token reads the clock, without the lock.
Begin(k) ==
    /\ GoTo(k, "idle", "rate")
    /\ slot[k] = "free"
    /\ Bucket!ReadClock(k)
    /\ fut' = [fut EXCEPT ![k] = "none"]
    /\ answer' = [answer EXCEPT ![k] = "none"]
    /\ UNCHANGED <<slot, countVars>>

TakeToken(k) ==
    /\ \/ /\ Bucket!Admit(k)
          /\ GoTo(k, "rate", "acquire")
          /\ UNCHANGED answer
       \/ /\ Bucket!Reject(k)
          /\ GoTo(k, "rate", "idle")
          /\ answer' = [answer EXCEPT ![k] = "rate_limited"]
    /\ UNCHANGED <<slot, fut, countVars>>

\* acquire(blocking=False); a refusal does not give the token back.
Acquire(k) ==
    /\ \/ /\ free > 0
          /\ GoTo(k, "acquire", "count")
          /\ free' = free - 1
          /\ slot' = [slot EXCEPT ![k] = "held"]
          /\ UNCHANGED answer
       \/ /\ free = 0
          /\ GoTo(k, "acquire", "idle")
          /\ answer' = [answer EXCEPT ![k] = "rejected"]
          /\ UNCHANGED <<free, slot>>
    /\ UNCHANGED <<bucketVars, fut, active, seen, gauge>>

\* Under _rate_lock; the value read there is set on the gauge after the unlock.
CountUp(k) ==
    /\ GoTo(k, "count", "gauge")
    /\ active' = active + 1
    /\ seen' = [seen EXCEPT ![k] = active + 1]
    /\ slot' = [slot EXCEPT ![k] = "counted"]
    /\ UNCHANGED <<bucketVars, fut, answer, free, gauge>>

GaugeUp(k) ==
    /\ GoTo(k, "gauge", "submit")
    /\ gauge' = seen[k]
    /\ UNCHANGED <<bucketVars, slot, fut, answer, free, active, seen>>

\* Mistake: a failed submit raises without release_slot.
SubmitLeaking(k) ==
    /\ \/ /\ GoTo(k, "submit", "callback")
          /\ fut' = [fut EXCEPT ![k] = "pending"]
          /\ UNCHANGED answer
       \/ /\ GoTo(k, "submit", "shutdown")
          /\ answer' = [answer EXCEPT ![k] = "failed"]
          /\ UNCHANGED fut
    /\ UNCHANGED <<bucketVars, slot, countVars>>

\* executor.submit: the operation is queued, or no thread could be started
\* and the caller itself runs release_slot before it raises.
Submit(k) ==
    /\ \/ /\ GoTo(k, "submit", "callback")
          /\ fut' = [fut EXCEPT ![k] = "pending"]
          /\ UNCHANGED <<slot, answer>>
       \/ /\ GoTo(k, "submit", "releasing")
          /\ slot' = [slot EXCEPT ![k] = "decrement"]
          /\ answer' = [answer EXCEPT ![k] = "failed"]
          /\ UNCHANGED fut
    /\ UNCHANGED <<bucketVars, countVars>>

\* add_done_callback runs release_slot here and now when the future is done.
AddCallback(k) ==
    /\ \/ /\ fut[k] \notin Ended
          /\ GoTo(k, "callback", "wait")
          /\ UNCHANGED slot
       \/ /\ fut[k] \in Ended
          /\ GoTo(k, "callback", "releasing")
          /\ slot' = [slot EXCEPT ![k] = "decrement"]
    /\ UNCHANGED <<bucketVars, fut, answer, countVars>>

-----------------------------------------------------------------------------
(* The caller, waiting for the future. *)

\* Mistake: the slot is given back at the timeout, as if the thread had ended.
TimeOutReleasing(k) ==
    /\ fut[k] \notin Ended
    /\ GoTo(k, "wait", "cancel")
    /\ answer' = [answer EXCEPT ![k] = "timed_out"]
    /\ free' = free + 1
    /\ UNCHANGED <<bucketVars, slot, fut, active, seen, gauge>>

\* Mistake: only an operation that has not begun is given up.
TimeOutPendingOnly(k) ==
    /\ fut[k] = "pending"
    /\ GoTo(k, "wait", "cancel")
    /\ answer' = [answer EXCEPT ![k] = "timed_out"]
    /\ UNCHANGED <<bucketVars, slot, fut, countVars>>

\* future.result gives up; the TimeoutError becomes CallTimedOut after cancel.
TimeOut(k) ==
    /\ fut[k] \notin Ended
    /\ GoTo(k, "wait", "cancel")
    /\ answer' = [answer EXCEPT ![k] = "timed_out"]
    /\ UNCHANGED <<bucketVars, slot, fut, countVars>>

\* The future is done.  A TimeoutError the operation raised itself is taken
\* for the caller's own: it is the same builtin class.
Deliver(k) ==
    /\ \/ /\ fut[k] = "ok"
          /\ GoTo(k, "wait", "shutdown")
          /\ answer' = [answer EXCEPT ![k] = "result"]
       \/ /\ fut[k] = "error"
          /\ GoTo(k, "wait", "shutdown")
          /\ answer' = [answer EXCEPT ![k] = "error"]
       \/ /\ fut[k] = "timeout"
          /\ GoTo(k, "wait", "cancel")
          /\ answer' = [answer EXCEPT ![k] = "timed_out"]
    /\ UNCHANGED <<bucketVars, slot, fut, countVars>>

\* Mistake: what was queued when the caller gave up stays queued.
CancelNothing(k, from, to) ==
    /\ GoTo(k, from, to)
    /\ UNCHANGED <<bucketVars, slot, fut, answer, countVars>>

\* Mistake: the slot of a running operation is given back with its future.
CancelReleasing(k, from, to) ==
    /\ \/ /\ fut[k] \in {"pending", "running"}
          /\ GoTo(k, from, "releasing")
          /\ fut' = [fut EXCEPT ![k] = IF @ = "pending" THEN "cancelled" ELSE @]
          /\ slot' = [slot EXCEPT ![k] = "decrement"]
       \/ /\ fut[k] \notin {"pending", "running"}
          /\ GoTo(k, from, to)
          /\ UNCHANGED <<fut, slot>>
    /\ UNCHANGED <<bucketVars, answer, countVars>>

\* Future.cancel stops what has not started, and then runs the callbacks in
\* the thread that cancels; it does nothing to a running or finished future.
CancelFuture(k, from, to) ==
    /\ \/ /\ fut[k] = "pending"
          /\ GoTo(k, from, "releasing")
          /\ fut' = [fut EXCEPT ![k] = "cancelled"]
          /\ slot' = [slot EXCEPT ![k] = "decrement"]
       \/ /\ fut[k] # "pending"
          /\ GoTo(k, from, to)
          /\ UNCHANGED <<fut, slot>>
    /\ UNCHANGED <<bucketVars, answer, countVars>>

Cancel(k) == CancelFuture(k, "cancel", "shutdown")

\* executor.shutdown(wait=False, cancel_futures=True), then call() returns.
Shutdown(k) == CancelFuture(k, "shutdown", "idle")

-----------------------------------------------------------------------------
(* The worker.  How long the operation takes is not up to the policy. *)

Start(k) ==
    /\ fut[k] = "pending"
    /\ fut' = [fut EXCEPT ![k] = "running"]
    /\ UNCHANGED <<bucketVars, pc, slot, answer, countVars>>

\* The future is done and its waiter woken; a callback added before that is
\* now run by the worker, one added later will be run by the caller.
Finish(k) ==
    /\ fut[k] = "running"
    /\ \E how \in {"ok", "error", "timeout"} : fut' = [fut EXCEPT ![k] = how]
    /\ slot' = [slot EXCEPT ![k] = IF pc[k] = "callback" THEN @ ELSE "decrement"]
    /\ UNCHANGED <<bucketVars, pc, answer, countVars>>

-----------------------------------------------------------------------------
(* release_slot, in whichever thread runs it. *)

ReleaseDecrement(k) ==
    /\ slot[k] = "decrement"
    /\ active' = active - 1
    /\ seen' = [seen EXCEPT ![k] = active - 1]
    /\ slot' = [slot EXCEPT ![k] = "gauge"]
    /\ UNCHANGED <<bucketVars, pc, fut, answer, free, gauge>>

ReleaseGauge(k) ==
    /\ slot[k] = "gauge"
    /\ gauge' = seen[k]
    /\ slot' = [slot EXCEPT ![k] = "release"]
    /\ UNCHANGED <<bucketVars, pc, fut, answer, free, active, seen>>

\* The semaphore is released last.  A caller that ran release_slot itself goes
\* on: to wait for the future it added the callback to, or to leave call().
ReleaseSemaphore(k) ==
    /\ slot[k] = "release"
    /\ free' = free + 1
    /\ slot' = [slot EXCEPT ![k] = "free"]
    /\ pc' = [pc EXCEPT ![k] =
                IF @ # "releasing" THEN @
                ELSE IF answer[k] = "none" THEN "wait" ELSE "shutdown"]
    /\ UNCHANGED <<bucketVars, fut, answer, active, seen, gauge>>

Release(k) == ReleaseDecrement(k) \/ ReleaseGauge(k) \/ ReleaseSemaphore(k)

-----------------------------------------------------------------------------

\* What the caller's thread does of its own accord once it is in call().
Caller(k) ==
    \/ TakeToken(k) \/ Acquire(k) \/ CountUp(k) \/ GaugeUp(k) \/ Submit(k)
    \/ AddCallback(k) \/ TimeOut(k) \/ Deliver(k) \/ Cancel(k) \/ Shutdown(k)

Next ==
    \/ Tick
    \/ \E k \in Calls :
          Begin(k) \/ Caller(k) \/ Start(k) \/ Finish(k) \/ Release(k)

Safe == Init /\ [][Next]_vars

\* Threads that can run do run, and the timeout passes.  Nothing is assumed of
\* the operation: Finish has no fairness, so it may hang for ever.
Fairness ==
    \A k \in Calls :
        /\ WF_vars(Caller(k))
        /\ WF_vars(Release(k))

Spec == Safe /\ Fairness

-----------------------------------------------------------------------------

Holders == {k \in Calls : slot[k] # "free"}
Waiting ==
    {k \in Calls : pc[k] \in CallerSteps \ {"idle", "rate", "acquire"}}

TypeOK ==
    /\ pc \in [Calls -> CallerSteps]
    /\ slot \in [Calls -> SlotSteps]
    /\ fut \in [Calls -> FutureStates]
    /\ answer \in [Calls -> Answers]
    /\ free \in 0..MaxConcurrency
    /\ active \in 0..MaxConcurrency
    /\ seen \in [Calls -> 0..MaxConcurrency]
    /\ gauge \in 0..MaxConcurrency

\* call/release_slot: every slot is in the semaphore or with exactly one call,
\* whichever thread ran release_slot and however the call ended: none leaks,
\* none is returned twice (BoundedSemaphore would raise in a done callback).
SlotsConserved == free + Cardinality(Holders) = MaxConcurrency

\* resilience.py:122: a timeout does not stop the thread, so the slot stays
\* taken until the thread exits: the operations really running, those nobody
\* waits for any more included, are never more than the bulkhead allows.
RunningBounded ==
    Cardinality({k \in Calls : fut[k] = "running"}) <= MaxConcurrency

\* _active_workers counts the calls between the two locked blocks, so that it
\* is zero whenever no call is in flight.
ActiveExact ==
    active = Cardinality({k \in Calls : slot[k] \in {"counted", "decrement"}})

\* What a caller left behind when call() returned: only an operation that was
\* running by then, and then the caller was told that it timed out.  Nothing
\* starts after its caller was answered.
NothingStartsLate ==
    \A k \in Calls :
        pc[k] = "idle" /\ fut[k] \in {"pending", "running"} =>
            fut[k] = "running" /\ answer[k] = "timed_out"

\* The rate limit and its fairness to fresh readings, TokenBucket's own
\* properties, as the whole policy goes through the bucket: callers that were
\* admitted and then rejected, timed out or failed have spent their token.
RateBounded == Bucket!WindowBounded
FreshUnindebted == Bucket!NoDebt

\* The bulkhead is the abstract one, answers to those let in included.
AbstractBulkhead ==
    INSTANCE Bulkhead WITH holders <- Holders, waiting <- Waiting
ImplementsBulkhead == AbstractBulkhead!Spec

\* call() is bounded in time: whoever begins returns, were the operations of
\* all calls to hang for ever.
CallersReturn == \A k \in Calls : pc[k] # "idle" ~> pc[k] = "idle"

\* release_slot runs for every call that got a slot: a call that has returned,
\* by whichever path, and whose operation is not running gives its slot back.
SlotsReturn ==
    \A k \in Calls : pc[k] = "idle" /\ fut[k] # "running" ~> slot[k] = "free"

\* metrics.py describes the gauge as the currently active operations: when no
\* call is in flight it should say so.
GaugeSettles ==
    (\A k \in Calls : pc[k] = "idle" /\ slot[k] = "free") => gauge = active

=============================================================================
