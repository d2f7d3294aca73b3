----------------------- MODULE ResiliencePolicyProofs -----------------------
(***************************************************************************)
(* ResiliencePolicy's invariants and its refinement of Bulkhead, for every *)
(* finite set of calls and every number of slots.                          *)
(*                                                                         *)
(* SlotsConserved is inductive only together with what ties the caller's   *)
(* place in call() to its slot and its future (Phases): that the thread    *)
(* which is about to move a slot on finds it where it expects it, though   *)
(* caller and worker move it without a common lock.                        *)
(***************************************************************************)
EXTENDS ResiliencePolicy, FiniteSetTheorems, TLAPS

\* The calls _active_workers counts.
Counted == {k \in Calls : slot[k] \in {"counted", "decrement"}}

Phases ==
    \A k \in Calls :
        /\ pc[k] \in {"rate", "acquire"} => slot[k] = "free"
        /\ pc[k] = "count" => slot[k] = "held"
        /\ pc[k] \in {"gauge", "submit", "callback"} => slot[k] = "counted"
        /\ fut[k] \in {"pending", "running"} => slot[k] = "counted"
        /\ pc[k] \in {"rate", "acquire", "count", "gauge", "submit"} => fut[k] = "none"
        /\ pc[k] = "releasing" => fut[k] \notin {"pending", "running"}
        /\ pc[k] = "idle" => fut[k] # "pending"
        /\ pc[k] \in {"cancel", "shutdown", "idle"} /\ fut[k] \in {"pending", "running"}
              => answer[k] = "timed_out"

IInv == TypeOK /\ Phases /\ SlotsConserved /\ ActiveExact

LEMMA Finite ==
    /\ IsFiniteSet(Holders) /\ Cardinality(Holders) \in Nat
    /\ IsFiniteSet(Counted) /\ Cardinality(Counted) \in Nat
  <1>1. IsFiniteSet(Holders) /\ IsFiniteSet(Counted)
    BY BulkheadPositive, FS_Subset DEF Holders, Counted
  <1> QED  BY <1>1, FS_CardinalityType

\* The counters stay within the bulkhead: only holders are counted.
LEMMA CountsBounded ==
    ASSUME SlotsConserved, free \in Nat
    PROVE  /\ Cardinality(Holders) <= MaxConcurrency
           /\ free <= MaxConcurrency
           /\ Cardinality(Counted) <= Cardinality(Holders)
  <1>1. Counted \subseteq Holders
    BY DEF Counted, Holders
  <1>2. Cardinality(Counted) <= Cardinality(Holders)
    BY <1>1, Finite, FS_Subset
  <1> QED  BY <1>2, Finite, BulkheadPositive DEF SlotsConserved

LEMMA InitInv == Init => IInv
  <1> SUFFICES ASSUME Init PROVE IInv
    OBVIOUS
  <1>1. TypeOK
    BY BulkheadPositive
    DEF Init, TypeOK, CallerSteps, SlotSteps, FutureStates, Answers
  <1>2. Phases
    BY DEF Init, Phases
  <1>3. Holders = {} /\ {k \in Calls : slot[k] \in {"counted", "decrement"}} = {}
    BY DEF Init, Holders
  <1>4. SlotsConserved /\ ActiveExact
    BY <1>3, FS_EmptySet, BulkheadPositive DEF Init, SlotsConserved, ActiveExact
  <1> QED  BY <1>1, <1>2, <1>4 DEF IInv

-----------------------------------------------------------------------------
(* A step in which no slot is taken or given back and no count changes:    *)
(* the two sets are what they were, and so are the counts.                 *)

LEMMA SameCounts ==
    ASSUME IInv, Holders' = Holders, Counted' = Counted,
           UNCHANGED <<free, active>>
    PROVE  SlotsConserved' /\ ActiveExact'
  BY DEF IInv, SlotsConserved, ActiveExact, Counted

\* Steps that leave slots and counts alone.
LEMMA SameSlots ==
    ASSUME IInv, UNCHANGED <<slot, free, active>>
    PROVE  /\ Holders' = Holders /\ Counted' = Counted
           /\ SlotsConserved' /\ ActiveExact'
  <1>1. Holders' = Holders /\ Counted' = Counted
    BY DEF Holders, Counted
  <1> QED  BY <1>1, SameCounts

-----------------------------------------------------------------------------
(* The caller's steps that leave every slot alone. *)

\* What most steps disturb is the phases; the counts they leave are settled
\* by SameSlots, so only the types and the phases remain.
LEMMA BucketStep ==
    ASSUME IInv,
           \/ Tick
           \/ \E k \in Calls : Begin(k) \/ TakeToken(k)
    PROVE  IInv'
  <1>1. UNCHANGED <<slot, free, active, seen, gauge>>
    BY DEF Tick, Begin, TakeToken, callVars, countVars
  <1>2. SlotsConserved' /\ ActiveExact'
    BY <1>1, SameSlots
  <1>3. CASE Tick
    <2>1. UNCHANGED <<pc, slot, fut, answer>>
      BY <1>3 DEF Tick, callVars
    <2> QED  BY <2>1, <1>1, <1>2 DEF IInv, TypeOK, Phases
  <1>4. ASSUME NEW k \in Calls, Begin(k) PROVE IInv'
    <2>1. /\ pc' = [pc EXCEPT ![k] = "rate"] /\ slot[k] = "free"
          /\ fut' = [fut EXCEPT ![k] = "none"]
          /\ answer' = [answer EXCEPT ![k] = "none"]
      BY <1>4 DEF Begin, GoTo
    <2>2. TypeOK'
      BY <1>1, <2>1 DEF IInv, TypeOK, CallerSteps, FutureStates, Answers
    <2>3. Phases'
      BY <1>1, <2>1 DEF IInv, TypeOK, Phases
    <2> QED  BY <2>2, <2>3, <1>2 DEF IInv
  <1>5. ASSUME NEW k \in Calls, TakeToken(k) PROVE IInv'
    <2>1. /\ pc[k] = "rate" /\ fut' = fut
          /\ \/ pc' = [pc EXCEPT ![k] = "acquire"] /\ answer' = answer
             \/ /\ pc' = [pc EXCEPT ![k] = "idle"]
                /\ answer' = [answer EXCEPT ![k] = "rate_limited"]
      BY <1>5 DEF TakeToken, GoTo
    <2>2. TypeOK'
      BY <1>1, <2>1 DEF IInv, TypeOK, CallerSteps, Answers
    <2>3. Phases'
      BY <1>1, <2>1 DEF IInv, TypeOK, Phases
    <2> QED  BY <2>2, <2>3, <1>2 DEF IInv
  <1> QED  BY <1>3, <1>4, <1>5

LEMMA WaitStep ==
    ASSUME IInv, NEW k \in Calls,
           GaugeUp(k) \/ TimeOut(k) \/ Deliver(k) \/ Start(k)
    PROVE  IInv'
  <1>1. UNCHANGED <<slot, free, active, seen>>
    BY DEF GaugeUp, TimeOut, Deliver, Start, countVars
  <1>2. SlotsConserved' /\ ActiveExact'
    BY <1>1, SameSlots
  <1>3. TypeOK' /\ Phases'
    <2>1. CASE GaugeUp(k)
      BY <2>1, <1>1 DEF GaugeUp, GoTo, IInv, TypeOK, Phases, CallerSteps
    <2>2. CASE TimeOut(k)
      BY <2>2, <1>1
      DEF TimeOut, GoTo, countVars, IInv, TypeOK, Phases, CallerSteps, Answers
    <2>3. CASE Deliver(k)
      BY <2>3, <1>1
      DEF Deliver, GoTo, countVars, IInv, TypeOK, Phases, CallerSteps, Answers
    <2>4. CASE Start(k)
      BY <2>4, <1>1 DEF Start, countVars, IInv, TypeOK, Phases, FutureStates
    <2> QED  BY <2>1, <2>2, <2>3, <2>4
  <1> QED  BY <1>2, <1>3 DEF IInv

-----------------------------------------------------------------------------
(* The steps that hand a slot over to release_slot, in whichever thread:   *)
(* it was counted before and is counted still.                             *)

LEMMA HandOver ==
    ASSUME IInv, NEW k \in Calls, slot[k] = "counted",
           slot' = [slot EXCEPT ![k] = "decrement"], UNCHANGED <<free, active>>
    PROVE  /\ Holders' = Holders
           /\ SlotsConserved' /\ ActiveExact'
  <1>1. slot \in [Calls -> SlotSteps]
    BY DEF IInv, TypeOK
  <1>2. Holders' = Holders /\ Counted' = Counted
    BY <1>1 DEF Holders, Counted
  <1> QED  BY <1>2, SameCounts

LEMMA SubmitStep ==
    ASSUME IInv, NEW k \in Calls, Submit(k)
    PROVE  IInv' /\ Holders' = Holders
  <1>1. slot[k] = "counted" /\ pc[k] = "submit" /\ UNCHANGED <<free, active, seen, gauge>>
    BY DEF Submit, GoTo, IInv, Phases, countVars
  <1>2. TypeOK' /\ Phases'
    BY <1>1
    DEF Submit, GoTo, IInv, TypeOK, Phases, CallerSteps, SlotSteps, FutureStates, Answers
  <1>3. SlotsConserved' /\ ActiveExact' /\ Holders' = Holders
    BY <1>1, HandOver, SameSlots DEF Submit
  <1> QED  BY <1>2, <1>3 DEF IInv

LEMMA AddCallbackStep ==
    ASSUME IInv, NEW k \in Calls, AddCallback(k)
    PROVE  IInv' /\ Holders' = Holders
  <1>1. slot[k] = "counted" /\ pc[k] = "callback" /\ UNCHANGED <<free, active, seen, gauge>>
    BY DEF AddCallback, GoTo, IInv, Phases, countVars
  <1>2. TypeOK' /\ Phases'
    BY <1>1
    DEF AddCallback, GoTo, IInv, TypeOK, Phases, CallerSteps, SlotSteps, Ended
  <1>3. SlotsConserved' /\ ActiveExact' /\ Holders' = Holders
    BY <1>1, HandOver, SameSlots DEF AddCallback
  <1> QED  BY <1>2, <1>3 DEF IInv

\* Cancel and Shutdown; only shutdown leads out of call().
LEMMA CancelStep ==
    ASSUME IInv, NEW k \in Calls, Cancel(k) \/ Shutdown(k)
    PROVE  IInv' /\ Holders' = Holders
  <1>1. /\ UNCHANGED <<answer, free, active, seen, gauge>>
        /\ \/ pc[k] = "cancel" /\ (pc' = [pc EXCEPT ![k] = "shutdown"]
                                  \/ pc' = [pc EXCEPT ![k] = "releasing"])
           \/ pc[k] = "shutdown" /\ (pc' = [pc EXCEPT ![k] = "idle"]
                                    \/ pc' = [pc EXCEPT ![k] = "releasing"])
        /\ \/ /\ fut[k] = "pending" /\ fut' = [fut EXCEPT ![k] = "cancelled"]
              /\ slot' = [slot EXCEPT ![k] = "decrement"]
              /\ pc' = [pc EXCEPT ![k] = "releasing"]
           \/ /\ fut[k] # "pending" /\ UNCHANGED <<fut, slot>>
              /\ pc' # [pc EXCEPT ![k] = "releasing"]
    BY DEF Cancel, Shutdown, CancelFuture, GoTo, countVars, IInv, TypeOK
  <1>2. fut[k] = "pending" => slot[k] = "counted"
    BY DEF IInv, Phases
  <1>3. TypeOK'
    BY <1>1 DEF IInv, TypeOK, CallerSteps, SlotSteps, FutureStates
  <1>4. Phases'
    <2>1. CASE fut[k] = "pending"
      BY <2>1, <1>1, <1>2 DEF IInv, TypeOK, Phases
    <2>2. CASE fut[k] # "pending"
      BY <2>2, <1>1 DEF IInv, TypeOK, Phases
    <2> QED  BY <2>1, <2>2
  <1>5. SlotsConserved' /\ ActiveExact' /\ Holders' = Holders
    BY <1>1, <1>2, HandOver, SameSlots
  <1> QED  BY <1>3, <1>4, <1>5 DEF IInv

LEMMA FinishStep ==
    ASSUME IInv, NEW k \in Calls, Finish(k)
    PROVE  IInv' /\ Holders' = Holders
  <1>1. /\ slot[k] = "counted" /\ fut[k] = "running"
        /\ UNCHANGED <<pc, answer, free, active, seen, gauge>>
    BY DEF Finish, IInv, Phases, countVars
  <1>2. PICK how \in {"ok", "error", "timeout"} : fut' = [fut EXCEPT ![k] = how]
    BY DEF Finish
  <1>3. \/ slot' = slot /\ pc[k] = "callback"
        \/ slot' = [slot EXCEPT ![k] = "decrement"] /\ pc[k] # "callback"
    BY DEF Finish, IInv, TypeOK
  <1>4. pc[k] \notin {"rate", "acquire", "count", "gauge", "submit"}
    BY <1>1 DEF IInv, Phases
  <1>5. TypeOK'
    BY <1>1, <1>2, <1>3 DEF IInv, TypeOK, SlotSteps, FutureStates
  <1>6. Phases'
    BY <1>1, <1>2, <1>3, <1>4 DEF IInv, TypeOK, Phases
  <1>7. SlotsConserved' /\ ActiveExact' /\ Holders' = Holders
    BY <1>1, <1>3, HandOver, SameSlots
  <1> QED  BY <1>5, <1>6, <1>7 DEF IInv

-----------------------------------------------------------------------------
(* The four steps that move a count. *)

LEMMA AcquireStep ==
    ASSUME IInv, NEW k \in Calls, Acquire(k)
    PROVE  /\ IInv'
           /\ \/ /\ k \notin Holders /\ Holders' = Holders \cup {k}
                 /\ Cardinality(Holders) < MaxConcurrency
                 /\ pc' = [pc EXCEPT ![k] = "count"]
              \/ /\ Holders' = Holders
                 /\ pc' = [pc EXCEPT ![k] = "idle"]
  <1>1. /\ UNCHANGED <<fut, active, seen, gauge>>
        /\ pc[k] = "acquire" /\ slot[k] = "free" /\ fut[k] = "none"
    BY DEF Acquire, GoTo, IInv, Phases
  <1>2. CASE free > 0 /\ slot' = [slot EXCEPT ![k] = "held"]
             /\ free' = free - 1 /\ answer' = answer
             /\ pc' = [pc EXCEPT ![k] = "count"]
    <2>1. k \notin Holders /\ Holders' = Holders \cup {k} /\ Counted' = Counted
      BY <1>1, <1>2 DEF Holders, Counted, IInv, TypeOK
    <2>2. Cardinality(Holders') = Cardinality(Holders) + 1
      BY <2>1, Finite, FS_AddElement
    <2>3. SlotsConserved' /\ Cardinality(Holders) < MaxConcurrency
      <3>1. free \in Nat /\ free + Cardinality(Holders) = MaxConcurrency
        BY BulkheadPositive DEF IInv, TypeOK, SlotsConserved
      <3>2. free' + Cardinality(Holders') = MaxConcurrency
        BY <3>1, <1>2, <2>2, Finite
      <3>3. Cardinality(Holders) < MaxConcurrency
        BY <3>1, <1>2, Finite, BulkheadPositive
      <3> QED  BY <3>2, <3>3 DEF SlotsConserved
    <2>6. ActiveExact'
      BY <1>1, <2>1 DEF IInv, ActiveExact, Counted
    <2>4. TypeOK'
      BY <1>1, <1>2, BulkheadPositive DEF IInv, TypeOK, CallerSteps, SlotSteps
    <2>5. Phases'
      BY <1>1, <1>2 DEF IInv, TypeOK, Phases
    <2> QED  BY <1>2, <2>1, <2>3, <2>4, <2>5, <2>6 DEF IInv
  <1>3. CASE UNCHANGED <<free, slot>> /\ pc' = [pc EXCEPT ![k] = "idle"]
             /\ answer' = [answer EXCEPT ![k] = "rejected"]
    <2>1. Holders' = Holders /\ SlotsConserved' /\ ActiveExact'
      BY <1>1, <1>3, SameSlots
    <2>2. TypeOK'
      BY <1>1, <1>3 DEF IInv, TypeOK, CallerSteps, Answers
    <2>3. Phases'
      BY <1>1, <1>3 DEF IInv, TypeOK, Phases
    <2> QED  BY <1>3, <2>1, <2>2, <2>3 DEF IInv
  <1> QED  BY <1>2, <1>3 DEF Acquire, GoTo

LEMMA CountUpStep ==
    ASSUME IInv, NEW k \in Calls, CountUp(k)
    PROVE  IInv' /\ Holders' = Holders
  <1>1. /\ UNCHANGED <<fut, answer, free, gauge>>
        /\ pc[k] = "count" /\ slot[k] = "held" /\ fut[k] = "none"
        /\ pc' = [pc EXCEPT ![k] = "gauge"]
        /\ slot' = [slot EXCEPT ![k] = "counted"]
        /\ active' = active + 1
        /\ seen' = [seen EXCEPT ![k] = active + 1]
    BY DEF CountUp, GoTo, IInv, Phases
  <1>2. /\ Holders' = Holders
        /\ k \in Holders /\ k \notin Counted /\ Counted' = Counted \cup {k}
    BY <1>1 DEF Holders, Counted, IInv, TypeOK
  <1>3. Cardinality(Counted') = Cardinality(Counted) + 1
    BY <1>2, Finite, FS_AddElement
  <1>4. Cardinality(Counted') <= Cardinality(Holders)
    <2>1. Counted \cup {k} \subseteq Holders
      BY <1>2 DEF Counted, Holders
    <2> QED  BY <2>1, <1>2, Finite, FS_Subset
  <1>5. SlotsConserved' /\ ActiveExact'
    BY <1>1, <1>2, <1>3 DEF IInv, SlotsConserved, ActiveExact, Counted
  <1>6. active' \in 0..MaxConcurrency
    <2>1. active = Cardinality(Counted)
      BY DEF IInv, ActiveExact, Counted
    <2>2. Cardinality(Holders) <= MaxConcurrency
      BY CountsBounded DEF IInv, TypeOK
    <2> QED  BY <1>1, <1>3, <1>4, <2>1, <2>2, Finite, BulkheadPositive
  <1>7. TypeOK'
    BY <1>1, <1>6 DEF IInv, TypeOK, CallerSteps, SlotSteps
  <1>8. Phases'
    BY <1>1 DEF IInv, TypeOK, Phases
  <1> QED  BY <1>2, <1>5, <1>7, <1>8 DEF IInv

LEMMA DecrementStep ==
    ASSUME IInv, NEW k \in Calls, ReleaseDecrement(k)
    PROVE  IInv' /\ Holders' = Holders
  <1>1. /\ UNCHANGED <<pc, fut, answer, free, gauge>>
        /\ slot[k] = "decrement"
        /\ slot' = [slot EXCEPT ![k] = "gauge"]
        /\ active' = active - 1
        /\ seen' = [seen EXCEPT ![k] = active - 1]
    BY DEF ReleaseDecrement
  <1>2. Holders' = Holders /\ k \in Counted /\ Counted' = Counted \ {k}
    BY <1>1 DEF Holders, Counted, IInv, TypeOK
  <1>3. Cardinality(Counted') = Cardinality(Counted) - 1
    BY <1>2, Finite, FS_RemoveElement
  <1>4. active' \in 0..MaxConcurrency
    <2>1. Cardinality(Counted') \in Nat
      BY <1>2, Finite, FS_RemoveElement, FS_CardinalityType
    <2>2. active = Cardinality(Counted) /\ active \in 0..MaxConcurrency
      BY DEF IInv, ActiveExact, Counted, TypeOK
    <2> QED  BY <1>1, <1>3, <2>1, <2>2, BulkheadPositive
  <1>5. SlotsConserved' /\ ActiveExact'
    BY <1>1, <1>2, <1>3 DEF IInv, SlotsConserved, ActiveExact, Counted
  <1>6. TypeOK'
    BY <1>1, <1>4 DEF IInv, TypeOK, SlotSteps
  <1>7. Phases'
    BY <1>1 DEF IInv, TypeOK, Phases
  <1> QED  BY <1>2, <1>5, <1>6, <1>7 DEF IInv

LEMMA ReleaseGaugeStep ==
    ASSUME IInv, NEW k \in Calls, ReleaseGauge(k)
    PROVE  IInv' /\ Holders' = Holders
  <1>1. /\ UNCHANGED <<pc, fut, answer, free, active, seen>>
        /\ slot[k] = "gauge"
        /\ slot' = [slot EXCEPT ![k] = "release"]
        /\ gauge' = seen[k]
    BY DEF ReleaseGauge
  <1>2. Holders' = Holders /\ Counted' = Counted
    BY <1>1 DEF Holders, Counted, IInv, TypeOK
  <1>3. SlotsConserved' /\ ActiveExact'
    BY <1>1, <1>2, SameCounts
  <1>4. TypeOK'
    BY <1>1 DEF IInv, TypeOK, SlotSteps
  <1>5. Phases'
    BY <1>1 DEF IInv, TypeOK, Phases
  <1> QED  BY <1>2, <1>3, <1>4, <1>5 DEF IInv

LEMMA SemaphoreStep ==
    ASSUME IInv, NEW k \in Calls, ReleaseSemaphore(k)
    PROVE  IInv' /\ k \in Holders /\ Holders' = Holders \ {k}
  <1>1. /\ UNCHANGED <<fut, answer, active, seen, gauge>>
        /\ slot[k] = "release"
        /\ slot' = [slot EXCEPT ![k] = "free"]
        /\ free' = free + 1
        /\ \/ pc' = pc
           \/ /\ pc[k] = "releasing"
              /\ \E to \in {"wait", "shutdown"} : pc' = [pc EXCEPT ![k] = to]
    <2>1. pc' = [pc EXCEPT ![k] = IF pc[k] # "releasing" THEN pc[k]
                                 ELSE IF answer[k] = "none" THEN "wait" ELSE "shutdown"]
      BY DEF ReleaseSemaphore
    <2>2. pc \in [Calls -> CallerSteps]
      BY DEF IInv, TypeOK
    <2>3. CASE pc[k] # "releasing"
      BY <2>1, <2>2, <2>3 DEF ReleaseSemaphore
    <2>4. CASE pc[k] = "releasing"
      BY <2>1, <2>2, <2>4 DEF ReleaseSemaphore
    <2> QED  BY <2>3, <2>4
  <1>2. k \in Holders /\ Holders' = Holders \ {k} /\ Counted' = Counted
    BY <1>1 DEF Holders, Counted, IInv, TypeOK
  <1>3. Cardinality(Holders') = Cardinality(Holders) - 1 /\ Cardinality(Holders') \in Nat
    BY <1>2, Finite, FS_RemoveElement, FS_CardinalityType
  <1>4. SlotsConserved' /\ ActiveExact' /\ free' \in 0..MaxConcurrency
    <2>1. free \in Nat /\ free + Cardinality(Holders) = MaxConcurrency
      BY BulkheadPositive DEF IInv, TypeOK, SlotsConserved
    <2>2. free' + Cardinality(Holders') = MaxConcurrency
      BY <2>1, <1>1, <1>3, Finite
    <2>3. free' \in 0..MaxConcurrency
      BY <2>1, <2>2, <1>1, <1>3, BulkheadPositive
    <2>4. ActiveExact'
      BY <1>1, <1>2 DEF IInv, ActiveExact, Counted
    <2> QED  BY <2>2, <2>3, <2>4 DEF SlotsConserved
  <1>5. TypeOK'
    BY <1>1, <1>4 DEF IInv, TypeOK, CallerSteps, SlotSteps
  <1>6. Phases'
    BY <1>1 DEF IInv, TypeOK, Phases
  <1> QED  BY <1>2, <1>4, <1>5, <1>6 DEF IInv

-----------------------------------------------------------------------------

LEMMA NextInv == IInv /\ [Next]_vars => IInv'
  <1> SUFFICES ASSUME IInv, [Next]_vars PROVE IInv'
    OBVIOUS
  <1>1. CASE UNCHANGED vars
    <2>1. UNCHANGED <<pc, slot, fut, answer, free, active, seen, gauge>>
      BY <1>1 DEF vars, callVars, countVars
    <2>2. SlotsConserved' /\ ActiveExact'
      BY <2>1, SameSlots
    <2> QED  BY <2>1, <2>2 DEF IInv, TypeOK, Phases
  <1>2. CASE Tick
    BY <1>2, BucketStep
  <1>3. ASSUME NEW k \in Calls,
               Begin(k) \/ Caller(k) \/ Start(k) \/ Finish(k) \/ Release(k)
        PROVE  IInv'
    BY <1>3, BucketStep, WaitStep, AcquireStep, CountUpStep, SubmitStep,
       AddCallbackStep, CancelStep, FinishStep, DecrementStep,
       ReleaseGaugeStep, SemaphoreStep
    DEF Caller, Release
  <1> QED  BY <1>1, <1>2, <1>3 DEF Next

LEMMA Invariance == Safe => []IInv
  BY InitInv, NextInv, PTL DEF Safe

-----------------------------------------------------------------------------
(* What the invariant is for. *)

\* The counters and the gauge never leave 0..MaxConcurrency, for any number of
\* calls and slots: in particular the semaphore is never released too often.
THEOREM TypeCorrect == Safe => []TypeOK
  <1>1. IInv => TypeOK
    BY DEF IInv
  <1> QED  BY <1>1, Invariance, PTL

\* No slot leaks and none is returned twice, for any number of calls and slots.
THEOREM NoSlotLeaks == Safe => []SlotsConserved
  <1>1. IInv => SlotsConserved
    BY DEF IInv
  <1> QED  BY <1>1, Invariance, PTL

\* _active_workers agrees with the calls in flight in every reachable state.
THEOREM CountIsExact == Safe => []ActiveExact
  <1>1. IInv => ActiveExact
    BY DEF IInv
  <1> QED  BY <1>1, Invariance, PTL

\* The threads really running an operation, abandoned ones included, are never
\* more than the bulkhead's slots.
THEOREM BulkheadHolds == Safe => []RunningBounded
  <1>1. IInv => RunningBounded
    <2> SUFFICES ASSUME IInv PROVE RunningBounded
      OBVIOUS
    <2> DEFINE Running == {k \in Calls : fut[k] = "running"}
    <2>1. Running \subseteq Holders
      BY DEF IInv, Phases, Holders
    <2>2. Cardinality(Running) <= Cardinality(Holders) /\ Cardinality(Running) \in Nat
      BY <2>1, Finite, FS_Subset, FS_CardinalityType
    <2>3. Cardinality(Holders) <= MaxConcurrency
      BY CountsBounded DEF IInv, TypeOK
    <2>4. Cardinality(Running) <= MaxConcurrency
      BY <2>2, <2>3, Finite, BulkheadPositive
    <2> QED  BY <2>4 DEF RunningBounded
  <1> QED  BY <1>1, Invariance, PTL

\* An operation nobody waits for any more was running when its caller left, and
\* its caller was told that it timed out.
THEOREM NothingLeftQueued == Safe => []NothingStartsLate
  <1>1. IInv => NothingStartsLate
    BY DEF IInv, Phases, NothingStartsLate
  <1> QED  BY <1>1, Invariance, PTL

-----------------------------------------------------------------------------
(* What is left of the gauge, whose two writes are outside the lock.  Writes *)
(* overtake each other, so it need not say how many operations are active;   *)
(* but the last write of all is a release's, whose reading came after its    *)
(* own decrement, so that it cannot be that of a full bulkhead.              *)

\* The calls whose release has not written its reading yet.
Writers == {k \in Calls : slot[k] \in {"counted", "decrement", "gauge"}}

GaugeInv ==
    /\ \A k \in Calls : slot[k] = "gauge" => seen[k] < MaxConcurrency
    /\ gauge = MaxConcurrency => Writers # {}

LEMMA GaugeKept == IInv /\ GaugeInv /\ [Next]_vars => GaugeInv'
  <1> SUFFICES ASSUME IInv, GaugeInv, [Next]_vars PROVE GaugeInv'
    OBVIOUS
  <1>1. /\ \A k \in Calls : slot[k] = "gauge" => seen[k] < MaxConcurrency
        /\ gauge = MaxConcurrency => \E k \in Calls : slot[k] \in {"counted", "decrement", "gauge"}
        /\ slot \in [Calls -> SlotSteps] /\ seen \in [Calls -> 0..MaxConcurrency]
        /\ active \in 0..MaxConcurrency /\ gauge \in 0..MaxConcurrency
        /\ MaxConcurrency \in Nat
    BY BulkheadPositive DEF GaugeInv, Writers, IInv, TypeOK
  <1>2. ASSUME UNCHANGED <<seen, gauge>>, NEW k \in Calls,
               \/ slot' = slot
               \/ slot' = [slot EXCEPT ![k] = "held"] /\ slot[k] = "free"
               \/ slot' = [slot EXCEPT ![k] = "decrement"] /\ slot[k] = "counted"
               \/ slot' = [slot EXCEPT ![k] = "free"] /\ slot[k] = "release"
        PROVE  GaugeInv'
    BY <1>1, <1>2 DEF GaugeInv, Writers
  <1>3. ASSUME UNCHANGED <<slot, seen, gauge>> PROVE GaugeInv'
    BY <1>3, <1>1 DEF GaugeInv, Writers
  <1>4. CASE Tick \/ UNCHANGED vars
    BY <1>4, <1>3 DEF Tick, vars, callVars, countVars
  <1>5. ASSUME NEW k \in Calls,
               \/ Begin(k) \/ TakeToken(k) \/ TimeOut(k) \/ Deliver(k) \/ Start(k)
        PROVE  GaugeInv'
    BY <1>5, <1>3 DEF Begin, TakeToken, TimeOut, Deliver, Start, countVars
  <1>6. ASSUME NEW k \in Calls, Acquire(k) PROVE GaugeInv'
    <2>1. slot[k] = "free"
      BY <1>6 DEF Acquire, GoTo, IInv, Phases
    <2> QED  BY <1>2, <1>6, <2>1 DEF Acquire
  <1>7. ASSUME NEW k \in Calls, Submit(k) \/ AddCallback(k) \/ Cancel(k) \/ Shutdown(k) \/ Finish(k)
        PROVE  GaugeInv'
    <2>1. /\ UNCHANGED <<seen, gauge>>
          /\ slot' = slot \/ (slot' = [slot EXCEPT ![k] = "decrement"] /\ slot[k] = "counted")
      BY <1>1, <1>7
      DEF Submit, AddCallback, Cancel, Shutdown, CancelFuture, Finish, GoTo, countVars, IInv, Phases
    <2> QED  BY <1>2, <2>1
  <1>8. ASSUME NEW k \in Calls, CountUp(k) PROVE GaugeInv'
    BY <1>1, <1>8 DEF CountUp, GaugeInv, Writers
  <1>9. ASSUME NEW k \in Calls, GaugeUp(k) PROVE GaugeInv'
    <2>1. slot[k] = "counted"
      BY <1>9 DEF GaugeUp, GoTo, IInv, Phases
    <2> QED  BY <1>1, <1>9, <2>1 DEF GaugeUp, GaugeInv, Writers
  <1>10. ASSUME NEW k \in Calls, ReleaseDecrement(k) PROVE GaugeInv'
    BY <1>1, <1>10 DEF ReleaseDecrement, GaugeInv, Writers
  <1>11. ASSUME NEW k \in Calls, ReleaseGauge(k) PROVE GaugeInv'
    <2>1. gauge' < MaxConcurrency
      BY <1>1, <1>11 DEF ReleaseGauge
    <2> QED  BY <1>1, <1>11, <2>1 DEF ReleaseGauge, GaugeInv, Writers
  <1>12. ASSUME NEW k \in Calls, ReleaseSemaphore(k) PROVE GaugeInv'
    BY <1>2, <1>12 DEF ReleaseSemaphore
  <1> QED  BY <1>4, <1>5, <1>6, <1>7, <1>8, <1>9, <1>10, <1>11, <1>12 DEF Next, Caller, Release

LEMMA GaugeInvariance == Safe => []GaugeInv
  <1>1. Init => GaugeInv
    BY BulkheadPositive DEF Init, GaugeInv
  <1> QED  BY <1>1, GaugeKept, Invariance, PTL DEF Safe

\* While no slot is taken, rag_bulkhead_active may show operations that ended
\* (GaugeSettles), but never a full bulkhead.
NeverFullAtRest == Holders = {} => gauge < MaxConcurrency

THEOREM RestIsNotFull == Safe => []NeverFullAtRest
  <1>1. IInv /\ GaugeInv => NeverFullAtRest
    <2> SUFFICES ASSUME IInv, GaugeInv, Holders = {} PROVE gauge < MaxConcurrency
      BY DEF NeverFullAtRest
    <2>1. Writers = {}
      BY DEF Writers, Holders
    <2> QED  BY <2>1, BulkheadPositive DEF GaugeInv, IInv, TypeOK
  <1> QED  BY <1>1, Invariance, GaugeInvariance, PTL

\* A bulkhead of one slot has a gauge that settles: it takes two slots for two
\* writes to overtake each other.
THEOREM OneSlotSettles == ASSUME MaxConcurrency = 1 PROVE Safe => []GaugeSettles
  <1>1. IInv /\ GaugeInv => GaugeSettles
    <2> SUFFICES ASSUME IInv, GaugeInv, \A k \in Calls : slot[k] = "free"
                 PROVE  gauge = active
      BY DEF GaugeSettles
    <2>1. Writers = {} /\ {k \in Calls : slot[k] \in {"counted", "decrement"}} = {}
      BY DEF Writers
    <2>2. active = 0
      BY <2>1, FS_EmptySet DEF IInv, ActiveExact
    <2>3. gauge \in 0..1 /\ gauge # 1
      BY <2>1 DEF GaugeInv, IInv, TypeOK
    <2> QED  BY <2>2, <2>3
  <1> QED  BY <1>1, Invariance, GaugeInvariance, PTL

-----------------------------------------------------------------------------
(* Who is refused.  Bulkhead.tla says nothing of the calls it does not let  *)
(* in, so that a bulkhead that refuses everybody would implement it.        *)

\* A call is told "rejected" only as it finds every slot with another call.
\* (Some of those calls may have been answered: their threads still run, or are
\* about to give the slot back.)
RefusedWhenFull ==
    \A k \in Calls :
        answer[k] # "rejected" /\ answer'[k] = "rejected" =>
            k \notin Holders /\ Cardinality(Holders) = MaxConcurrency

LEMMA OnlyAcquireRefuses ==
    ASSUME IInv, [Next]_vars, NEW k \in Calls, answer[k] # "rejected", answer'[k] = "rejected"
    PROVE  Acquire(k) /\ free = 0
  <1>1. answer \in [Calls -> Answers]
    BY DEF IInv, TypeOK
  <1>2. CASE Tick \/ UNCHANGED vars
    BY <1>2 DEF Tick, vars, callVars
  <1>3. ASSUME NEW c \in Calls, Begin(c) \/ Caller(c) \/ Start(c) \/ Finish(c) \/ Release(c)
        PROVE  Acquire(k) /\ free = 0
    <2>1. CASE Acquire(c)
      BY <1>1, <2>1 DEF Acquire
    <2>2. CASE Begin(c) \/ TakeToken(c) \/ Submit(c) \/ TimeOut(c) \/ Deliver(c)
      BY <1>1, <2>2 DEF Begin, TakeToken, Submit, TimeOut, Deliver
    <2>3. CASE CountUp(c) \/ GaugeUp(c) \/ AddCallback(c) \/ Cancel(c) \/ Shutdown(c)
      BY <2>3 DEF CountUp, GaugeUp, AddCallback, Cancel, Shutdown, CancelFuture
    <2>4. CASE Start(c) \/ Finish(c) \/ Release(c)
      BY <2>4 DEF Start, Finish, Release, ReleaseDecrement, ReleaseGauge, ReleaseSemaphore
    <2> QED  BY <1>3, <2>1, <2>2, <2>3, <2>4 DEF Caller
  <1> QED  BY <1>2, <1>3 DEF Next

\* No caller is refused a slot that is there, however the threads that take and
\* return the slots interleave (acquire(blocking=False) and release_slot).
THEOREM RefusalsAreDue == Safe => [][RefusedWhenFull]_vars
  <1>1. IInv /\ [Next]_vars => [RefusedWhenFull]_vars
    <2> SUFFICES ASSUME IInv, [Next]_vars, NEW k \in Calls,
                        answer[k] # "rejected", answer'[k] = "rejected"
                 PROVE  k \notin Holders /\ Cardinality(Holders) = MaxConcurrency
      BY DEF RefusedWhenFull
    <2>1. Acquire(k) /\ free = 0
      BY OnlyAcquireRefuses
    <2>2. k \notin Holders
      BY <2>1 DEF Acquire, GoTo, IInv, Phases, Holders
    <2>3. Cardinality(Holders) = MaxConcurrency
      BY <2>1, Finite, FS_CardinalityType DEF IInv, SlotsConserved
    <2> QED  BY <2>2, <2>3
  <1> QED  BY <1>1, Invariance, PTL DEF Safe

-----------------------------------------------------------------------------
(* The threads implement the bulkhead of Bulkhead.tla: acquiring enters,   *)
(* leaving call() answers, releasing the semaphore leaves; every other     *)
(* step is invisible there.                                                *)

\* Steps that move a caller about within its wait, or before it is let in.
LEMMA SameWaiting ==
    ASSUME IInv, [Next]_vars,
           ~ \E k \in Calls : Acquire(k) \/ Shutdown(k)
    PROVE  Waiting' = Waiting
  <1> USE DEF IInv, TypeOK, Waiting, CallerSteps, GoTo
  <1>1. CASE UNCHANGED vars
    BY <1>1 DEF vars, callVars
  <1>2. CASE Tick
    BY <1>2 DEF Tick, callVars
  <1>3. ASSUME NEW k \in Calls, Begin(k) \/ TakeToken(k)
        PROVE  Waiting' = Waiting
    BY <1>3 DEF Begin, TakeToken
  <1>4. ASSUME NEW k \in Calls, CountUp(k) \/ GaugeUp(k) \/ Submit(k) \/ AddCallback(k)
        PROVE  Waiting' = Waiting
    BY <1>4 DEF CountUp, GaugeUp, Submit, AddCallback
  <1>5. ASSUME NEW k \in Calls, TimeOut(k) \/ Deliver(k) \/ Cancel(k)
        PROVE  Waiting' = Waiting
    BY <1>5 DEF TimeOut, Deliver, Cancel, CancelFuture
  <1>6. ASSUME NEW k \in Calls, Start(k) \/ Finish(k)
        PROVE  Waiting' = Waiting
    BY <1>6 DEF Start, Finish
  <1>7. ASSUME NEW k \in Calls, Release(k)
        PROVE  Waiting' = Waiting
    BY <1>7 DEF Release, ReleaseDecrement, ReleaseGauge, ReleaseSemaphore
  <1> QED  BY <1>1, <1>2, <1>3, <1>4, <1>5, <1>6, <1>7 DEF Next, Caller

LEMMA StepRefines ==
    IInv /\ [Next]_vars =>
        [AbstractBulkhead!Next]_(AbstractBulkhead!bulkheadVars)
  <1> SUFFICES ASSUME IInv, [Next]_vars
               PROVE  \/ AbstractBulkhead!Next
                      \/ UNCHANGED <<Holders, Waiting>>
    BY DEF AbstractBulkhead!bulkheadVars
  <1>1. ASSUME NEW k \in Calls, Acquire(k)
        PROVE  AbstractBulkhead!Enter(k) \/ UNCHANGED <<Holders, Waiting>>
    <2>1. pc[k] = "acquire" /\ pc \in [Calls -> CallerSteps]
      BY <1>1 DEF Acquire, GoTo, IInv, TypeOK
    <2>2. k \notin Waiting
      BY <2>1 DEF Waiting
    <2>3. CASE pc' = [pc EXCEPT ![k] = "count"] /\ k \notin Holders
               /\ Holders' = Holders \cup {k} /\ Cardinality(Holders) < MaxConcurrency
      <3>1. Waiting' = Waiting \cup {k}
        BY <2>1, <2>3 DEF Waiting, CallerSteps
      <3>2. AbstractBulkhead!Cardinality(Holders) = Cardinality(Holders)
        BY DEF AbstractBulkhead!Cardinality, Cardinality
      <3> QED  BY <3>1, <3>2, <2>2, <2>3 DEF AbstractBulkhead!Enter
    <2>4. CASE pc' = [pc EXCEPT ![k] = "idle"] /\ Holders' = Holders
      <3>1. Waiting' = Waiting
        BY <2>1, <2>4 DEF Waiting, CallerSteps
      <3> QED  BY <3>1, <2>4
    <2> QED  BY <1>1, <2>3, <2>4, AcquireStep
  <1>2. ASSUME NEW k \in Calls, Shutdown(k)
        PROVE  AbstractBulkhead!Answer(k) \/ UNCHANGED <<Holders, Waiting>>
    <2>1. pc[k] = "shutdown" /\ pc \in [Calls -> CallerSteps]
      BY <1>2 DEF Shutdown, CancelFuture, GoTo, IInv, TypeOK
    <2>2. Holders' = Holders /\ k \in Waiting
      BY <1>2, <2>1, CancelStep DEF Waiting, CallerSteps
    <2>3. CASE pc' = [pc EXCEPT ![k] = "idle"]
      <3>1. Waiting' = Waiting \ {k}
        BY <2>1, <2>3 DEF Waiting, CallerSteps
      <3> QED  BY <3>1, <2>2 DEF AbstractBulkhead!Answer
    <2>4. CASE pc' = [pc EXCEPT ![k] = "releasing"]
      <3>1. Waiting' = Waiting
        BY <2>1, <2>4 DEF Waiting, CallerSteps
      <3> QED  BY <3>1, <2>2
    <2> QED  BY <1>2, <2>3, <2>4 DEF Shutdown, CancelFuture, GoTo
  <1>3. CASE ~ \E k \in Calls : Acquire(k) \/ Shutdown(k)
    <2>1. Waiting' = Waiting
      BY <1>3, SameWaiting
    <2>2. ASSUME NEW k \in Calls, ReleaseSemaphore(k)
          PROVE  AbstractBulkhead!Leave(k)
      BY <2>1, <2>2, SemaphoreStep DEF AbstractBulkhead!Leave
    <2>3. CASE ~ \E k \in Calls : ReleaseSemaphore(k)
      <3>1. ASSUME UNCHANGED vars \/ Tick PROVE Holders' = Holders
        BY <3>1 DEF vars, callVars, Tick, Holders
      <3>2. ASSUME NEW k \in Calls,
                   \/ Begin(k) \/ TakeToken(k) \/ GaugeUp(k)
                   \/ TimeOut(k) \/ Deliver(k) \/ Start(k)
            PROVE  Holders' = Holders
        BY <3>2 DEF Begin, TakeToken, GaugeUp, TimeOut, Deliver, Start, Holders
      <3>3. ASSUME NEW k \in Calls,
                   \/ CountUp(k) \/ Submit(k) \/ AddCallback(k) \/ Cancel(k)
                   \/ Finish(k) \/ ReleaseDecrement(k) \/ ReleaseGauge(k)
            PROVE  Holders' = Holders
        BY <3>3, CountUpStep, SubmitStep, AddCallbackStep, CancelStep,
           FinishStep, DecrementStep, ReleaseGaugeStep
      <3>4. Holders' = Holders
        BY <1>3, <2>3, <3>1, <3>2, <3>3 DEF Next, Caller, Release
      <3> QED  BY <2>1, <3>4
    <2> QED  BY <2>2, <2>3 DEF AbstractBulkhead!Next
  <1> QED  BY <1>1, <1>2, <1>3 DEF AbstractBulkhead!Next

\* Every behaviour of the threads is one of the abstract bulkhead's, but for
\* the promise that whoever is let in is answered, which is liveness.
THEOREM RefinesBulkhead == Safe => AbstractBulkhead!Safe
  <1>1. Init => AbstractBulkhead!Init
    BY DEF Init, AbstractBulkhead!Init, Holders, Waiting
  <1> QED  BY <1>1, StepRefines, Invariance, PTL DEF Safe, AbstractBulkhead!Safe

-----------------------------------------------------------------------------
(* The rate limit of the whole policy: its steps are the token bucket's, so *)
(* what is proved of the bucket holds of it.                                *)

Limiter == INSTANCE TokenBucketProofs WITH Callers <- Calls

LEMMA SameBucket ==
    /\ Limiter!bucketVars = bucketVars
    /\ Bucket!Init => Limiter!Init
    /\ Bucket!Tick => Limiter!Tick
    /\ \A k \in Calls : Bucket!ReadClock(k) => Limiter!ReadClock(k)
    /\ \A k \in Calls : Bucket!Admit(k) => Limiter!Admit(k)
    /\ \A k \in Calls : Bucket!Reject(k) => Limiter!Reject(k)
  BY DEF bucketVars, Limiter!bucketVars, Bucket!Init, Limiter!Init,
     Bucket!Tick, Limiter!Tick, Bucket!ReadClock, Limiter!ReadClock,
     Bucket!Admit, Limiter!Admit, Bucket!Reject, Limiter!Reject,
     Bucket!Refilled, Limiter!Refilled, Bucket!Capacity, Limiter!Capacity,
     Bucket!NoStamp, Limiter!NoStamp

LEMMA BucketSteps == [Next]_vars => [Limiter!Next]_(Limiter!bucketVars)
  <1> SUFFICES ASSUME [Next]_vars, ~ UNCHANGED bucketVars
               PROVE  Limiter!Next
    BY SameBucket DEF bucketVars, Limiter!bucketVars
  <1>1. CASE Tick
    BY <1>1, SameBucket DEF Tick, Limiter!Next
  <1>2. ASSUME NEW k \in Calls,
               Begin(k) \/ Caller(k) \/ Start(k) \/ Finish(k) \/ Release(k)
        PROVE  \/ Bucket!ReadClock(k) \/ Bucket!Admit(k) \/ Bucket!Reject(k)
    BY <1>2
    DEF Caller, Release, Begin, TakeToken, Acquire, CountUp, GaugeUp, Submit,
        AddCallback, TimeOut, Deliver, Cancel, Shutdown, CancelFuture, Start,
        Finish, ReleaseDecrement, ReleaseGauge, ReleaseSemaphore
  <1>3. ~ UNCHANGED vars
    BY DEF vars
  <1> QED  BY <1>1, <1>2, <1>3, SameBucket DEF Next, Limiter!Next

\* The policy implements the token bucket: what its calls do once they were
\* admitted, or refused, never touches the bucket again.
THEOREM RefinesTokenBucket == Safe => Bucket!Spec
  <1>1. Init => Bucket!Init
    BY DEF Init
  <1>2. Bucket!bucketVars = bucketVars /\ Limiter!bucketVars = bucketVars
    BY SameBucket DEF bucketVars, Bucket!bucketVars
  <1>3. Limiter!Next => Bucket!Next
    BY DEF Limiter!Next, Bucket!Next, Bucket!Tick, Limiter!Tick,
           Bucket!ReadClock, Limiter!ReadClock, Bucket!Admit, Limiter!Admit,
           Bucket!Reject, Limiter!Reject, Bucket!Refilled, Limiter!Refilled,
           Bucket!Capacity, Limiter!Capacity, Bucket!NoStamp, Limiter!NoStamp
  <1>4. [Next]_vars => [Bucket!Next]_(Bucket!bucketVars)
    BY <1>2, <1>3, BucketSteps DEF bucketVars, Bucket!bucketVars, Limiter!bucketVars
  <1> QED  BY <1>1, <1>4, PTL DEF Safe, Bucket!Spec

LEMMA PolicyIsLimiter == Safe => Limiter!Spec
  <1>1. Init => Limiter!Init
    BY SameBucket DEF Init
  <1> QED  BY <1>1, BucketSteps, PTL DEF Safe, Limiter!Spec

\* A run of calls let through by the rate limit is bounded by a bucket and its
\* refill, whatever became of the calls afterwards.
THEOREM PolicyRateBounded == Safe => []RateBounded
  <1>1. Limiter!WindowBounded => RateBounded
    BY DEF RateBounded, Limiter!WindowBounded, Bucket!WindowBounded,
       Limiter!Capacity, Bucket!Capacity
  <1>2. Limiter!Spec => []Limiter!WindowBounded
    BY Limiter!RateLimited, LimitsPositive
  <1> QED  BY <1>1, <1>2, PolicyIsLimiter, PTL

\* A caller that reads the clock now is never charged for a late one, though
\* callers leave the policy in between by every other path.
THEOREM PolicyFreshUnindebted == Safe => []FreshUnindebted
  <1>1. Limiter!NoDebt => FreshUnindebted
    BY DEF FreshUnindebted, Limiter!NoDebt, Bucket!NoDebt
  <1>2. Limiter!Spec => []Limiter!NoDebt
    BY Limiter!NeverInDebt, LimitsPositive
  <1> QED  BY <1>1, <1>2, PolicyIsLimiter, PTL

\* Of the calls that begin within any interval of time, no more than a full
\* bucket and the interval's refill come as far as the bulkhead, although they
\* take the lock in another order than they read the clock in.
CallsRateBounded ==
    \A s, e \in 0..clock :
        s <= e =>
            Unit * Cardinality({i \in 1..Len(grants) : grants[i] \in s..e})
                <= Bucket!Capacity + Refill * (e - s)

\* The bucket's bound in real time holds of the policy's calls, of which each is
\* one reading of the clock (_take_token).
THEOREM PolicyRateInRealTime == Safe => []CallsRateBounded
  <1>1. Limiter!RealTimeBounded => CallsRateBounded
    BY DEF CallsRateBounded, Limiter!RealTimeBounded, Limiter!Began,
       Limiter!Capacity, Bucket!Capacity, Limiter!Cardinality, Cardinality
  <1>2. Limiter!Spec => []Limiter!RealTimeBounded
    BY Limiter!RateInRealTime, LimitsPositive
  <1> QED  BY <1>1, <1>2, PolicyIsLimiter, PTL

-----------------------------------------------------------------------------
(* A rate below one call a second: the constructor takes any positive one. *)

Slow == Bucket!Capacity < Unit

\* Nothing but refusals: no call takes a slot, submits an operation or is told
\* anything else.
OnlyRefusals ==
    \A k \in Calls :
        /\ pc[k] \in {"idle", "rate"} /\ slot[k] = "free" /\ fut[k] = "none"
        /\ answer[k] \in {"none", "rate_limited"}

LEMMA RefusalsStay ==
    ASSUME IInv, OnlyRefusals, grants = << >>, grants' = << >>, [Next]_vars
    PROVE  OnlyRefusals'
  <1> USE DEF IInv, TypeOK
  <1>1. CASE Tick \/ UNCHANGED vars
    BY <1>1 DEF Tick, OnlyRefusals, vars, callVars
  <1>2. ASSUME NEW k \in Calls, Begin(k) PROVE OnlyRefusals'
    BY <1>2 DEF Begin, GoTo, OnlyRefusals
  <1>3. ASSUME NEW k \in Calls, TakeToken(k) PROVE OnlyRefusals'
    <2>1. ~ Bucket!Admit(k)
      BY DEF Bucket!Admit
    <2> QED  BY <1>3, <2>1 DEF TakeToken, GoTo, OnlyRefusals
  <1>4. ASSUME NEW k \in Calls, Caller(k) \/ Start(k) \/ Finish(k) \/ Release(k)
        PROVE  TakeToken(k)
    BY <1>4
    DEF OnlyRefusals, Caller, Release, GoTo, Acquire, CountUp, GaugeUp, Submit,
        AddCallback, TimeOut, Deliver, Cancel, Shutdown, CancelFuture, Start,
        Finish, ReleaseDecrement, ReleaseGauge, ReleaseSemaphore
  <1> QED  BY <1>1, <1>2, <1>3, <1>4 DEF Next

\* resilience.py:56 caps the bucket at rate_per_second tokens: with a rate below
\* one a second it never holds a whole one, and the policy refuses every call
\* for ever.
THEOREM SlowPolicyRefuses == Safe => [](Slow => OnlyRefusals)
  <1> DEFINE Barred == Slow => grants = << >>
  <1>1. Limiter!Spec => []Barred
    <2>1. (Limiter!Capacity < Unit => grants = << >>) => Barred
      BY DEF Slow, Limiter!Capacity, Bucket!Capacity
    <2>2. Limiter!Spec => [](Limiter!Capacity < Unit => grants = << >>)
      BY Limiter!SlowRateStarves, LimitsPositive
    <2> QED  BY <2>1, <2>2, PTL
  <1>2. Init => (Slow => OnlyRefusals)
    BY DEF Init, OnlyRefusals
  <1>3. IInv /\ Barred /\ Barred' /\ (Slow => OnlyRefusals) /\ [Next]_vars
            => (Slow => OnlyRefusals)'
    <2>1. Slow' <=> Slow
      BY DEF Slow, Bucket!Capacity
    <2> QED  BY <2>1, RefusalsStay
  <1> QED  BY <1>1, <1>2, <1>3, PolicyIsLimiter, Invariance, PTL DEF Safe

=============================================================================
