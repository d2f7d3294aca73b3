---------------------------- MODULE TokenBucket ----------------------------
(***************************************************************************)
(* The rate limiter of contexts/ai/resilience.py: ResiliencePolicy         *)
(* ._take_token.  A caller reads the monotonic clock BEFORE it takes       *)
(* _rate_lock, so the reading it refills the bucket with may be older than *)
(* the one a caller that overtook it has left in _last_refill.             *)
(*                                                                         *)
(* The code keeps tokens and seconds as floats.  Here the clock counts     *)
(* ticks, Ticks of them to a second, and tokens are counted in units, Unit *)
(* of them to a token: Refill units arrive with each tick, so the rate is  *)
(* Refill * Ticks / Unit tokens a second, any positive rational.           *)
(***************************************************************************)
EXTENDS RateLimits, Sequences

CONSTANT Callers   \* the threads that call the policy

VARIABLES
    clock,    \* time.monotonic(), in ticks
    tokens,   \* _tokens, in units
    last,     \* _last_refill
    stamp,    \* each caller's local "now", or NoStamp when it holds none
    grants    \* history: the readings of the admitted callers, in lock order

bucketVars == <<clock, tokens, last, stamp, grants>>

NoStamp == -1

\* rate_per_second tokens: what the bucket starts with and can hold.
Capacity == Refill * Ticks

Init ==
    /\ clock = 0
    /\ tokens = Capacity
    /\ last = 0
    /\ stamp = [c \in Callers |-> NoStamp]
    /\ grants = << >>

\* Mistake: a reading older than the last refill counts as no time at all.
RefilledForwardOnly(now) ==
    LET elapsed == IF now > last THEN now - last ELSE 0
        grown == tokens + Refill * elapsed
    IN  IF grown < Capacity THEN grown ELSE Capacity

\* What the bucket holds once refilled up to the reading "now".  The elapsed
\* time is negative when a caller with a later reading came first.
Refilled(now) ==
    LET grown == tokens + Refill * (now - last)
    IN  IF grown < Capacity THEN grown ELSE Capacity

Tick ==
    /\ clock < MaxClock
    /\ clock' = clock + 1
    /\ UNCHANGED <<tokens, last, stamp, grants>>

ReadClock(c) ==
    /\ stamp[c] = NoStamp
    /\ stamp' = [stamp EXCEPT ![c] = clock]
    /\ UNCHANGED <<clock, tokens, last, grants>>

\* The part of _take_token under the lock, when a whole token is there ...
Admit(c) ==
    LET now == stamp[c] IN
    /\ now # NoStamp
    /\ Refilled(now) >= Unit
    /\ tokens' = Refilled(now) - Unit
    /\ last' = now
    /\ stamp' = [stamp EXCEPT ![c] = NoStamp]
    /\ grants' = Append(grants, now)
    /\ UNCHANGED clock

\* Mistake: a refused caller's older reading does not take _last_refill back.
RejectKeepingLast(c) ==
    LET now == stamp[c] IN
    /\ now # NoStamp
    /\ Refilled(now) < Unit
    /\ tokens' = Refilled(now)
    /\ last' = IF now > last THEN now ELSE last
    /\ stamp' = [stamp EXCEPT ![c] = NoStamp]
    /\ UNCHANGED <<clock, grants>>

\* ... and when it is not: the refill stays, RateLimitExceeded is raised.
Reject(c) ==
    LET now == stamp[c] IN
    /\ now # NoStamp
    /\ Refilled(now) < Unit
    /\ tokens' = Refilled(now)
    /\ last' = now
    /\ stamp' = [stamp EXCEPT ![c] = NoStamp]
    /\ UNCHANGED <<clock, grants>>

Next ==
    \/ Tick
    \/ \E c \in Callers : ReadClock(c) \/ Admit(c) \/ Reject(c)

Spec == Init /\ [][Next]_bucketVars

-----------------------------------------------------------------------------

\* Types: the bucket's level may be negative, but never above its capacity.
TypeOK ==
    /\ clock \in 0..MaxClock
    /\ tokens \in Int /\ tokens <= Capacity
    /\ last \in 0..clock
    /\ stamp \in [Callers -> {NoStamp} \cup (0..clock)]
    /\ grants \in Seq(0..clock)

\* The rate limit itself (_take_token): however the callers overtake each
\* other between reading the clock and taking the lock, no run of consecutive
\* admissions is larger than a full bucket plus what the time between the
\* first and the last reading brought in.
WindowBounded ==
    \A i, j \in 1..Len(grants) :
        i <= j => Unit * (j - i + 1) <= Capacity + Refill * (grants[j] - grants[i])

\* A caller with an old reading takes the bucket back in time, below empty if
\* need be, but _last_refill goes back with it: a caller that reads the clock
\* now never finds a debt, so late threads cannot starve the fresh ones.
NoDebt == tokens + Refill * (clock - last) >= 0

=============================================================================
