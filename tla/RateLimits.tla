----------------------------- MODULE RateLimits -----------------------------
(***************************************************************************)
(* The limits ResiliencePolicy is made with, in the units TokenBucket      *)
(* counts in.                                                              *)
(***************************************************************************)
EXTENDS Integers

CONSTANTS
    Refill,    \* units a tick adds to the bucket
    Ticks,     \* ticks in one second
    Unit,      \* units in one token
    MaxClock   \* bound on the clock

\* resilience.py:42 refuses limits that are not positive.
ASSUME LimitsPositive ==
    /\ Refill \in Nat \ {0}
    /\ Ticks \in Nat \ {0}
    /\ Unit \in Nat \ {0}
    /\ MaxClock \in Nat

=============================================================================
