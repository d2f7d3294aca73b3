------------------------- MODULE TokenBucketProofs -------------------------
(***************************************************************************)
(* TokenBucket's invariants for every set of callers, every rate and every *)
(* bound on the clock.                                                     *)
(*                                                                         *)
(* WindowBounded speaks of pairs of past admissions and is not inductive:  *)
(* it says nothing of what the bucket still holds.  Potential does: since  *)
(* any admission i, what was admitted and what is left is bounded by a     *)
(* full bucket and the refill between i's reading and the last one used,   *)
(* whether the reading went forward or back.  That is what one more        *)
(* admission needs.                                                        *)
(***************************************************************************)
EXTENDS TokenBucket, FiniteSetTheorems, WellFoundedInduction, TLAPS

Potential ==
    \A i \in 1..Len(grants) :
        tokens + Unit * (Len(grants) - i + 1)
            <= Capacity + Refill * (last - grants[i])

IInv == TypeOK /\ Potential /\ WindowBounded /\ NoDebt

\* The capacity is a positive integer: products of positive naturals are.
LEMMA CapacityPositive == Capacity \in Nat /\ Capacity > 0
  <1>1. \A m, n \in Nat : m > 0 /\ n > 0 => m * n \in Nat /\ m * n > 0
    OBVIOUS
  <1> QED  BY <1>1, LimitsPositive DEF Capacity

\* Distribution, stated once: the provers do not expand such products by
\* themselves inside larger goals.
LEMMA Distribute ==
    ASSUME NEW k \in Int, NEW a \in Int, NEW b \in Int
    PROVE  /\ k * (a - b) = k * a - k * b
           /\ k * (a - b) \in Int
           /\ k * a \in Int
  OBVIOUS

\* The three differences the invariant relates, for readings x, y and z.
LEMMA Differences ==
    ASSUME NEW x \in Int, NEW y \in Int, NEW z \in Int
    PROVE  /\ Refill * (x - z) = Refill * x - Refill * z
           /\ Refill * (y - z) = Refill * y - Refill * z
           /\ Refill * (x - y) = Refill * x - Refill * y
           /\ Refill * x \in Int /\ Refill * y \in Int /\ Refill * z \in Int
  <1> Refill \in Int
    BY LimitsPositive
  <1> QED  BY Distribute

LEMMA InitInv == Init => IInv
  <1> SUFFICES ASSUME Init PROVE IInv
    OBVIOUS
  <1> USE LimitsPositive, CapacityPositive DEF Init
  <1>1. TypeOK
    BY DEF TypeOK, NoStamp
  <1>2. Potential /\ WindowBounded
    BY DEF Potential, WindowBounded
  <1>3. NoDebt
    BY DEF NoDebt
  <1> QED  BY <1>1, <1>2, <1>3 DEF IInv

\* What refilling can come to, for any reading of the clock.
LEMMA RefilledFacts ==
    ASSUME TypeOK, NEW now \in 0..clock
    PROVE  /\ Refilled(now) \in Int
           /\ Refilled(now) <= Capacity
           /\ Refilled(now) <= tokens + Refill * (now - last)
           /\ Refilled(now) = Capacity \/ Refilled(now) = tokens + Refill * (now - last)
  BY LimitsPositive, CapacityPositive DEF TypeOK, Refilled

\* After taking the lock with reading now, admitted or not, nobody is in debt.
LEMMA SettledNoDebt ==
    ASSUME TypeOK, NoDebt, NEW c \in Callers, stamp[c] # NoStamp,
           last' = stamp[c], clock' = clock,
           \/ tokens' = Refilled(stamp[c])
           \/ tokens' = Refilled(stamp[c]) - Unit /\ Refilled(stamp[c]) >= Unit
    PROVE  NoDebt'
  <1> DEFINE now == stamp[c]
  <1>1. now \in 0..clock
    BY DEF TypeOK
  <1>2. /\ Refill * (clock - last) = Refill * clock - Refill * last
        /\ Refill * (now - last) = Refill * now - Refill * last
        /\ Refill * (clock - now) = Refill * clock - Refill * now
        /\ Refill * clock \in Int /\ Refill * last \in Int /\ Refill * now \in Int
    <2>1. clock \in Int /\ last \in Int /\ now \in Int /\ Refill \in Int
      BY <1>1, LimitsPositive DEF TypeOK
    <2> HIDE DEF now
    <2> QED  BY <2>1, Distribute
  <1>3. Refill * (clock - now) >= 0
    <2>1. \A m, n \in Nat : m * n >= 0
      OBVIOUS
    <2> QED  BY <1>1, <2>1, LimitsPositive DEF TypeOK
  <1>4. /\ Refilled(now) \in Int
        /\ Refilled(now) = Capacity \/ Refilled(now) = tokens + Refill * (now - last)
    BY <1>1, RefilledFacts
  <1>5. Refilled(now) + Refill * (clock - now) >= 0
    <2>1. tokens \in Int /\ tokens + Refill * (clock - last) >= 0
      BY DEF TypeOK, NoDebt
    <2> DEFINE rc == Refill * clock
               rl == Refill * last
               rn == Refill * now
               full == Refilled(now)
               held == Refill * (now - last)
               gap == Refill * (clock - now)
               back == Refill * (clock - last)
    <2>2. /\ rc \in Int /\ rl \in Int /\ rn \in Int /\ full \in Int
          /\ back = rc - rl /\ held = rn - rl /\ gap = rc - rn /\ gap >= 0
          /\ full = Capacity \/ full = tokens + held
          /\ tokens + back >= 0
      BY <1>2, <1>3, <1>4, <2>1
    <2> HIDE DEF rc, rl, rn, full, held, gap, back
    <2>3. full + gap >= 0
      BY <2>1, <2>2, CapacityPositive
    <2> QED  BY <2>3 DEF full, gap
  <1>6. tokens' + Refill * (clock' - last') >= 0
    <2> DEFINE full == Refilled(now)
               gap == Refill * (clock - now)
    <2>1. /\ full \in Int /\ gap \in Int /\ gap >= 0 /\ full + gap >= 0 /\ Unit \in Nat
          /\ tokens' = full \/ (tokens' = full - Unit /\ full >= Unit)
      BY <1>2, <1>3, <1>4, <1>5, LimitsPositive
    <2> HIDE DEF full, gap
    <2>2. tokens' + gap >= 0
      BY <2>1
    <2> QED  BY <2>2 DEF gap
  <1> QED  BY <1>6 DEF NoDebt

LEMMA RejectInv == ASSUME IInv, NEW c \in Callers, Reject(c) PROVE IInv'
  <1> DEFINE now == stamp[c]
  <1>1. /\ TypeOK /\ Potential /\ WindowBounded /\ NoDebt
        /\ now # NoStamp /\ now \in 0..clock
        /\ tokens' = Refilled(now) /\ last' = now
        /\ clock' = clock /\ grants' = grants
        /\ stamp' = [stamp EXCEPT ![c] = NoStamp]
    BY DEF IInv, Reject, TypeOK
  <1>2. /\ Refilled(now) \in Int
        /\ Refilled(now) <= Capacity
        /\ Refilled(now) <= tokens + Refill * (now - last)
    BY <1>1, RefilledFacts
  <1>3. TypeOK'
    BY <1>1, <1>2 DEF TypeOK
  <1>4. Potential'
    <2> SUFFICES ASSUME NEW i \in 1..Len(grants)
                 PROVE  tokens' + Unit * (Len(grants) - i + 1)
                            <= Capacity + Refill * (now - grants[i])
      BY <1>1 DEF Potential
    <2>1. grants[i] \in Int /\ Len(grants) \in Nat
      BY <1>1 DEF TypeOK
    <2>2. /\ Refill * (now - grants[i]) = Refill * now - Refill * grants[i]
          /\ Refill * (last - grants[i]) = Refill * last - Refill * grants[i]
          /\ Refill * (now - last) = Refill * now - Refill * last
          /\ Refill * now \in Int /\ Refill * last \in Int /\ Refill * grants[i] \in Int
      <3>1. now \in Int /\ last \in Int
        BY <1>1 DEF TypeOK
      <3> QED  BY <2>1, <3>1, Differences
    <2>3. tokens + Unit * (Len(grants) - i + 1) <= Capacity + Refill * (last - grants[i])
      BY <1>1 DEF Potential
    <2>4. Unit * (Len(grants) - i + 1) \in Int
      BY <2>1, LimitsPositive
    <2> DEFINE rn == Refill * now
               rl == Refill * last
               rg == Refill * grants[i]
               full == Refilled(now)
               held == Refill * (now - last)
               ahead == Refill * (now - grants[i])
               before == Refill * (last - grants[i])
               run == Unit * (Len(grants) - i + 1)
    <2>5. /\ rn \in Int /\ rl \in Int /\ rg \in Int /\ full \in Int /\ run \in Int
          /\ ahead = rn - rg /\ before = rl - rg /\ held = rn - rl
          /\ full <= tokens + held
          /\ tokens + run <= Capacity + before
          /\ tokens' = full /\ tokens \in Int
      BY <1>1, <1>2, <2>2, <2>3, <2>4 DEF TypeOK
    <2> HIDE DEF rn, rl, rg, full, held, ahead, before, run
    <2>6. tokens' + run <= Capacity + ahead
      BY <2>5, CapacityPositive
    <2> QED  BY <2>6 DEF run, ahead
  <1>5. WindowBounded'
    BY <1>1 DEF WindowBounded
  <1>6. NoDebt'
    BY <1>1, SettledNoDebt
  <1> QED  BY <1>3, <1>4, <1>5, <1>6 DEF IInv

LEMMA AdmitInv == ASSUME IInv, NEW c \in Callers, Admit(c) PROVE IInv'
  <1> DEFINE now == stamp[c]
             n == Len(grants)
  <1>1. /\ TypeOK /\ Potential /\ WindowBounded /\ NoDebt
        /\ now # NoStamp /\ now \in 0..clock
        /\ Refilled(now) >= Unit
        /\ tokens' = Refilled(now) - Unit /\ last' = now
        /\ clock' = clock /\ grants' = Append(grants, now)
        /\ stamp' = [stamp EXCEPT ![c] = NoStamp]
    BY DEF IInv, Admit, TypeOK
  <1>2. /\ Refilled(now) \in Int
        /\ Refilled(now) <= Capacity
        /\ Refilled(now) <= tokens + Refill * (now - last)
    BY <1>1, RefilledFacts
  <1>3. /\ n \in Nat /\ Len(grants') = n + 1
        /\ grants'[n + 1] = now
        /\ \A i \in 1..n : grants'[i] = grants[i] /\ grants[i] \in Int
        /\ grants' \in Seq(0..clock)
    BY <1>1 DEF TypeOK
  <1>4. TypeOK'
    <2>1. tokens' \in Int /\ tokens' <= Capacity
      <3> HIDE DEF now
      <3> QED  BY <1>1, <1>2, LimitsPositive, CapacityPositive
    <2>2. stamp' \in [Callers -> {NoStamp} \cup (0..clock)]
      BY <1>1 DEF TypeOK
    <2>3. clock' \in 0..MaxClock /\ last' \in 0..clock'
      BY <1>1 DEF TypeOK
    <2> QED  BY <1>1, <1>3, <2>1, <2>2, <2>3 DEF TypeOK
  \* The window from an earlier admission i to this one, and what is left.
  <1>5. ASSUME NEW i \in 1..n
        PROVE  /\ tokens' + Unit * (n + 1 - i + 1) <= Capacity + Refill * (now - grants[i])
               /\ Unit * (n + 1 - i + 1) <= Capacity + Refill * (now - grants[i])
    <2>1. /\ Refill * (now - grants[i]) = Refill * now - Refill * grants[i]
          /\ Refill * (last - grants[i]) = Refill * last - Refill * grants[i]
          /\ Refill * (now - last) = Refill * now - Refill * last
          /\ Refill * now \in Int /\ Refill * last \in Int /\ Refill * grants[i] \in Int
      <3>1. now \in Int /\ last \in Int /\ grants[i] \in Int
        BY <1>1, <1>3 DEF TypeOK
      <3> QED  BY <3>1, Differences
    <2>2. tokens + Unit * (n - i + 1) <= Capacity + Refill * (last - grants[i])
      BY <1>1 DEF Potential
    <2>3. Unit * (n + 1 - i + 1) = Unit * (n - i + 1) + Unit /\ Unit * (n - i + 1) \in Int
      BY <1>3, LimitsPositive
    <2> DEFINE rn == Refill * now
               rl == Refill * last
               rg == Refill * grants[i]
               full == Refilled(now)
               held == Refill * (now - last)
               ahead == Refill * (now - grants[i])
               before == Refill * (last - grants[i])
               run == Unit * (n - i + 1)
               longer == Unit * (n + 1 - i + 1)
    <2>4. /\ rn \in Int /\ rl \in Int /\ rg \in Int /\ full \in Int /\ run \in Int
          /\ ahead = rn - rg /\ before = rl - rg /\ held = rn - rl
          /\ full <= tokens + held /\ full >= Unit /\ Unit \in Int
          /\ tokens + run <= Capacity + before
          /\ tokens' = full - Unit /\ tokens \in Int
          /\ longer = run + Unit
      BY <1>1, <1>2, <2>1, <2>2, <2>3, LimitsPositive DEF TypeOK
    <2> HIDE DEF rn, rl, rg, full, held, ahead, before, run, longer
    <2>5. tokens' + longer <= Capacity + ahead /\ longer <= Capacity + ahead
      BY <2>4, CapacityPositive
    <2> QED  BY <2>5 DEF longer, ahead
  <1>6. /\ tokens' + Unit * (n + 1 - (n + 1) + 1) <= Capacity + Refill * (now - now)
        /\ Unit * (n + 1 - (n + 1) + 1) <= Capacity + Refill * (now - now)
    <2>1. Unit * (n + 1 - (n + 1) + 1) = Unit
      BY <1>3, LimitsPositive
    <2>2. Refill * (now - now) = 0
      BY <1>1, LimitsPositive DEF TypeOK
    <2> QED  BY <1>1, <1>2, <2>1, <2>2, CapacityPositive, LimitsPositive
  <1>7. Potential'
    BY <1>1, <1>3, <1>5, <1>6 DEF Potential
  <1>8. WindowBounded'
    <2> SUFFICES ASSUME NEW i \in 1..(n + 1), NEW j \in 1..(n + 1), i <= j
                 PROVE  Unit * (j - i + 1)
                            <= Capacity + Refill * (grants'[j] - grants'[i])
      BY <1>3 DEF WindowBounded
    <2>1. CASE j \in 1..n
      BY <1>1, <1>3, <2>1 DEF WindowBounded
    <2>2. CASE j = n + 1 /\ i \in 1..n
      BY <1>3, <1>5, <2>2
    <2>3. CASE j = n + 1 /\ i = n + 1
      BY <1>3, <1>6, <2>3
    <2> QED  BY <1>3, <2>1, <2>2, <2>3
  <1>9. NoDebt'
    BY <1>1, SettledNoDebt
  <1> QED  BY <1>4, <1>7, <1>8, <1>9 DEF IInv

LEMMA TickInv == ASSUME IInv, Tick PROVE IInv'
  <1>1. /\ TypeOK /\ Potential /\ WindowBounded /\ NoDebt
        /\ clock' = clock + 1 /\ clock < MaxClock
        /\ UNCHANGED <<tokens, last, stamp, grants>>
    BY DEF IInv, Tick
  <1>2. TypeOK'
    <2>1. grants \in Seq(0..clock + 1)
      BY <1>1 DEF TypeOK
    <2> QED  BY <1>1, <2>1, LimitsPositive DEF TypeOK
  <1>3. Potential' /\ WindowBounded'
    BY <1>1 DEF Potential, WindowBounded
  <1>4. NoDebt'
    <2>1. /\ Refill * (clock' - last) = Refill * clock' - Refill * last
          /\ Refill * (clock - last) = Refill * clock - Refill * last
          /\ Refill * clock' = Refill * clock + Refill
          /\ Refill * clock \in Int /\ Refill * last \in Int
      BY <1>1, Distribute, LimitsPositive DEF TypeOK
    <2> QED  BY <1>1, <2>1, LimitsPositive DEF NoDebt, TypeOK
  <1> QED  BY <1>2, <1>3, <1>4 DEF IInv

LEMMA ReadClockInv == ASSUME IInv, NEW c \in Callers, ReadClock(c) PROVE IInv'
  <1>1. TypeOK'
    BY DEF IInv, ReadClock, TypeOK
  <1>2. Potential' /\ WindowBounded' /\ NoDebt'
    BY DEF IInv, ReadClock, Potential, WindowBounded, NoDebt
  <1> QED  BY <1>1, <1>2 DEF IInv

LEMMA NextInv == IInv /\ [Next]_bucketVars => IInv'
  <1> SUFFICES ASSUME IInv, [Next]_bucketVars PROVE IInv'
    OBVIOUS
  <1>1. CASE Tick
    BY <1>1, TickInv
  <1>2. ASSUME NEW c \in Callers, ReadClock(c) PROVE IInv'
    BY <1>2, ReadClockInv
  <1>3. ASSUME NEW c \in Callers, Admit(c) PROVE IInv'
    BY <1>3, AdmitInv
  <1>4. ASSUME NEW c \in Callers, Reject(c) PROVE IInv'
    BY <1>4, RejectInv
  <1>5. CASE UNCHANGED bucketVars
    BY <1>5 DEF bucketVars, IInv, TypeOK, Potential, WindowBounded, NoDebt
  <1> QED  BY <1>1, <1>2, <1>3, <1>4, <1>5 DEF Next

LEMMA Invariant == Spec => []IInv
  <1> QED  BY InitInv, NextInv, PTL DEF Spec

\* The bucket's types: its level is an integer no larger than its capacity,
\* and no reading is ahead of the clock.
THEOREM TypeCorrect == Spec => []TypeOK
  <1>1. IInv => TypeOK
    BY DEF IInv
  <1> QED  BY Invariant, <1>1, PTL

\* The rate limit: whatever the callers, their order and the age of their
\* readings, a run of admissions is bounded by a bucket and its refill.
THEOREM RateLimited == Spec => []WindowBounded
  <1>1. IInv => WindowBounded
    BY DEF IInv
  <1> QED  BY Invariant, <1>1, PTL

\* A caller that reads the clock now is never charged for a late one.
THEOREM NeverInDebt == Spec => []NoDebt
  <1>1. IInv => NoDebt
    BY DEF IInv
  <1> QED  BY Invariant, <1>1, PTL

\* The smallest useful rate: with less than one token a second the bucket never
\* holds a whole one, and no call is ever admitted.
THEOREM SlowRateStarves == Spec => [](Capacity < Unit => grants = << >>)
  <1> DEFINE Starved == Capacity < Unit => grants = << >>
  <1>1. Init => Starved
    BY DEF Init
  <1>2. ASSUME IInv, Starved, [Next]_bucketVars PROVE Starved'
    <2>1. CASE Tick
      BY <1>2, <2>1 DEF Tick, Capacity
    <2>2. CASE \E c \in Callers : ReadClock(c)
      BY <1>2, <2>2 DEF ReadClock, Capacity
    <2>3. CASE \E c \in Callers : Reject(c)
      BY <1>2, <2>3 DEF Reject, Capacity
    <2>4. ASSUME NEW c \in Callers, Admit(c) PROVE Starved'
      <3>1. Refilled(stamp[c]) <= Capacity /\ Refilled(stamp[c]) \in Int
        BY <1>2, <2>4, RefilledFacts DEF IInv, TypeOK, Admit
      <3>2. Capacity \in Int /\ Unit \in Int /\ ~ (Capacity < Unit)
        BY <2>4, <3>1, CapacityPositive, LimitsPositive DEF Admit
      <3> QED  BY <3>2 DEF Capacity
    <2>5. CASE UNCHANGED bucketVars
      BY <1>2, <2>5 DEF bucketVars, Capacity
    <2> QED  BY <1>2, <2>1, <2>2, <2>3, <2>4, <2>5 DEF Next
  <1> QED  BY Invariant, <1>1, <1>2, PTL DEF Spec

-----------------------------------------------------------------------------
(* The same in real time.  The readings are not in the order of the lock,   *)
(* so the calls of an interval of time are no run of admissions; but the    *)
(* first and the last of them, in the order of the lock, span one.          *)

Less == {p \in Nat \X Nat : p[1] < p[2]}

LEMMA LeastOf ==
    ASSUME NEW T, T \subseteq Nat, T # {}
    PROVE  \E m \in T : \A k \in T : m <= k
  <1>1. IsWellFoundedOn(Less, Nat)
    BY NatLessThanWellFounded, Zenon DEF OpToRel, Less
  <1>2. ASSUME NEW x \in Nat, NEW y \in Nat, x < y PROVE <<x, y>> \in Less
    BY <1>2 DEF Less
  <1>3. PICK x \in T : \A y \in T : <<y, x>> \notin Less
    BY <1>1, WFMin
  <1>4. \A k \in T : x \in Nat /\ k \in Nat /\ ~ (k < x)
    BY <1>2, <1>3
  <1> QED  BY <1>4

LEMMA GreatestOf ==
    ASSUME NEW n \in Nat, NEW T, T \subseteq 0..n, T # {}
    PROVE  \E m \in T : \A k \in T : k <= m
  <1> DEFINE U == {n - i : i \in T}
  <1>1. PICK u \in U : \A k \in U : u <= k
    <2>1. \A i \in T : n - i \in Nat
      OBVIOUS
    <2>2. U \subseteq Nat /\ U # {}
      BY <2>1, Zenon
    <2> QED  BY <2>2, LeastOf
  <1>2. PICK m \in T : u = n - m
    BY <1>1
  <1>3. ASSUME NEW k \in T PROVE k <= m
    <2>1. n - k \in U /\ n - m <= n - k
      BY <1>1, <1>2
    <2> QED  BY <2>1
  <1> QED  BY <1>3

LEMMA Scales ==
    ASSUME NEW k \in Nat, NEW a \in Int, NEW b \in Int, a <= b
    PROVE  k * a \in Int /\ k * b \in Int /\ k * a <= k * b
  <1>1. \A m, n \in Nat : m * n \in Nat
    OBVIOUS
  <1>2. k * (b - a) \in Nat
    BY <1>1
  <1> QED  BY <1>2, Distribute

\* The admissions whose caller read the clock within an interval of time.
Began(s, e) == {i \in 1..Len(grants) : grants[i] \in s..e}

\* Of the callers that read the clock in an interval of time, those admitted are
\* no more than a full bucket and what the interval brought in.
RealTimeBounded ==
    \A s, e \in 0..clock :
        s <= e => Unit * Cardinality(Began(s, e)) <= Capacity + Refill * (e - s)

LEMMA RunsBoundIntervals == TypeOK /\ WindowBounded => RealTimeBounded
  <1> SUFFICES ASSUME TypeOK, WindowBounded,
                      NEW s \in 0..clock, NEW e \in 0..clock, s <= e
               PROVE  Unit * Cardinality(Began(s, e)) <= Capacity + Refill * (e - s)
    BY DEF RealTimeBounded
  <1>1. /\ clock \in Nat /\ s \in Int /\ e \in Int /\ Refill \in Nat /\ Unit \in Nat
        /\ Capacity \in Nat /\ Len(grants) \in Nat
        /\ \A i \in 1..Len(grants) : grants[i] \in 0..clock
    BY LimitsPositive, CapacityPositive DEF TypeOK
  <1>2. Refill * (e - s) \in Nat
    <2>1. \A m, n \in Nat : m * n \in Nat
      OBVIOUS
    <2>2. e - s \in Nat
      BY <1>1
    <2> QED  BY <1>1, <2>1, <2>2
  <1>3. CASE Began(s, e) = {}
    <2>1. Cardinality(Began(s, e)) = 0
      BY <1>3, FS_EmptySet
    <2>2. Unit * 0 = 0
      BY <1>1
    <2> QED  BY <1>1, <1>2, <2>1, <2>2
  <1>4. CASE Began(s, e) # {}
    <2>1. Began(s, e) \subseteq 0..Len(grants) /\ Began(s, e) \subseteq Nat
      BY <1>1 DEF Began
    <2>2. PICK i \in Began(s, e) : \A k \in Began(s, e) : i <= k
      BY <1>4, <2>1, LeastOf
    <2>3. PICK j \in Began(s, e) : \A k \in Began(s, e) : k <= j
      BY <1>1, <1>4, <2>1, GreatestOf
    <2>4. /\ i \in 1..Len(grants) /\ j \in 1..Len(grants) /\ i <= j
          /\ grants[i] \in s..e /\ grants[j] \in s..e
          /\ Began(s, e) \subseteq i..j
      BY <2>1, <2>2, <2>3 DEF Began
    <2>5. Cardinality(Began(s, e)) \in Int /\ Cardinality(Began(s, e)) <= j - i + 1
      <3>1. IsFiniteSet(i..j) /\ Cardinality(i..j) = j - i + 1
        BY <2>4, FS_Interval
      <3> QED  BY <2>4, <3>1, FS_Subset, FS_CardinalityType
    <2>6. /\ Unit * Cardinality(Began(s, e)) \in Int
          /\ Unit * (j - i + 1) \in Int
          /\ Unit * Cardinality(Began(s, e)) <= Unit * (j - i + 1)
      BY <1>1, <2>4, <2>5, Scales
    <2>7. /\ Refill * (grants[j] - grants[i]) \in Int
          /\ Refill * (grants[j] - grants[i]) <= Refill * (e - s)
      <3>1. grants[j] - grants[i] \in Int /\ e - s \in Int /\ grants[j] - grants[i] <= e - s
        BY <1>1, <2>4
      <3> QED  BY <1>1, <3>1, Scales
    <2>8. Unit * (j - i + 1) <= Capacity + Refill * (grants[j] - grants[i])
      BY <2>4 DEF WindowBounded
    <2> HIDE DEF Began, Capacity
    <2> QED  BY <1>1, <1>2, <2>6, <2>7, <2>8
  <1> QED  BY <1>3, <1>4

\* The rate limit as an operator means it: of the calls that begin within any
\* interval of time, at most a full bucket and the interval's refill are let
\* through, in whatever order and however late they get hold of the lock.
THEOREM RateInRealTime == Spec => []RealTimeBounded
  <1>1. IInv => RealTimeBounded
    BY RunsBoundIntervals DEF IInv
  <1> QED  BY Invariant, <1>1, PTL

=============================================================================
