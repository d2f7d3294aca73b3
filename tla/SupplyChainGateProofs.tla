----------------------- MODULE SupplyChainGateProofs -----------------------
(***************************************************************************)
(* The gate's properties for any advisories and versions, any grace and any *)
(* terms of exceptions.  All rest on one fact about the cached histories:  *)
(* on main, where nothing is ever introduced, every finding dates from     *)
(* INITIAL_DATE, whatever was lost from the cache or renamed since.        *)
(***************************************************************************)
EXTENDS SupplyChainGate, FiniteSetTheorems, TLAPS

Keys == Advisories \X BOOLEAN
Dated(h) == DOMAIN h \subseteq Keys /\ \A k \in DOMAIN h : h[k] \in Nat

\* What the proofs need of the types.
Typed ==
    /\ day \in Nat
    /\ carried \in [Branches -> Packages]
    /\ advisory \in [Advisories -> Known \cup {Undisclosed}]
    /\ DOMAIN exception = Advisories
    /\ \A a \in Advisories : exception[a] # NoException =>
          exception[a] \in [created : Nat, expires : Nat, severity : Severities,
                            cve : BOOLEAN, versions : SUBSET Versions, workOrder : BOOLEAN]
    /\ DOMAIN cache = Branches
    /\ firstSeen \in [Advisories -> Nat]

OneHistory == \A b \in Branches : \A g, h \in cache[b] : g = h
AllDated == \A b \in Branches : \A h \in cache[b] : Dated(h)
MainFromStart == \A h \in cache["main"] : \A k \in DOMAIN h : h[k] = 0

IInv == Typed /\ OneHistory /\ AllDated /\ MainFromStart

-----------------------------------------------------------------------------
(* What First returns. *)

\* A date is a day, since every date in the cache is one.
LEMMA FirstIsDay ==
    ASSUME IInv, NEW b \in Branches, NEW a \in Advisories
    PROVE  First(b, a) \in Nat
<1> DEFINE known == {h[Key(a)] : h \in {g \in Restored(b) : Key(a) \in DOMAIN g}}
<1>1. \A h \in Restored(b) : Dated(h)
  BY DEF IInv, AllDated, Restored, Branches
<1>2. known \subseteq Nat
  BY <1>1 DEF Dated
<1>3. CASE known # {}
  <2>1. (CHOOSE first \in known : TRUE) \in known
    BY <1>3
  <2> QED BY <1>2, <1>3, <2>1 DEF First
<1>4. CASE known = {}
  BY <1>4 DEF First, IInv, Typed
<1> QED BY <1>3, <1>4

\* On main nothing is introduced, so every finding is as old as the gate.
LEMMA FirstOnMain ==
    ASSUME IInv, NEW a \in Advisories, carried["main"][a] # {}
    PROVE  First("main", a) = 0
<1> DEFINE known == {h[Key(a)] : h \in {g \in Restored("main") : Key(a) \in DOMAIN g}}
<1>1. known \subseteq {0}
  BY DEF IInv, MainFromStart, Restored
<1>2. ~ Introduced("main", a)
  BY DEF Introduced
<1>3. CASE known # {}
  <2>1. (CHOOSE first \in known : TRUE) \in known
    BY <1>3
  <2> QED BY <1>1, <1>3, <2>1 DEF First
<1>4. CASE known = {}
  BY <1>2, <1>4 DEF First
<1> QED BY <1>3, <1>4

-----------------------------------------------------------------------------
(* What follows for one run, or two, on one day. *)

\* On main a finding blocks for its age once the gate is Grace days old.
MainReasons ==
    \A a \in Advisories :
        carried["main"][a] # {} =>
        (Reason("main", a) <=>
            \/ advisory[a].kev
            \/ advisory[a].fix /\ advisory[a].severity = "Critical"
            \/ advisory[a].fix /\ advisory[a].severity = "High" /\ day >= Grace)

LEMMA ReasonOnMain == IInv => MainReasons
<1> SUFFICES ASSUME IInv, NEW a \in Advisories, carried["main"][a] # {}
             PROVE  Reason("main", a) <=>
                      \/ advisory[a].kev
                      \/ advisory[a].fix /\ advisory[a].severity = "Critical"
                      \/ advisory[a].fix /\ advisory[a].severity = "High" /\ day >= Grace
  BY DEF MainReasons
<1>1. First("main", a) = 0
  BY FirstOnMain
<1>2. ~ Introduced("main", a)
  BY DEF Introduced
<1>3. day - First("main", a) >= Grace <=> day >= Grace
  BY <1>1, DaysAssumption DEF IInv, Typed
<1> QED BY <1>2, <1>3 DEF Reason

LEMMA AgedLemma == IInv => AgedHighBlocks
<1> SUFFICES ASSUME IInv, Passes("main"), NEW a \in Findings("main"),
                    advisory[a].severity = "High", advisory[a].fix,
                    day - firstSeen[a] >= Grace
             PROVE  /\ exception[a] # NoException
                    /\ carried["main"][a] \subseteq exception[a].versions
                    /\ day - exception[a].created <= Term["High"]
  BY DEF AgedHighBlocks
<1>1. a \in Advisories /\ carried["main"][a] # {}
  BY DEF Findings
<1>2. day >= Grace
  BY <1>1, DaysAssumption DEF IInv, Typed
<1>3. Reason("main", a)
  BY <1>1, <1>2, ReasonOnMain DEF MainReasons
<1>4. \A v \in carried["main"][a] : Excepted(a, v)
  BY <1>3 DEF Passes, Blocked
<1>5. exception[a] # NoException /\ carried["main"][a] \subseteq exception[a].versions
  BY <1>1, <1>4 DEF Excepted
<1>6. exception[a].severity = "High"
  BY <1>1, <1>4 DEF Passes, Raises, Mismatched
<1>7. ~ (day > exception[a].expires
            \/ exception[a].expires - exception[a].created > Term[exception[a].severity])
  BY <1>1, <1>5 DEF Passes, Raises, Invalid
<1>8. exception[a].created \in Nat /\ exception[a].expires \in Nat
  BY <1>1, <1>5 DEF IInv, Typed
<1>9. Term["High"] \in Nat /\ day \in Nat
  BY DaysAssumption DEF Severities, IInv, Typed
<1>10. day - exception[a].created <= Term["High"]
  BY <1>6, <1>7, <1>8, <1>9
<1> QED BY <1>5, <1>10

LEMMA UntouchedLemma == IInv => UntouchedPasses
<1> SUFFICES ASSUME IInv, Untouched, Passes("main")
             PROVE  Passes("pr")
  BY DEF UntouchedPasses
<1>1. Findings("pr") \subseteq Findings("main")
  BY DEF Findings, Untouched
<1>2. ~ Raises("pr")
  <2>1. ASSUME NEW a \in Findings("pr"), Mismatched("pr", a) PROVE Mismatched("main", a)
    <3>1. PICK v \in carried["pr"][a] : Excepted(a, v)
      BY <2>1 DEF Mismatched
    <3>2. \E w \in carried["main"][a] : Excepted(a, w)
      BY <3>1 DEF Untouched, Findings
    <3> QED BY <2>1, <3>2 DEF Mismatched
  <2> QED BY <1>1, <2>1 DEF Passes, Raises
<1>3. ASSUME NEW a \in Findings("pr"), Blocked("pr", a)
      PROVE  FALSE
  <2>1. a \in Advisories /\ carried["main"][a] # {}
    BY <1>1 DEF Findings
  <2>2. ~ Introduced("pr", a)
    BY <2>1 DEF Introduced
  <2>3. First("pr", a) \in Nat
    BY <2>1, FirstIsDay DEF Branches
  <2>4. day - First("pr", a) >= Grace => day >= Grace
    BY <2>3, DaysAssumption DEF IInv, Typed
  <2>5. Reason("main", a)
    BY <1>3, <2>1, <2>2, <2>4, ReasonOnMain DEF MainReasons, Blocked, Reason
  <2>6. ~ Blocked("main", a)
    BY <1>1 DEF Passes
  <2>7. \E w \in carried["main"][a] : ~ Excepted(a, w)
    BY <1>3, <2>1 DEF Blocked, Untouched
  <2> QED BY <2>5, <2>6, <2>7 DEF Blocked
<1> QED BY <1>2, <1>3 DEF Passes

\* The step of a merge, which leaves main with what the pull request had.
LEMMA MergeLemma ==
    ASSUME IInv, IInv', Merge, Passes("main"), Passes("pr"), ~ Uncovers
    PROVE  Passes("main")'
<1>1. carried'["main"] = carried["pr"]
  BY DEF Merge, Branches
<1>2. UNCHANGED <<day, advisory, exception>>
  BY DEF Merge
<1>3. Findings("main")' = Findings("pr")
  BY <1>1, <1>2 DEF Findings
<1>4. ~ Raises("main")'
  <2>1. \A a \in Advisories : ~ Invalid(exception[a])'
    BY <1>2 DEF Passes, Raises, Invalid
  <2>2. \A a \in Findings("main")' : ~ Mismatched("main", a)'
    BY <1>1, <1>2, <1>3 DEF Passes, Raises, Mismatched, Excepted
  <2> QED BY <2>1, <2>2 DEF Raises
<1>5. ASSUME NEW a \in Findings("pr"), Blocked("main", a)'
      PROVE  FALSE
  <2>1. a \in Advisories /\ carried'["main"][a] # {}
    BY <1>1 DEF Findings
  <2>2. \/ advisory[a].kev
        \/ advisory[a].fix /\ advisory[a].severity = "Critical"
        \/ advisory[a].fix /\ advisory[a].severity = "High" /\ day >= Grace
    <3>1. MainReasons'
      BY ReasonOnMain, PTL
    <3>2. Reason("main", a)'
      BY <1>5 DEF Blocked
    <3> QED BY <1>2, <2>1, <3>1, <3>2 DEF MainReasons
  <2>3. PICK v \in carried["pr"][a] : ~ Excepted(a, v)
    BY <1>1, <1>2, <1>5 DEF Blocked, Excepted
  <2>4. CASE carried["main"][a] # {}
    <3>1. Reason("main", a)
      BY <2>1, <2>2, <2>4, ReasonOnMain DEF MainReasons
    <3>2. a \in Findings("main")
      BY <2>4 DEF Findings
    <3>3. \E w \in carried["main"][a] : ~ Excepted(a, w)
      BY <2>1, <2>3, <2>4 DEF Uncovers
    <3> QED BY <3>1, <3>2, <3>3 DEF Passes, Blocked
  <2>5. CASE carried["main"][a] = {}
    <3>1. Reason("pr", a)
      BY <2>2, <2>5 DEF Reason, Introduced
    <3> QED BY <2>3, <3>1 DEF Passes, Blocked
  <2> QED BY <2>4, <2>5
<1> QED BY <1>3, <1>4, <1>5 DEF Passes

-----------------------------------------------------------------------------
(* The invariant. *)

\* A run on main keeps INITIAL_DATE for what it knew, and gives it to the rest.
LEMMA HistoryDated ==
    ASSUME IInv, NEW b \in Branches
    PROVE  /\ Dated(History(b))
           /\ b = "main" => \A k \in DOMAIN History(b) : History(b)[k] = 0
<1> DEFINE old == UNION {DOMAIN h : h \in Restored(b)}
           new == {Key(a) : a \in Findings(b)}
           last == CHOOSE h \in Restored(b) : TRUE
<1>1. Restored(b) \in {cache["main"], cache[b]}
  BY DEF Restored
<1>2. \A h \in Restored(b) : Dated(h) /\ h = last
  <2>1. \A g, h \in Restored(b) : Dated(h) /\ g = h
    BY <1>1 DEF IInv, AllDated, OneHistory, Branches
  <2>2. Restored(b) # {} => last \in Restored(b)
    OBVIOUS
  <2> QED BY <2>1, <2>2
<1>3. Findings(b) \subseteq Advisories
  BY DEF Findings
<1>4. \A a \in Findings(b) : Key(a) \in Keys /\ Key(a)[1] = a
  BY <1>3 DEF Findings, Key, Keys, IInv, Typed, Known
<1>5. old \subseteq Keys /\ new \subseteq Keys
  BY <1>2, <1>4 DEF Dated
<1>6. \A k \in new : First(b, k[1]) \in Nat
  BY <1>3, <1>4, FirstIsDay
<1>7. \A k \in old : k \in DOMAIN last /\ last[k] \in Nat
  BY <1>2 DEF Dated
<1>8. History(b) = [k \in old \cup new |-> IF k \in new THEN First(b, k[1]) ELSE last[k]]
  BY DEF History
<1>9. Dated(History(b))
  <2>1. DOMAIN History(b) = old \cup new
    BY <1>8
  <2>2. \A k \in old \cup new : History(b)[k] \in Nat
    BY <1>6, <1>7, <1>8
  <2> QED BY <1>5, <2>1, <2>2 DEF Dated
<1>10. ASSUME b = "main" PROVE \A k \in DOMAIN History(b) : History(b)[k] = 0
  <2>1. \A k \in new : First(b, k[1]) = 0
    BY <1>4, <1>10, FirstOnMain DEF Findings
  <2>2. \A k \in old : last[k] = 0
    BY <1>2, <1>10 DEF IInv, MainFromStart, Restored
  <2>3. \A k \in old \cup new : History(b)[k] = 0
    BY <1>8, <2>1, <2>2
  <2> QED BY <1>8, <2>3
<1> QED BY <1>9, <1>10

LEMMA InitInv == Init => IInv
<1> SUFFICES ASSUME Init PROVE IInv
  OBVIOUS
<1>1. Typed
  BY DaysAssumption DEF Init, Typed, Never, Branches
<1>2. \A b \in Branches : cache[b] = {}
  BY DEF Init
<1> QED BY <1>1, <1>2 DEF IInv, OneHistory, AllDated, MainFromStart, Branches

LEMMA RunInv ==
    ASSUME IInv, NEW b \in Branches, Run(b)
    PROVE  IInv'
<1>1. firstSeen' \in [Advisories -> Nat]
  BY DaysAssumption DEF Run, IInv, Typed
<1>2. DOMAIN cache' = Branches
  BY DEF Run, IInv, Typed
<1>3. Typed'
  <2>1. UNCHANGED <<day, advisory, carried, exception>>
    BY DEF Run
  <2> QED BY <1>1, <1>2, <2>1 DEF IInv, Typed
<1>4. \A c \in Branches : cache'[c] = cache[c] \/ (c = b /\ cache'[c] = {History(b)})
  BY DEF Run, IInv, Typed
<1>5. OneHistory'
  BY <1>4 DEF IInv, OneHistory
<1>6. AllDated'
  <2> SUFFICES ASSUME NEW c \in Branches, NEW h \in cache'[c] PROVE Dated(h)
    BY DEF AllDated, Dated
  <2>1. CASE cache'[c] = cache[c]
    BY <2>1 DEF IInv, AllDated
  <2>2. CASE c = b /\ cache'[c] = {History(b)}
    BY <2>2, HistoryDated
  <2> QED BY <1>4, <2>1, <2>2
<1>7. MainFromStart'
  <2> SUFFICES ASSUME NEW h \in cache'["main"], NEW k \in DOMAIN h PROVE h[k] = 0
    BY DEF MainFromStart
  <2>1. CASE cache'["main"] = cache["main"]
    BY <2>1 DEF IInv, MainFromStart
  <2>2. CASE "main" = b /\ cache'["main"] = {History(b)}
    BY <2>2, HistoryDated
  <2> QED BY <1>4, <2>1, <2>2 DEF Branches
<1> QED BY <1>3, <1>5, <1>6, <1>7 DEF IInv

\* Every other step leaves each branch the history it had, or none.
LEMMA CacheShrinks ==
    ASSUME IInv, Typed', \A b \in Branches : cache'[b] \subseteq cache[b]
    PROVE  IInv'
<1>1. OneHistory'
  BY DEF IInv, OneHistory
<1>2. AllDated'
  BY DEF IInv, AllDated, Dated
<1>3. MainFromStart'
  BY DEF IInv, MainFromStart, Branches
<1> QED BY <1>1, <1>2, <1>3 DEF IInv

LEMMA StepInv == IInv /\ [Next]_vars => IInv'
<1> SUFFICES ASSUME IInv, [Next]_vars PROVE IInv'
  OBVIOUS
<1>1. CASE \E b \in Branches : Run(b)
  BY <1>1, RunInv
<1>2. ASSUME NEW b \in Branches, Evict(b) PROVE IInv'
  <2>1. Typed'
    BY <1>2 DEF Evict, IInv, Typed
  <2>2. \A c \in Branches : cache'[c] \subseteq cache[c]
    BY <1>2 DEF Evict, IInv, Typed
  <2> QED BY <2>1, <2>2, CacheShrinks
<1>3. ASSUME NEW a \in Advisories, Disclose(a) PROVE IInv'
  <2>1. Typed'
    BY <1>3 DEF Disclose, IInv, Typed
  <2> QED BY <1>3, <2>1, CacheShrinks DEF Disclose
<1>4. ASSUME NEW a \in Advisories, Except(a) PROVE IInv'
  <2>1. Typed'
    <3>1. DOMAIN exception' = Advisories
      BY <1>4 DEF Except, IInv, Typed
    <3>2. \A x \in Advisories : x # a => exception'[x] = exception[x]
      BY <1>4 DEF Except, IInv, Typed
    <3>3. advisory[a] \in Known
      BY <1>4 DEF Except, IInv, Typed
    <3>4. Term[advisory[a].severity] \in Nat
      BY <3>3, DaysAssumption DEF Known
    <3>5. exception'[a] # NoException =>
             exception'[a] \in [created : Nat, expires : Nat, severity : Severities,
                                cve : BOOLEAN, versions : SUBSET Versions,
                                workOrder : BOOLEAN]
      BY <1>4, <3>3, <3>4 DEF Except, IInv, Typed, Known
    <3>6. UNCHANGED <<day, advisory, carried, cache, firstSeen>>
      BY <1>4 DEF Except
    <3> QED BY <3>1, <3>2, <3>5, <3>6 DEF IInv, Typed
  <2> QED BY <1>4, <2>1, CacheShrinks DEF Except
<1>5. CASE NextDay
  <2>1. Typed'
    BY <1>5 DEF NextDay, IInv, Typed
  <2> QED BY <1>5, <2>1, CacheShrinks DEF NextDay
<1>6. CASE Push
  <2>1. Typed'
    BY <1>6 DEF Push, IInv, Typed
  <2> QED BY <1>6, <2>1, CacheShrinks DEF Push
<1>7. CASE Land
  <2>1. Typed'
    BY <1>7 DEF Land, IInv, Typed
  <2> QED BY <1>7, <2>1, CacheShrinks DEF Land
<1>8. CASE Merge
  <2>1. Typed'
    BY <1>8 DEF Merge, IInv, Typed, Branches
  <2>2. \A b \in Branches : cache'[b] \subseteq cache[b]
    BY <1>8 DEF Merge, IInv, Typed
  <2> QED BY <2>1, <2>2, CacheShrinks
<1>9. CASE UNCHANGED vars
  <2>1. Typed'
    BY <1>9 DEF vars, IInv, Typed
  <2> QED BY <1>9, <2>1, CacheShrinks DEF vars
<1> QED BY <1>1, <1>2, <1>3, <1>4, <1>5, <1>6, <1>7, <1>8, <1>9 DEF Next

LEMMA Inductive == Spec => []IInv
  BY InitInv, StepInv, PTL DEF Spec

-----------------------------------------------------------------------------
(* No date lies in the future: evaluate_one raises on such a date, and the  *)
(* histories it wrote itself never hold one.                                *)

Past(h) == \A k \in DOMAIN h : h[k] <= day

NoFuture ==
    /\ day \in 0..LastDay
    /\ \A b \in Branches : \A h \in cache[b] : Past(h)
    /\ firstSeen \in [Advisories -> 0..day \cup {Never}]

LEMMA FirstIsPast ==
    ASSUME IInv, NoFuture, NEW b \in Branches, NEW a \in Advisories
    PROVE  First(b, a) <= day
<1> DEFINE known == {h[Key(a)] : h \in {g \in Restored(b) : Key(a) \in DOMAIN g}}
<1>1. \A h \in Restored(b) : Past(h)
  BY DEF NoFuture, Restored, Branches
<1>2. \A d \in known : d <= day
  BY <1>1 DEF Past
<1>3. CASE known # {}
  <2>1. (CHOOSE first \in known : TRUE) \in known
    BY <1>3
  <2> QED BY <1>2, <1>3, <2>1 DEF First
<1>4. CASE known = {}
  BY <1>4 DEF First, NoFuture
<1> QED BY <1>3, <1>4

LEMMA HistoryPast ==
    ASSUME IInv, NoFuture, NEW b \in Branches
    PROVE  Past(History(b))
<1> DEFINE old == UNION {DOMAIN h : h \in Restored(b)}
           new == {Key(a) : a \in Findings(b)}
<1> SUFFICES ASSUME NEW k \in old \cup new PROVE History(b)[k] <= day
  BY DEF History, Past
<1>1. CASE k \in new
  <2>1. History(b)[k] = First(b, k[1])
    BY <1>1 DEF History
  <2>2. k[1] \in Advisories
    BY <1>1 DEF Key, Findings, IInv, Typed
  <2> QED BY <2>1, <2>2, FirstIsPast
<1>2. CASE k \notin new
  <2>1. PICK h \in Restored(b) : k \in DOMAIN h
    BY <1>2
  <2>2. \A g \in Restored(b) : g = h
    BY <2>1 DEF IInv, OneHistory, Restored, Branches
  <2>3. (CHOOSE g \in Restored(b) : TRUE) = h
    BY <2>1, <2>2
  <2>4. Past(h)
    BY <2>1 DEF NoFuture, Restored, Branches
  <2>5. History(b)[k] = h[k]
    BY <1>2, <2>3 DEF History
  <2> QED BY <2>1, <2>4, <2>5 DEF Past
<1> QED BY <1>1, <1>2

LEMMA RunPast ==
    ASSUME IInv, NoFuture, NEW b \in Branches, Run(b)
    PROVE  NoFuture'
<1>1. day' = day
  BY DEF Run
<1>2. \A c \in Branches : cache'[c] = cache[c] \/ cache'[c] = {History(b)}
  BY DEF Run, IInv, Typed
<1>3. \A c \in Branches : \A h \in cache'[c] : Past(h)
  BY <1>2, HistoryPast DEF NoFuture
<1>4. firstSeen' \in [Advisories -> 0..day \cup {Never}]
  BY DEF Run, NoFuture
<1> QED BY <1>1, <1>3, <1>4 DEF NoFuture, Past

LEMMA InitPast == Init => NoFuture
  BY DaysAssumption DEF Init, NoFuture, Never, Branches

LEMMA StepPast == IInv /\ NoFuture /\ [Next]_vars => NoFuture'
<1> SUFFICES ASSUME IInv, NoFuture, [Next]_vars PROVE NoFuture'
  OBVIOUS
<1>1. ASSUME NEW b \in Branches, Run(b) PROVE NoFuture'
  BY <1>1, RunPast
<1>2. CASE NextDay
  <2>1. /\ day \in Nat /\ day' \in 0..LastDay /\ day <= day'
        /\ cache' = cache /\ firstSeen' = firstSeen
    BY <1>2, DaysAssumption DEF NextDay, NoFuture
  <2>2. 0..day \subseteq 0..day'
    BY <2>1, DaysAssumption
  <2>3. firstSeen' \in [Advisories -> 0..day' \cup {Never}]
    BY <2>1, <2>2 DEF NoFuture
  <2>4. \A b \in Branches : \A h \in cache[b] : \A k \in DOMAIN h : h[k] \in Nat /\ h[k] <= day
    BY DEF IInv, AllDated, Dated, NoFuture, Past
  <2>5. \A b \in Branches : \A h \in cache[b] : \A k \in DOMAIN h : h[k] <= day'
    BY <2>1, <2>4, DaysAssumption
  <2> QED BY <2>1, <2>3, <2>5 DEF NoFuture, Past
<1>3. ASSUME UNCHANGED <<day, firstSeen>>, \A b \in Branches : cache'[b] \subseteq cache[b]
      PROVE  NoFuture'
  BY <1>3 DEF NoFuture, Past
<1>4. ASSUME NEW b \in Branches, Evict(b) PROVE NoFuture'
  <2>1. \A c \in Branches : cache'[c] \subseteq cache[c]
    BY <1>4 DEF Evict, IInv, Typed
  <2> QED BY <1>3, <1>4, <2>1 DEF Evict
<1>5. CASE Merge
  <2>1. \A c \in Branches : cache'[c] \subseteq cache[c]
    BY <1>5 DEF Merge, IInv, Typed
  <2> QED BY <1>3, <1>5, <2>1 DEF Merge
<1>6. CASE (\E a \in Advisories : Disclose(a) \/ Except(a)) \/ Push \/ Land \/ UNCHANGED vars
  <2>1. UNCHANGED <<day, cache, firstSeen>>
    BY <1>6 DEF Disclose, Except, Push, Land, vars
  <2> QED BY <1>3, <2>1
<1> QED BY <1>1, <1>2, <1>4, <1>5, <1>6 DEF Next

LEMMA OneIsFinite ==
    ASSUME NEW S, \A g, h \in S : g = h
    PROVE  Cardinality(S) <= 1
<1>1. CASE S = {}
  BY <1>1, FS_EmptySet
<1>2. CASE S # {}
  <2>1. PICK h \in S : S = {h}
    BY <1>2
  <2> QED BY <2>1, FS_Singleton
<1> QED BY <1>1, <1>2

-----------------------------------------------------------------------------

\* A branch has one history at most, of findings the databases know, and no
\* date in it lies ahead: evaluate_one never raises on a history of its own.
THEOREM TypeCorrect == Spec => []TypeOK
<1>1. Init => IInv /\ NoFuture
  BY InitInv, InitPast
<1>2. (IInv /\ NoFuture) /\ [Next]_vars => (IInv /\ NoFuture)'
  BY StepInv, StepPast
<1>3. ASSUME IInv, NoFuture PROVE TypeOK
  <2>1. \A b \in Branches : Cardinality(cache[b]) <= 1
    BY <1>3, OneIsFinite DEF IInv, OneHistory
  <2>2. \A b \in Branches : \A h \in cache[b] : \A k \in DOMAIN h :
           k \in Keys /\ h[k] \in Nat /\ h[k] <= day
    BY <1>3 DEF IInv, AllDated, Dated, NoFuture, Past
  <2>3. \A b \in Branches : \A h \in cache[b] : \A k \in DOMAIN h :
           k \in Advisories \X BOOLEAN /\ h[k] \in 0..day
    BY <1>3, <2>2 DEF Keys, NoFuture
  <2> QED BY <1>3, <2>1, <2>3 DEF TypeOK, IInv, Typed, NoFuture
<1> QED BY <1>1, <1>2, <1>3, PTL DEF Spec

\* ops/supply_chain.py, evaluate_one: backdating what is in the base to
\* INITIAL_DATE makes the limit on main independent of the history kept: no
\* lost cache and no renaming lets an aged High with a fix pass, and no exception
\* for another version of its package does.
THEOREM AgedBlocks == Spec => []AgedHighBlocks
  BY Inductive, AgedLemma, PTL

\* A pull request without new packages, and without versions that have other
\* exceptions than main's, is blocked only where main is.
THEOREM UntouchedNeverPays == Spec => []UntouchedPasses
  BY Inductive, UntouchedLemma, PTL

\* The merge of a green pull request leaves a green main green, unless it takes a
\* package of main's out of its exception by its version.
THEOREM GreenStaysGreen == Spec => GreenMergesGreen
<1>1. IInv /\ IInv' =>
        [Merge /\ Passes("main") /\ Passes("pr") /\ ~ Uncovers => Passes("main")']_vars
  BY MergeLemma
<1> QED BY <1>1, Inductive, StepInv, PTL DEF Spec, GreenMergesGreen

=============================================================================
