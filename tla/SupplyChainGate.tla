-------------------------- MODULE SupplyChainGate --------------------------
(***************************************************************************)
(* ops/supply_chain.py as .github/workflows/ci.yml runs it, on main and on *)
(* a pull request: the findings of the day, compared with those of the     *)
(* base, and the day each was first seen, kept in the workflow's cache.    *)
(* Days count from INITIAL_DATE, the day the gate was introduced.          *)
(*                                                                         *)
(* The cache is restored from the branch's own last entry, else from       *)
(* main's, and saved when the job succeeds; it may be evicted at any time. *)
(***************************************************************************)
EXTENDS Integers, FiniteSets

CONSTANTS
    Advisories,  \* each about one package
    Versions,    \* of a package, all of which its advisory is about
    Grace,       \* days for which an existing High with a fix is let pass
    Term,        \* days an exception for a finding of each severity may run
    LastDay      \* bounds the days

VARIABLES
    day,
    advisory,    \* what the vulnerability databases say of each today
    carried,     \* for each branch and advisory, the versions of its package there
    exception,   \* vulnerability-exceptions.json, the same on both branches
    cache,       \* for each branch none or one first-seen history
    firstSeen    \* history: the day the gate on main first reported each

vars == <<day, advisory, carried, exception, cache, firstSeen>>

Branches == {"main", "pr"}
Severities == {"High", "Critical"}
Never == LastDay + 1

ASSUME DaysAssumption ==
    Grace \in Nat /\ LastDay \in Nat /\ Term \in [Severities -> Nat]

Undisclosed == [severity |-> "none"]

\* The KEV catalogue lists CVE names: who has none yet is not found in it.
Known ==
    {known \in [severity : Severities, fix : BOOLEAN, cve : BOOLEAN, kev : BOOLEAN] :
        known.kev => known.cve}

NoException == [expires |-> Never]

\* What an image and its lock files hold of each package, if anything.
Packages == [Advisories -> SUBSET Versions]

Init ==
    /\ day = 0
    /\ advisory = [a \in Advisories |-> Undisclosed]
    /\ \E on \in Packages : carried = [b \in Branches |-> on]
    /\ exception = [a \in Advisories |-> NoException]
    /\ cache = [b \in Branches |-> {}]
    /\ firstSeen = [a \in Advisories |-> Never]

-----------------------------------------------------------------------------
(* One run of the gate. *)

\* By identity: what the gate says of an advisory's package, it says of each
\* version of it, but for the exceptions.
Findings(b) ==
    {a \in Advisories : carried[b][a] # {} /\ advisory[a] # Undisclosed}

\* finding: named by its CVE once it has one; identity leaves the version out.
Key(a) == <<a, advisory[a].cve>>

\* Mistake: what the history does not know is taken for introduced.
IntroducedIfNew(b, a) == \A h \in cache[b] : Key(a) \notin DOMAIN h

\* Not among the findings of the base, in any version.  A push to main is
\* compared with origin/main, which is itself.
Introduced(b, a) == carried["main"][a] = {}

Restored(b) ==
    IF cache[b] # {} THEN cache[b] ELSE cache["main"]

\* Mistake: what is not in the history was first seen today.
FirstToday(b, a) ==
    LET known == {h[Key(a)] : h \in {g \in Restored(b) : Key(a) \in DOMAIN g}}
    IN  IF known # {} THEN CHOOSE first \in known : TRUE ELSE day

\* history.get(key, initial), and initial is INITIAL_DATE unless introduced.
First(b, a) ==
    LET known == {h[Key(a)] : h \in {g \in Restored(b) : Key(a) \in DOMAIN g}}
    IN  IF known # {} THEN CHOOSE first \in known : TRUE
        ELSE IF Introduced(b, a) THEN day ELSE 0

History(b) ==
    LET old == UNION {DOMAIN h : h \in Restored(b)}
        new == {Key(a) : a \in Findings(b)}
    IN  [k \in old \cup new |->
            IF k \in new THEN First(b, k[1])
            ELSE (CHOOSE h \in Restored(b) : TRUE)[k]]

\* Mistake: an introduced High has its days of grace like any other.
ReasonWithoutIntroduced(b, a) ==
    LET known == advisory[a] IN
    \/ known.kev
    \/ known.fix /\ known.severity = "Critical"
    \/ known.fix /\ known.severity = "High" /\ day - First(b, a) >= Grace

\* block_reason.
Reason(b, a) ==
    LET known == advisory[a] IN
    \/ known.kev
    \/ known.fix /\ known.severity = "Critical"
    \/ /\ known.fix /\ known.severity = "High"
       /\ Introduced(b, a) \/ day - First(b, a) >= Grace

\* Mistake: like the history, the exception leaves the version out.
ExceptedAnyVersion(a, v) ==
    exception[a] # NoException /\ exception[a].cve = advisory[a].cve

\* An exception names this finding, and this very version of its package.
Excepted(a, v) ==
    /\ exception[a] # NoException
    /\ exception[a].cve = advisory[a].cve
    /\ v \in exception[a].versions

\* validate_exceptions: one entry out of its time fails every run.
Invalid(e) ==
    /\ e # NoException
    /\ day > e.expires \/ e.expires - e.created > Term[e.severity]

Mismatched(b, a) ==
    /\ \E v \in carried[b][a] : Excepted(a, v)
    /\ \/ exception[a].severity # advisory[a].severity
       \/ advisory[a].fix /\ ~ exception[a].workOrder

Blocked(b, a) == Reason(b, a) /\ \E v \in carried[b][a] : ~ Excepted(a, v)

\* evaluate raises, or main ends with exit status 1, or the gate passes.
Raises(b) ==
    \/ \E a \in Advisories : Invalid(exception[a])
    \/ \E a \in Findings(b) : Mismatched(b, a)
Passes(b) == ~ Raises(b) /\ \A a \in Findings(b) : ~ Blocked(b, a)

\* Mistake: the new history is kept next to the old one.
RunAppending(b) ==
    /\ Passes(b)
    /\ cache' = [cache EXCEPT ![b] = @ \cup {History(b)}]
    /\ UNCHANGED <<day, advisory, carried, exception, firstSeen>>

\* The state file is written whenever evaluate returns, but the cache is saved
\* only with a job that succeeds.
Run(b) ==
    /\ ~ Raises(b)
    /\ cache' = IF Passes(b) THEN [cache EXCEPT ![b] = {History(b)}] ELSE cache
    /\ firstSeen' = [a \in Advisories |->
          IF b = "main" /\ a \in Findings(b) /\ firstSeen[a] = Never
          THEN day ELSE firstSeen[a]]
    /\ UNCHANGED <<day, advisory, carried, exception>>

-----------------------------------------------------------------------------
(* What happens around it. *)

NextDay ==
    /\ day < LastDay
    /\ day' = day + 1
    /\ UNCHANGED <<advisory, carried, exception, cache, firstSeen>>

\* The databases: an advisory is disclosed, or gets its CVE name, a fix, an
\* entry in the KEV catalogue or another severity.
Disclose(a) ==
    /\ \E known \in Known :
          /\ advisory[a] # Undisclosed =>
                /\ advisory[a].fix => known.fix
                /\ advisory[a].cve => known.cve
                /\ advisory[a].kev => known.kev
          /\ advisory' = [advisory EXCEPT ![a] = known]
    /\ UNCHANGED <<day, carried, exception, cache, firstSeen>>

\* The pull request takes packages in or out, changes their versions, or is
\* brought up to date.
Push ==
    /\ \E on \in Packages : carried' = [carried EXCEPT !["pr"] = on]
    /\ UNCHANGED <<day, advisory, exception, cache, firstSeen>>

\* Another pull request is merged into main: the gate is not a required check.
Land ==
    /\ \E on \in Packages : carried' = [carried EXCEPT !["main"] = on]
    /\ UNCHANGED <<day, advisory, exception, cache, firstSeen>>

\* The pull request is merged; the next one has no cache of its own.
Merge ==
    /\ carried' = [b \in Branches |-> carried["pr"]]
    /\ cache' = [cache EXCEPT !["pr"] = {}]
    /\ UNCHANGED <<day, advisory, exception, firstSeen>>

\* The owner enters exceptions for some versions, together and perhaps for too
\* long, or withdraws them.
Except(a) ==
    /\ advisory[a] # Undisclosed
    /\ \/ \E order \in BOOLEAN, over \in {0, 1}, on \in SUBSET Versions \ {{}} :
             exception' = [exception EXCEPT ![a] =
                [created |-> day, expires |-> day + Term[advisory[a].severity] + over,
                 severity |-> advisory[a].severity, cve |-> advisory[a].cve,
                 versions |-> on, workOrder |-> order]]
       \/ exception' = [exception EXCEPT ![a] = NoException]
    /\ UNCHANGED <<day, advisory, carried, cache, firstSeen>>

\* The cache service keeps no entry for ever.
Evict(b) ==
    /\ cache[b] # {}
    /\ cache' = [cache EXCEPT ![b] = {}]
    /\ UNCHANGED <<day, advisory, carried, exception, firstSeen>>

-----------------------------------------------------------------------------

Next ==
    \/ \E b \in Branches : Run(b) \/ Evict(b)
    \/ \E a \in Advisories : Disclose(a) \/ Except(a)
    \/ NextDay \/ Push \/ Land \/ Merge

Spec == Init /\ [][Next]_vars

-----------------------------------------------------------------------------

TypeOK ==
    /\ day \in 0..LastDay
    /\ carried \in [Branches -> Packages]
    /\ advisory \in [Advisories -> Known \cup {Undisclosed}]
    /\ \A b \in Branches : Cardinality(cache[b]) <= 1
    /\ \A b \in Branches : \A h \in cache[b] : \A k \in DOMAIN h :
          k \in Advisories \X BOOLEAN /\ h[k] \in 0..day
    /\ firstSeen \in [Advisories -> 0..day \cup {Never}]

\* ADR-0049's limit on main: a High with a fix that was first reported Grace
\* days ago is not passed without an exception in its term for every version of
\* it that is there, though the cache was lost since, the finding has been renamed
\* or the package was put to another version.
AgedHighBlocks ==
    Passes("main") =>
        \A a \in Findings("main") :
            /\ advisory[a].severity = "High" /\ advisory[a].fix
            /\ day - firstSeen[a] >= Grace
            => /\ exception[a] # NoException
               /\ carried["main"][a] \subseteq exception[a].versions
               /\ day - exception[a].created <= Term["High"]

\* Every version the pull request has of a package stands with the exceptions as
\* some version of it on main does: packages are left alone or taken out, or their
\* versions changed where no exception names one.
Untouched ==
    \A a \in Advisories : \A v \in carried["pr"][a] :
        \E w \in carried["main"][a] : Excepted(a, v) <=> Excepted(a, w)

\* Such a pull request fails only where main would: its author is not blocked by
\* what its own or main's cache has lost, nor for another version of what main
\* has.  An excepted package is another matter: its exception is of one version.
UntouchedPasses == Untouched /\ Passes("main") => Passes("pr")

\* The pull request has a version that is not excepted of a package that main
\* has in excepted versions only.
Uncovers ==
    \E a \in Advisories :
        /\ \E v \in carried["pr"][a] : ~ Excepted(a, v)
        /\ carried["main"][a] # {}
        /\ \A w \in carried["main"][a] : Excepted(a, w)

\* A green pull request turns no green main red by its merge, unless it takes a
\* package out of its exception: the gate on main, which sees nothing as introduced
\* and has another history, passes that day what it passed in the pull request.
GreenMergesGreen ==
    [][Merge /\ Passes("main") /\ Passes("pr") /\ ~ Uncovers => Passes("main")']_vars

=============================================================================
