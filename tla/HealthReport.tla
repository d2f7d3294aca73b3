---------------------------- MODULE HealthReport ----------------------------
(***************************************************************************)
(* app/health.py: HealthService.report for readiness.  A report contacts   *)
(* one service after the other while services go down and come back, and   *)
(* sets the gauge rag_ready; the probes of the kubelet run in threads, so  *)
(* that reports overlap.                                                   *)
(*                                                                         *)
(* Plan is the order of the contacts.  A check may need several services:  *)
(* vector_store makes a whole RetrievalStore, which opens the collection   *)
(* and, if a search store is enabled, asks that for its index too.         *)
(***************************************************************************)
EXTENDS Naturals, Sequences

CONSTANTS
    Probes,     \* the requests for a report
    Services,   \* what the checks contact
    Plan,       \* the contacts, each a check and a service
    Settings    \* the environments the process may run in

Checks == {Plan[i].check : i \in DOMAIN Plan}
Uses(check) == {Plan[i].service : i \in {j \in DOMAIN Plan : Plan[j].check = check}}

ASSUME PlanAssumption ==
    /\ Plan \in Seq([check : STRING, service : Services])
    /\ Settings \subseteq [configured : SUBSET Checks, named : SUBSET STRING]

VARIABLES
    setting,     \* the checks it configures, READINESS_REQUIRED_DEPENDENCIES
    up,          \* the services that would answer now
    at,          \* the contact each report is at, 0 without one
    failed,      \* the checks that failed in each report
    verdict,     \* each report's result, "none" before
    ready,       \* the gauge rag_ready, "none" before it is first set
    seen,        \* history: the needed services up at some moment of its contacts
    outage       \* history: the reports with one of them down at some moment

healthVars == <<setting, up, at, failed, verdict, ready, seen, outage>>
reportVars == <<at, failed, verdict>>

Last == Len(Plan)

HealthInit ==
    /\ setting \in Settings
    /\ up \in SUBSET Services
    /\ at = [r \in Probes |-> 0]
    /\ failed = [r \in Probes |-> {}]
    /\ verdict = [r \in Probes |-> "none"]
    /\ ready = "none"
    /\ seen = [r \in Probes |-> {}]
    /\ outage = {}

Configured == setting.configured

\* _hard_dependencies: what is named, and of these three what is enabled.
Required ==
    setting.named \cup (Configured \cap {"audit_store", "vector_store", "spiffe_workload_api"})

\* The services a ready report needs.
Needed == UNION {Uses(check) : check \in Required}

Contacting(r) == at[r] \in 1..Last

-----------------------------------------------------------------------------

\* A service goes down or comes back.
Flip(s) ==
    /\ up' = (up \cup {s}) \ (up \cap {s})
    /\ seen' = [r \in Probes |->
          IF Contacting(r) THEN seen[r] \cup (up' \cap Needed) ELSE seen[r]]
    /\ outage' = outage \cup {r \in Probes : Contacting(r) /\ ~ Needed \subseteq up'}
    /\ UNCHANGED <<setting, reportVars, ready>>

Begin(r) ==
    /\ at' = [at EXCEPT ![r] = 1]
    /\ verdict' = [verdict EXCEPT ![r] = "none"]
    /\ seen' = [seen EXCEPT ![r] = up \cap Needed]
    /\ outage' = IF Needed \subseteq up THEN outage ELSE outage \cup {r}
    /\ UNCHANGED <<setting, up, failed, ready>>

\* One contact of dependency_status.  What is not configured raises
\* LookupError before it, and is disabled.
Contact(r) ==
    /\ Contacting(r)
    /\ LET c == Plan[at[r]] IN
       failed' = [failed EXCEPT ![r] =
          IF c.check \in Configured /\ c.service \notin up THEN @ \cup {c.check} ELSE @]
    /\ at' = [at EXCEPT ![r] = @ + 1]
    /\ UNCHANGED <<setting, up, verdict, ready, seen, outage>>

\* Mistake: only a failure counts, so a required check may be disabled.
ConcludeUnlessFailed(r) ==
    /\ at[r] = Last + 1 /\ verdict[r] = "none"
    /\ verdict' = [verdict EXCEPT ![r] =
          IF Required \cap failed[r] = {} THEN "ok" ELSE "failed"]
    /\ UNCHANGED <<setting, up, at, failed, ready, seen, outage>>

\* Mistake: every check that is configured is required.
ConcludeAll(r) ==
    /\ at[r] = Last + 1 /\ verdict[r] = "none"
    /\ verdict' = [verdict EXCEPT ![r] =
          IF Required \subseteq Configured /\ failed[r] = {} THEN "ok" ELSE "failed"]
    /\ UNCHANGED <<setting, up, at, failed, ready, seen, outage>>

Conclude(r) ==
    /\ at[r] = Last + 1 /\ verdict[r] = "none"
    /\ verdict' = [verdict EXCEPT ![r] =
          IF Required \subseteq Configured \ failed[r] THEN "ok" ELSE "failed"]
    /\ UNCHANGED <<setting, up, at, failed, ready, seen, outage>>

\* The report returns, and its locals are gone.
Return(r) ==
    /\ at' = [at EXCEPT ![r] = 0]
    /\ failed' = [failed EXCEPT ![r] = {}]
    /\ seen' = [seen EXCEPT ![r] = {}]
    /\ outage' = outage \ {r}
    /\ UNCHANGED <<setting, up, verdict>>

\* Mistake: the gauge is set by healthy reports only.
SetReadyOnce(r) ==
    /\ at[r] = Last + 1 /\ verdict[r] # "none"
    /\ ready' = IF verdict[r] = "ok" THEN "ok" ELSE ready
    /\ Return(r)

\* set_gauge; other reports may have set it since this one was concluded.
SetReady(r) ==
    /\ at[r] = Last + 1 /\ verdict[r] # "none"
    /\ ready' = verdict[r]
    /\ Return(r)

Reporting(r) == Contact(r) \/ Conclude(r) \/ SetReady(r)

=============================================================================
