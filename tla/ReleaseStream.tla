--------------------------- MODULE ReleaseStream ---------------------------
(***************************************************************************)
(* .github/scripts/release_check.py, as the workflows release-checks,      *)
(* release and publish-deploy run it while pull requests are merged and    *)
(* tags pushed: a check reads the repository at one moment, and what it    *)
(* found is used later (a status of a pull request, a release).            *)
(*                                                                         *)
(* Branches only grow and tags never move: the rulesets in                 *)
(* .github/rulesets forbid both.                                           *)
(***************************************************************************)
EXTENDS Naturals, Sequences, FiniteSets

CONSTANTS
    Versions,     \* base versions X.Y.Z
    PRs,          \* pull requests
    Candidates,   \* the suffixes -rc.N
    MaxCommits    \* bounds the history

ASSUME HistoryAssumption == MaxCommits \in Nat \ {0}

VARIABLES
    commits,     \* what each commit holds, and its ancestors, itself included
    head,        \* the commit each branch is at, 0 if there is no such branch
    pr,          \* the pull requests
    tags,        \* the commit of each tag, 0 while it is not pushed
    released,    \* the tags with a GitHub Release
    published,   \* the versions with an image in the registry
    withheld     \* the versions whose tag the publishing workflow refused

vars == <<commits, head, pr, tags, released, published, withheld>>

Ids == 1..MaxCommits
\* All versions share X.Y, and with it the one release branch.
Branches == {"main", "release"}
Names == Versions \X (Candidates \cup {"stable"})
Commit == [version : Versions, notes : SUBSET Versions, behind : SUBSET Ids]
NoPR == [state |-> "none"]
\* "green" and "red": the required check passed or failed when it last ran.
Stages == {"open", "green", "red", "merged"}

New == Len(commits) + 1
At(branch) == commits[head[branch]]
Exists(branch) == head[branch] # 0

\* main begins with a commit of the first version and no release notes.
Init ==
    /\ \E v \in Versions : commits = <<[version |-> v, notes |-> {}, behind |-> {1}]>>
    /\ head = [b \in Branches |-> IF b = "main" THEN 1 ELSE 0]
    /\ pr = [p \in PRs |-> NoPR]
    /\ tags = [n \in Names |-> 0]
    /\ released = {}
    /\ published = {}
    /\ withheld = {}

-----------------------------------------------------------------------------
(* Pull requests. *)

\* The three-way merge of VERSION and of the changelog's sections.  A version
\* changed on both sides is a conflict, which has no merge commit.
Changed(p) == commits[pr[p].head].version # commits[pr[p].base].version
Conflict(p) ==
    /\ Changed(p)
    /\ At(pr[p].target).version \notin
          {commits[pr[p].base].version, commits[pr[p].head].version}
MergedVersion(p) ==
    IF Changed(p) THEN commits[pr[p].head].version ELSE At(pr[p].target).version
MergedNotes(p) == commits[pr[p].head].notes \cup At(pr[p].target).notes

Mark(p, stage) ==
    [pr EXCEPT ![p] = [state |-> stage, target |-> pr[p].target,
                       base |-> pr[p].base, head |-> pr[p].head]]

\* A branch's tip with another version, with the notes of its version, both
\* or neither.
Propose(p, b) ==
    /\ pr[p] = NoPR /\ Exists(b) /\ New \in Ids
    /\ \E v \in Versions, ready \in BOOLEAN :
          commits' = Append(commits,
             [version |-> v,
              notes |-> At(b).notes \cup (IF ready THEN {v} ELSE {}),
              behind |-> At(b).behind \cup {New}])
    /\ pr' = [pr EXCEPT ![p] = [state |-> "open", target |-> b,
                                base |-> head[b], head |-> New]]
    /\ UNCHANGED <<head, tags, released, published, withheld>>

\* cmd_check on the merge commit of the moment.  The status stays with the pull
\* request until it is checked again.
Check(p) ==
    /\ pr[p].state \in {"open", "green", "red"} /\ ~ Conflict(p)
    /\ \E logged \in BOOLEAN :   \* CHANGELOG.md changed, or changelog:skip
          pr' = Mark(p, IF logged /\ tags[<<MergedVersion(p), "stable">>] = 0
                        THEN "green" ELSE "red")
    /\ UNCHANGED <<commits, head, tags, released, published, withheld>>

\* Mistake: the branch is reset to the head of the pull request.
MergeByReset(p) ==
    /\ pr[p].state = "green" /\ New \in Ids
    /\ head' = [head EXCEPT ![pr[p].target] = pr[p].head]
    /\ pr' = Mark(p, "merged")
    /\ UNCHANGED <<commits, tags, released, published, withheld>>

\* By a merge commit, or squashed or rebased.  The status need not be of the
\* target as it is now: strict_required_status_checks_policy is false.
Merge(p) ==
    /\ pr[p].state = "green" /\ ~ Conflict(p) /\ New \in Ids
    /\ \E theirs \in {{}, commits[pr[p].head].behind} :
          commits' = Append(commits,
             [version |-> MergedVersion(p), notes |-> MergedNotes(p),
              behind |-> At(pr[p].target).behind \cup theirs \cup {New}])
    /\ head' = [head EXCEPT ![pr[p].target] = New]
    /\ pr' = Mark(p, "merged")
    /\ UNCHANGED <<tags, released, published, withheld>>

-----------------------------------------------------------------------------
(* Tags, releases and images. *)

\* release/X.Y is made when an older version needs a patch.
CutBranch ==
    /\ ~ Exists("release")
    /\ \E v \in Versions :
          /\ <<v, "stable">> \in released
          /\ head' = [head EXCEPT !["release"] = tags[<<v, "stable">>]]
    /\ UNCHANGED <<commits, pr, tags, released, published, withheld>>

\* Mistake: the tag names the commit that the next merge will make.
PushTagAhead(n) ==
    /\ tags[n] = 0
    /\ tags' = [tags EXCEPT ![n] = New]
    /\ UNCHANGED <<commits, head, pr, released, published, withheld>>

\* The owner tags a commit, of a branch or of a pull request, once and for all.
PushTag(n) ==
    /\ tags[n] = 0
    /\ \E c \in DOMAIN commits : tags' = [tags EXCEPT ![n] = c]
    /\ UNCHANGED <<commits, head, pr, released, published, withheld>>

Stable(n) == n[2] = "stable"

\* cmd_tag's rules for a candidate or a stable tag; the workflows use "main"
\* and "product".
Allowed(rule) == IF rule = "main" THEN {"main", "release"} ELSE {"release"}

\* cmd_tag, in a checkout of the tag.
Valid(n, rule) ==
    LET v == n[1] c == tags[n] IN
    /\ c # 0
    /\ commits[c].version = v
    /\ v \in commits[c].notes
    /\ \E b \in Allowed(rule) : Exists(b) /\ c \in At(b).behind
    /\ Stable(n) => \E rc \in Candidates : tags[<<v, rc>>] = c

\* The workflow release: a pre-release or, for a stable tag, a draft.  A run
\* that failed may be run again.
Release(n) ==
    /\ n \notin released /\ Valid(n, "main")
    /\ released' = released \cup {n}
    /\ UNCHANGED <<commits, head, pr, tags, published, withheld>>

\* The workflow publish-deploy, once its other jobs have passed.
Publish(v) ==
    /\ tags[<<v, "stable">>] # 0
    /\ \/ /\ Valid(<<v, "stable">>, "product")
          /\ published' = published \cup {v}
          /\ UNCHANGED withheld
       \/ /\ ~ Valid(<<v, "stable">>, "product")
          /\ withheld' = withheld \cup {v}
          /\ UNCHANGED published
    /\ UNCHANGED <<commits, head, pr, tags, released>>

-----------------------------------------------------------------------------

Next ==
    \/ \E p \in PRs : Check(p) \/ Merge(p) \/ \E b \in Branches : Propose(p, b)
    \/ CutBranch
    \/ \E n \in Names : PushTag(n) \/ Release(n)
    \/ \E v \in Versions : Publish(v)

Spec == Init /\ [][Next]_vars

-----------------------------------------------------------------------------

\* Every name stands for a commit that exists, and a commit's history is there.
TypeOK ==
    /\ commits \in Seq(Commit) /\ Len(commits) <= MaxCommits
    /\ \A c \in DOMAIN commits : c \in commits[c].behind /\ commits[c].behind \subseteq 1..c
    /\ head \in [Branches -> 0..Len(commits)] /\ Exists("main")
    /\ tags \in [Names -> 0..Len(commits)]
    /\ pr \in [PRs -> {NoPR} \cup [state : Stages, target : Branches,
                                   base : DOMAIN commits, head : DOMAIN commits]]
    /\ \A p \in PRs : pr[p] # NoPR => Exists(pr[p].target)
    /\ released \subseteq Names
    /\ published \subseteq Versions /\ withheld \subseteq Versions

\* A verdict stands: what release_check.py accepted once, with the branches and
\* tags of that moment, a later run of the workflow accepts too, and an image
\* in the registry is one of a version that may be released.
VerdictStands ==
    /\ \A n \in released : Valid(n, "main")
    /\ \A v \in published :
          Valid(<<v, "stable">>, "product") /\ Valid(<<v, "stable">>, "main")

\* RELEASING.md, Cutting a release: a stable tag on the commit of its candidate
\* on main is drafted as a release, and "Publish and deploy runs CI, builds,
\* scans and publishes the image".  The workflow that publishes does not refuse
\* what the one that releases has accepted.
ReleasedIsPublishable ==
    \A v \in withheld : <<v, "stable">> \notin released

=============================================================================
