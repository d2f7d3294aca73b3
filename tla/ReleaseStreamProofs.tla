------------------------ MODULE ReleaseStreamProofs ------------------------
(***************************************************************************)
(* What release_check.py accepts stays acceptable, for any versions, pull  *)
(* requests and history: commits do not change, tags do not move, and a    *)
(* branch only gains ancestors.  TypeOK and VerdictStands together are     *)
(* inductive.                                                              *)
(***************************************************************************)
EXTENDS ReleaseStream, TLAPS

IInv == TypeOK /\ VerdictStands

\* What every step does to the repository.
Grows ==
    /\ DOMAIN commits \subseteq DOMAIN commits'
    /\ \A c \in DOMAIN commits : commits'[c] = commits[c]
    /\ \A n \in Names : tags[n] # 0 => tags'[n] = tags[n]
    /\ \A b \in Branches : head[b] # 0 =>
          head'[b] # 0 /\ commits[head[b]].behind \subseteq commits'[head'[b]].behind

-----------------------------------------------------------------------------

\* The image's rule is the stricter one.
LEMMA ProductImpliesMain ==
    ASSUME NEW n \in Names, Valid(n, "product")
    PROVE  Valid(n, "main")
BY DEF Valid, Allowed

\* A repository that grows keeps its verdicts.
LEMMA ValidStays ==
    ASSUME TypeOK, Grows, NEW n \in Names, NEW rule, Valid(n, rule)
    PROVE  Valid(n, rule)'
<1>1. tags[n] \in DOMAIN commits /\ tags'[n] = tags[n]
  BY DEF TypeOK, Grows, Valid
<1>2. commits'[tags[n]] = commits[tags[n]]
  BY <1>1 DEF Grows
<1>3. PICK b \in Allowed(rule) : Exists(b) /\ tags[n] \in At(b).behind
  BY DEF Valid
<1>4. Exists(b)' /\ tags[n] \in At(b)'.behind
  BY <1>3 DEF Grows, Exists, At, Allowed, Branches
<1>5. ASSUME Stable(n)
      PROVE  \E rc \in Candidates : tags'[<<n[1], rc>>] = tags'[n]
  <2>1. PICK rc \in Candidates : tags[<<n[1], rc>>] = tags[n]
    BY <1>5 DEF Valid
  <2>2. <<n[1], rc>> \in Names
    BY DEF Names
  <2>3. tags'[<<n[1], rc>>] = tags[<<n[1], rc>>]
    BY <2>1, <2>2 DEF Grows, Valid
  <2> QED BY <1>1, <2>1, <2>3
<1> QED BY <1>1, <1>2, <1>3, <1>4, <1>5 DEF Valid, Stable

\* So it keeps what was released and published.
LEMMA VerdictsStay ==
    ASSUME IInv, Grows, TypeOK', UNCHANGED <<released, published>>
    PROVE  IInv'
<1>1. \A n \in released : Valid(n, "main")'
  BY ValidStays DEF IInv, VerdictStands, TypeOK
<1>2. \A v \in published : <<v, "stable">> \in Names
  BY DEF IInv, TypeOK, Names
<1>3. \A v \in published :
         Valid(<<v, "stable">>, "product")' /\ Valid(<<v, "stable">>, "main")'
  BY <1>2, ValidStays DEF IInv, VerdictStands
<1> QED BY <1>1, <1>3 DEF IInv, VerdictStands

\* Appending a commit changes no other.
LEMMA Appended ==
    ASSUME TypeOK, NEW new \in Commit, commits' = Append(commits, new)
    PROVE  /\ commits' \in Seq(Commit)
           /\ Len(commits') = New /\ New \in Nat
           /\ DOMAIN commits' = 1..New /\ DOMAIN commits = 1..Len(commits)
           /\ DOMAIN commits \subseteq DOMAIN commits'
           /\ commits'[New] = new
           /\ \A c \in DOMAIN commits : commits'[c] = commits[c]
BY DEF TypeOK, New

\* A new commit that has itself and commits before it behind it.
LEMMA HistoryStays ==
    ASSUME TypeOK, NEW new \in Commit, commits' = Append(commits, new), New \in Ids,
           New \in new.behind, new.behind \subseteq 1..New
    PROVE  /\ commits' \in Seq(Commit) /\ Len(commits') <= MaxCommits
           /\ \A c \in DOMAIN commits' :
                 c \in commits'[c].behind /\ commits'[c].behind \subseteq 1..c
<1>1. \A c \in DOMAIN commits : c \in commits[c].behind /\ commits[c].behind \subseteq 1..c
  BY DEF TypeOK
<1>2. New <= MaxCommits
  BY HistoryAssumption DEF Ids
<1>3. \A c \in DOMAIN commits' : c \in DOMAIN commits \/ c = New
  BY Appended DEF New, TypeOK
<1> QED BY <1>1, <1>2, <1>3, Appended

LEMMA TipTyped ==
    ASSUME TypeOK, NEW b \in Branches, Exists(b)
    PROVE  /\ head[b] \in DOMAIN commits /\ At(b) \in Commit
           /\ At(b).behind \subseteq 1..Len(commits)
<1>1. head[b] \in 1..Len(commits)
  BY DEF TypeOK, Exists
<1>2. DOMAIN commits = 1..Len(commits)
  BY DEF TypeOK
<1>3. At(b) \in Commit
  BY <1>1, <1>2 DEF TypeOK, At
<1>4. At(b).behind \subseteq 1..head[b]
  BY <1>1, <1>2 DEF TypeOK, At
<1> QED BY <1>1, <1>2, <1>3, <1>4 DEF TypeOK

LEMMA InitInv == Init => IInv
<1> SUFFICES ASSUME Init PROVE IInv
  OBVIOUS
<1>1. PICK v \in Versions : commits = <<[version |-> v, notes |-> {}, behind |-> {1}]>>
  BY DEF Init
<1>2. [version |-> v, notes |-> {}, behind |-> {1}] \in Commit
  BY HistoryAssumption DEF Commit, Ids
<1>3. commits \in Seq(Commit) /\ Len(commits) = 1 /\ commits[1].behind = {1}
  BY <1>1, <1>2
<1>4. TypeOK
  BY <1>3, HistoryAssumption DEF Init, TypeOK, Branches, Exists
<1>5. VerdictStands
  BY DEF Init, VerdictStands
<1> QED BY <1>4, <1>5 DEF IInv

LEMMA ProposeInv ==
    ASSUME IInv, NEW p \in PRs, NEW b \in Branches, Propose(p, b)
    PROVE  IInv'
<1> USE DEF IInv
<1>1. PICK v \in Versions, ready \in BOOLEAN :
         commits' = Append(commits,
            [version |-> v,
             notes |-> At(b).notes \cup (IF ready THEN {v} ELSE {}),
             behind |-> At(b).behind \cup {New}])
  BY DEF Propose
<1> DEFINE new == [version |-> v,
                   notes |-> At(b).notes \cup (IF ready THEN {v} ELSE {}),
                   behind |-> At(b).behind \cup {New}]
<1>2. New \in Ids /\ Exists(b)
  BY DEF Propose
<1>3. new \in Commit
  BY <1>2, TipTyped DEF Commit
<1>4. New \in new.behind /\ new.behind \subseteq 1..New
  BY <1>2, TipTyped DEF New, TypeOK
<1>5. /\ commits' \in Seq(Commit) /\ Len(commits') <= MaxCommits
      /\ \A c \in DOMAIN commits' :
            c \in commits'[c].behind /\ commits'[c].behind \subseteq 1..c
  BY <1>1, <1>2, <1>3, <1>4, HistoryStays
<1>6. /\ DOMAIN commits \subseteq DOMAIN commits' /\ New \in DOMAIN commits'
      /\ Len(commits') = Len(commits) + 1
      /\ \A c \in DOMAIN commits : commits'[c] = commits[c]
  BY <1>1, <1>3, Appended DEF New
<1>7. UNCHANGED <<head, tags, released, published, withheld>>
  BY DEF Propose
<1>8. head[b] \in DOMAIN commits'
  BY <1>2, <1>6, TipTyped
<1>9. pr' = [pr EXCEPT ![p] = [state |-> "open", target |-> b,
                                base |-> head[b], head |-> New]]
  BY DEF Propose
<1>10. pr' \in [PRs -> {NoPR} \cup [state : Stages, target : Branches,
                                   base : DOMAIN commits', head : DOMAIN commits']]
  BY <1>6, <1>8, <1>9 DEF TypeOK, Stages
<1>11. \A q \in PRs : pr'[q] # NoPR => head'[pr'[q].target] # 0
  BY <1>2, <1>7, <1>9 DEF TypeOK, Exists
<1>12. TypeOK'
  BY <1>5, <1>6, <1>7, <1>10, <1>11 DEF TypeOK, Exists
<1>13. Grows
  BY <1>6, <1>7, TipTyped DEF Grows, At, Exists
<1> QED BY <1>7, <1>12, <1>13, VerdictsStay

LEMMA CheckInv ==
    ASSUME IInv, NEW p \in PRs, Check(p)
    PROVE  IInv'
<1>1. PICK stage \in Stages : pr' = Mark(p, stage)
  BY DEF Check, Stages
<1>2. UNCHANGED <<commits, head, tags, released, published, withheld>>
  BY DEF Check
<1>3. pr[p] # NoPR
  BY DEF Check, NoPR
<1>4. TypeOK'
  BY <1>1, <1>2, <1>3 DEF IInv, TypeOK, Mark, Exists
<1>5. Grows
  BY <1>2 DEF Grows
<1> QED BY <1>2, <1>4, <1>5, VerdictsStay

LEMMA MergeInv ==
    ASSUME IInv, NEW p \in PRs, Merge(p)
    PROVE  IInv'
<1> USE DEF IInv
<1> DEFINE b == pr[p].target
<1>1. PICK theirs \in {{}, commits[pr[p].head].behind} :
         commits' = Append(commits,
            [version |-> MergedVersion(p), notes |-> MergedNotes(p),
             behind |-> At(b).behind \cup theirs \cup {New}])
  BY DEF Merge
<1> DEFINE new == [version |-> MergedVersion(p), notes |-> MergedNotes(p),
                   behind |-> At(b).behind \cup theirs \cup {New}]
<1>2. pr[p] # NoPR /\ New \in Ids
  BY DEF Merge, NoPR
<1>3. b \in Branches /\ Exists(b) /\ pr[p].head \in DOMAIN commits
  BY <1>2 DEF TypeOK
<1>4. commits[pr[p].head] \in Commit /\ commits[pr[p].head].behind \subseteq 1..Len(commits)
  <2>1. pr[p].head \in 1..Len(commits)
    BY <1>3 DEF TypeOK
  <2>2. commits[pr[p].head].behind \subseteq 1..pr[p].head
    BY <1>3 DEF TypeOK
  <2> QED BY <1>3, <2>1, <2>2 DEF TypeOK
<1>5. new \in Commit
  BY <1>2, <1>3, <1>4, TipTyped DEF Commit, MergedVersion, MergedNotes
<1>6. New \in new.behind /\ new.behind \subseteq 1..New
  BY <1>3, <1>4, TipTyped DEF New, TypeOK
<1>7. /\ commits' \in Seq(Commit) /\ Len(commits') <= MaxCommits
      /\ \A c \in DOMAIN commits' :
            c \in commits'[c].behind /\ commits'[c].behind \subseteq 1..c
  BY <1>1, <1>2, <1>5, <1>6, HistoryStays
<1>8. /\ DOMAIN commits \subseteq DOMAIN commits' /\ New \in DOMAIN commits'
      /\ Len(commits') = New /\ New = Len(commits) + 1 /\ New \in Nat \ {0}
      /\ commits'[New] = new
      /\ \A c \in DOMAIN commits : commits'[c] = commits[c]
  BY <1>1, <1>5, Appended DEF New, TypeOK
<1>9. /\ UNCHANGED <<tags, released, published, withheld>>
      /\ head' = [head EXCEPT ![b] = New] /\ pr' = Mark(p, "merged")
  BY DEF Merge
<1>10. head' \in [Branches -> 0..Len(commits')] /\ head'["main"] # 0
  BY <1>3, <1>8, <1>9 DEF TypeOK, Exists
<1>11. /\ pr' \in [PRs -> {NoPR} \cup [state : Stages, target : Branches,
                                       base : DOMAIN commits', head : DOMAIN commits']]
       /\ \A q \in PRs : pr'[q] # NoPR => head'[pr'[q].target] # 0
  BY <1>2, <1>3, <1>8, <1>9 DEF TypeOK, Mark, Stages, Exists
<1>12. TypeOK'
  BY <1>7, <1>8, <1>9, <1>10, <1>11 DEF TypeOK, Exists
<1>13. \A c \in Branches : head[c] # 0 =>
          head'[c] # 0 /\ commits[head[c]].behind \subseteq commits'[head'[c]].behind
  <2> SUFFICES ASSUME NEW c \in Branches, head[c] # 0
               PROVE  /\ head'[c] # 0
                      /\ commits[head[c]].behind \subseteq commits'[head'[c]].behind
    OBVIOUS
  <2>1. CASE c = b
    BY <1>3, <1>8, <1>9, <2>1 DEF TypeOK, At
  <2>2. CASE c # b
    BY <1>8, <1>9, <2>2, TipTyped DEF TypeOK, Exists
  <2> QED BY <2>1, <2>2
<1>14. Grows
  BY <1>8, <1>9, <1>13 DEF Grows
<1> QED BY <1>9, <1>12, <1>14, VerdictsStay

LEMMA CutInv ==
    ASSUME IInv, CutBranch
    PROVE  IInv'
<1>1. PICK v \in Versions :
         /\ <<v, "stable">> \in released
         /\ head' = [head EXCEPT !["release"] = tags[<<v, "stable">>]]
  BY DEF CutBranch
<1>2. UNCHANGED <<commits, pr, tags, released, published, withheld>>
  BY DEF CutBranch
<1>3. tags[<<v, "stable">>] \in 0..Len(commits)
  BY <1>1 DEF IInv, TypeOK, Names
<1>4. head["release"] = 0
  BY DEF CutBranch, Exists
<1>5. head' \in [Branches -> 0..Len(commits)] /\ head'["main"] = head["main"]
  BY <1>1, <1>3 DEF IInv, TypeOK, Branches
<1>6. \A b \in Branches : head[b] # 0 => head'[b] = head[b]
  BY <1>1, <1>4 DEF IInv, TypeOK
<1>7. \A p \in PRs : pr[p] # NoPR => pr[p].target \in Branches
  BY DEF IInv, TypeOK
<1>8. TypeOK'
  BY <1>2, <1>5, <1>6, <1>7 DEF IInv, TypeOK, Exists
<1>9. Grows
  BY <1>2, <1>6 DEF Grows
<1> QED BY <1>2, <1>8, <1>9, VerdictsStay

LEMMA PushTagInv ==
    ASSUME IInv, NEW n \in Names, PushTag(n)
    PROVE  IInv'
<1>1. PICK c \in DOMAIN commits : tags' = [tags EXCEPT ![n] = c]
  BY DEF PushTag
<1>2. tags[n] = 0 /\ UNCHANGED <<commits, head, pr, released, published, withheld>>
  BY DEF PushTag
<1>3. c \in 0..Len(commits)
  BY DEF IInv, TypeOK
<1>4. tags' \in [Names -> 0..Len(commits)]
  BY <1>1, <1>3 DEF IInv, TypeOK
<1>5. TypeOK'
  BY <1>2, <1>4 DEF IInv, TypeOK, Exists
<1>6. Grows
  BY <1>1, <1>2 DEF Grows, IInv, TypeOK
<1> QED BY <1>2, <1>5, <1>6, VerdictsStay

\* Where nothing but the records of the workflows change, Valid does not.
LEMMA ValidSame ==
    ASSUME UNCHANGED <<commits, head, tags>>, NEW n, NEW rule
    PROVE  Valid(n, rule)' <=> Valid(n, rule)
BY DEF Valid, Exists, At

LEMMA ReleaseInv ==
    ASSUME IInv, NEW n \in Names, Release(n)
    PROVE  IInv'
<1>1. /\ Valid(n, "main") /\ released' = released \cup {n}
      /\ UNCHANGED <<commits, head, pr, tags, published, withheld>>
  BY DEF Release
<1>2. TypeOK'
  BY <1>1 DEF IInv, TypeOK, Exists
<1>3. VerdictStands'
  BY <1>1, ValidSame DEF IInv, VerdictStands
<1> QED BY <1>2, <1>3 DEF IInv

LEMMA PublishInv ==
    ASSUME IInv, NEW v \in Versions, Publish(v)
    PROVE  IInv'
<1>1. UNCHANGED <<commits, head, pr, tags, released>>
  BY DEF Publish
<1>2. published' \subseteq Versions /\ withheld' \subseteq Versions
  BY DEF Publish, IInv, TypeOK
<1>3. TypeOK'
  BY <1>1, <1>2 DEF IInv, TypeOK, Exists
<1>4. <<v, "stable">> \in Names
  BY DEF Names
<1>5. \A w \in published' :
         Valid(<<w, "stable">>, "product") /\ Valid(<<w, "stable">>, "main")
  BY <1>4, ProductImpliesMain DEF Publish, IInv, VerdictStands
<1>6. VerdictStands'
  BY <1>1, <1>5, ValidSame DEF IInv, VerdictStands
<1> QED BY <1>3, <1>6 DEF IInv

LEMMA StepInv == IInv /\ [Next]_vars => IInv'
<1> SUFFICES ASSUME IInv, [Next]_vars PROVE IInv'
  OBVIOUS
<1>1. ASSUME NEW p \in PRs, NEW b \in Branches, Propose(p, b) PROVE IInv'
  BY <1>1, ProposeInv
<1>2. ASSUME NEW p \in PRs, Check(p) PROVE IInv'
  BY <1>2, CheckInv
<1>3. ASSUME NEW p \in PRs, Merge(p) PROVE IInv'
  BY <1>3, MergeInv
<1>4. CASE CutBranch
  BY <1>4, CutInv
<1>5. ASSUME NEW n \in Names, PushTag(n) PROVE IInv'
  BY <1>5, PushTagInv
<1>6. ASSUME NEW n \in Names, Release(n) PROVE IInv'
  BY <1>6, ReleaseInv
<1>7. ASSUME NEW v \in Versions, Publish(v) PROVE IInv'
  BY <1>7, PublishInv
<1>8. CASE UNCHANGED vars
  <2>1. TypeOK'
    BY <1>8 DEF vars, IInv, TypeOK, Exists
  <2>2. VerdictStands'
    BY <1>8, ValidSame DEF vars, IInv, VerdictStands
  <2> QED BY <2>1, <2>2 DEF IInv
<1> QED BY <1>1, <1>2, <1>3, <1>4, <1>5, <1>6, <1>7, <1>8 DEF Next

-----------------------------------------------------------------------------

\* Every tag, branch and pull request names commits that exist, whose history
\* is complete.
THEOREM TypeCorrect == Spec => []TypeOK
<1>1. IInv => TypeOK
  BY DEF IInv
<1> QED BY <1>1, InitInv, StepInv, PTL DEF Spec

\* release_check.py: a release or image that was accepted is acceptable for
\* ever, whatever is merged, branched off or tagged after it.
THEOREM VerdictsStand == Spec => []VerdictStands
<1>1. IInv => VerdictStands
  BY DEF IInv
<1> QED BY <1>1, InitInv, StepInv, PTL DEF Spec

-----------------------------------------------------------------------------
(* ReleasedIsPublishable fails; the branch is all that it can fail for. *)

OnBranch(c, b) == Exists(b) /\ c \in At(b).behind

\* The workflow that publishes refuses a release that is out only because its
\* commit is on main and not on release/X.Y; never for its VERSION, its notes
\* or its candidate, which the workflow that released it checked.
RefusedForItsBranch ==
    \A v \in withheld' \ withheld :
        <<v, "stable">> \in released =>
            LET c == tags[<<v, "stable">>]
            IN  OnBranch(c, "main") /\ ~ OnBranch(c, "release")

LEMMA MainOnly ==
    ASSUME NEW n \in Names, Valid(n, "main"), ~ Valid(n, "product")
    PROVE  OnBranch(tags[n], "main") /\ ~ OnBranch(tags[n], "release")
BY DEF Valid, Allowed, OnBranch

LEMMA RefusalStep == IInv /\ [Next]_vars => RefusedForItsBranch
<1> SUFFICES ASSUME IInv, [Next]_vars PROVE RefusedForItsBranch
  OBVIOUS
<1>1. IInv'
  BY StepInv
<1>2. withheld' \subseteq Versions
  BY <1>1 DEF IInv, TypeOK
<1>3. ASSUME NEW v \in Versions, v \in withheld' \ withheld
      PROVE  <<v, "stable">> \in released =>
                /\ OnBranch(tags[<<v, "stable">>], "main")
                /\ ~ OnBranch(tags[<<v, "stable">>], "release")
  <2>1. PICK u \in Versions : Publish(u)
    BY <1>3 DEF Next, vars, Propose, Check, Merge, CutBranch, PushTag, Release
  <2>2. u = v /\ ~ Valid(<<v, "stable">>, "product")
    BY <1>3, <2>1 DEF Publish
  <2>3. <<v, "stable">> \in released => Valid(<<v, "stable">>, "main")
    BY DEF IInv, VerdictStands
  <2>4. <<v, "stable">> \in Names
    BY DEF Names
  <2> QED  BY <2>2, <2>3, <2>4, MainOnly
<1> QED  BY <1>2, <1>3 DEF RefusedForItsBranch

\* release.yml and publish-deploy.yml differ in the branch rule alone: a release
\* whose image is refused is one cut on main.
THEOREM RefusedOffBranch == Spec => [][RefusedForItsBranch]_vars
<1>1. IInv /\ [Next]_vars => [RefusedForItsBranch]_vars
  BY RefusalStep
<1> QED BY <1>1, InitInv, StepInv, PTL DEF Spec

=============================================================================
