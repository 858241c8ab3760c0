----------------------------- MODULE ReleaseProofs -----------------------------
(***************************************************************************)
(* Safety of the release pipeline, for any number of merges, versions,     *)
(* failures and jobs run again.                                            *)
(***************************************************************************)
EXTENDS Release, FiniteSetTheorems, TLAPS

(* A prefix, element by element.                                           *)
LEMMA PrefixIs ==
    ASSUME NEW S, NEW s \in Seq(S), NEW t \in Seq(S)
    PROVE  IsPrefix(s, t) <=> Len(s) <= Len(t) /\ \A i \in 1..Len(s) : s[i] = t[i]
<1>1. ASSUME Len(s) <= Len(t)
      PROVE  SubSeq(s, 1, Len(s)) = SubSeq(t, 1, Len(s)) <=> \A i \in 1..Len(s) : s[i] = t[i]
  BY <1>1
<1> QED  BY <1>1 DEF IsPrefix

LEMMA PrefixReflexive ==
    ASSUME NEW S, NEW s \in Seq(S)
    PROVE  IsPrefix(s, s)
BY DEF IsPrefix

LEMMA PrefixTransitive ==
    ASSUME NEW S, NEW s \in Seq(S), NEW t \in Seq(S), NEW u \in Seq(S),
           IsPrefix(s, t), IsPrefix(t, u)
    PROVE  IsPrefix(s, u)
BY PrefixIs

LEMMA PrefixOfAppend ==
    ASSUME NEW S, NEW s \in Seq(S), NEW t \in Seq(S), NEW e \in S, IsPrefix(s, t)
    PROVE  IsPrefix(s, Append(t, e))
<1> DEFINE u == Append(t, e)
<1>1. /\ u \in Seq(S) /\ Len(u) = Len(t) + 1
      /\ \A i \in 1..Len(t) : u[i] = t[i]
  OBVIOUS
<1> HIDE DEF u
<1>2. IsPrefix(s, u)
  BY <1>1, PrefixIs
<1> QED  BY <1>2 DEF u

(* What Append(t, e) properly extends, t extends or is.                    *)
LEMMA StrictPrefixOfAppend ==
    ASSUME NEW S, NEW s \in Seq(S), NEW t \in Seq(S), NEW e \in S,
           IsStrictPrefix(s, Append(t, e))
    PROVE  IsPrefix(s, t)
<1> DEFINE u == Append(t, e)
<1>1. /\ u \in Seq(S) /\ Len(u) = Len(t) + 1
      /\ \A i \in 1..Len(t) : u[i] = t[i]
  OBVIOUS
<1>2. IsPrefix(s, u) /\ s # u
  BY DEF IsStrictPrefix
<1> HIDE DEF u
<1>3. Len(s) <= Len(u) /\ \A i \in 1..Len(s) : s[i] = u[i]
  BY <1>1, <1>2, PrefixIs
<1>4. Len(s) # Len(u)
  BY <1>1, <1>2, <1>3
<1> QED  BY <1>1, <1>3, <1>4, PrefixIs

LEMMA PrefixAntisymmetric ==
    ASSUME NEW S, NEW s \in Seq(S), NEW t \in Seq(S), IsPrefix(s, t), IsPrefix(t, s)
    PROVE  s = t
BY PrefixIs

(* What is appended is last, also one past a non-empty sequence.           *)
LEMMA LastOfAppend ==
    ASSUME NEW S, NEW t \in Seq(S), NEW e \in S
    PROVE  /\ Append(t, e) \in Seq(S) \ {<<>>} /\ Last(Append(t, e)) = e
           /\ Len(Append(t, e)) = Len(t) + 1
           /\ SubSeq(Append(t, e), 1, Len(t)) = t
BY DEF Last

LEMMA LastInSeq ==
    ASSUME NEW S, NEW t \in Seq(S), t # <<>>
    PROVE  /\ Last(t) \in S /\ Len(t) \in Nat \ {0}
           /\ SubSeq(t, 1, Len(t) - 1) \in Seq(S)
           /\ t = Append(SubSeq(t, 1, Len(t) - 1), Last(t))
BY DEF Last

LEMMA Prepend ==
    ASSUME NEW S, NEW e \in S, NEW t \in Seq(S)
    PROVE  <<e>> \o t \in Seq(S) /\ Head(<<e>> \o t) = e
OBVIOUS

(* A finite set of numbers has a greatest element: the one above which the *)
(* fewest are.                                                             *)
LEMMA MaxIsGreatest ==
    ASSUME NEW A \in SUBSET Nat, IsFiniteSet(A), A # {}
    PROVE  Max(A) \in A /\ \A w \in A : w <= Max(A)
<1> DEFINE Over(v) == {w \in A : w > v}
<1>1. PICK U \in {Over(v) : v \in A} :
          \A V \in {Over(v) : v \in A} : <<V, U>> \notin StrictSubsetOrdering(A)
  <2>1. IsWellFoundedOn(StrictSubsetOrdering(A), SUBSET A)
    BY FS_StrictSubsetOrderingWellFounded, FS_FiniteSubsetsOfFinite
  <2>2. {Over(v) : v \in A} \subseteq SUBSET A /\ {Over(v) : v \in A} # {}
    OBVIOUS
  <2> HIDE DEF Over
  <2> QED  BY <2>1, <2>2, WFMin
<1>2. PICK m \in A : U = Over(m)
  OBVIOUS
<1>3. ASSUME NEW w \in A, w > m PROVE FALSE
  <2>1. w \in Over(m) /\ w \notin Over(w) /\ Over(w) \subseteq Over(m)
    <3>1. w \in Nat /\ m \in Nat /\ \A x \in A : x \in Nat
      OBVIOUS
    <3>2. ~(w > w) /\ \A x \in A : x > w => x > m
      BY <1>3, <3>1
    <3> QED  BY <1>3, <3>2
  <2>2. Over(w) \in SUBSET A /\ Over(m) \in SUBSET A
    OBVIOUS
  <2> DEFINE Overs == {Over(v) : v \in A}
  <2>3. Over(w) \in Overs /\ \A V \in Overs : <<V, U>> \notin StrictSubsetOrdering(A)
    BY <1>1
  <2> HIDE DEF Over, Overs
  <2>4. <<Over(w), U>> \in StrictSubsetOrdering(A)
    BY <1>2, <2>1, <2>2 DEF StrictSubsetOrdering
  <2> QED  BY <2>3, <2>4
<1>4. \A w \in A : m >= w
  BY <1>3
<1> QED  BY <1>4 DEF Max

-----------------------------------------------------------------------------
Above(v) == \A w \in releases : v > w

\* The history before the newest commit.
Parent(h) == SubSeq(h, 1, Len(h) - 1)

(* Nobody else makes tags or releases while the job runs.                  *)
JobInStep ==
    /\ job.step \in {"resolve", "decide", "prepare", "push_main"} => job.seen = DOMAIN tags
    /\ job.step = "decide" /\ NeedsBump /\ job.resolved # 0 => Above(job.resolved)
    /\ job.step \in {"prepare", "push_main", "push_tag", "create_release", "publish"} =>
          job.version \in Versions
    /\ job.step \in {"prepare", "push_main", "push_tag"} => job.version \notin DOMAIN tags
    /\ job.step = "push_tag" => Above(job.version)
    /\ job.step \in {"create_release", "publish"} =>
          job.version \in DOMAIN tags /\ tags[job.version] = job.head
    /\ job.step = "publish" => job.version \in releases

(* Up to its own commit the clone is on main.                              *)
JobIsOnMain ==
    /\ job.step \in {"resolve", "decide", "prepare", "push_tag", "create_release", "publish"} =>
          IsPrefix(job.head, main)
    /\ job.step = "prepare" => Above(job.version) \/ job.version = VersionAt(job.head)
    /\ job.step = "push_main" =>
          /\ Parent(job.head) # <<>> /\ IsPrefix(Parent(job.head), main)
          /\ Above(job.version) \/ job.version = VersionAt(Parent(job.head))

HeadIsVersion ==
    job.step \in {"push_main", "push_tag", "create_release", "publish"} =>
        VersionAt(job.head) = job.version /\ Head(LogAt(job.head)).version = job.version

(* No release is above the version of main, and what was merged since the  *)
(* job pushed has a run that waits.                                        *)
MainIsAhead ==
    /\ \A w \in releases : w <= VersionAt(main)
    /\ job.step \in {"push_tag", "create_release", "publish"} =>
          /\ job.version <= VersionAt(main)
          /\ waiting = <<>> => People(job.head) = People(main)

RelInv ==
    /\ ReleaseTypeOK /\ JobInStep /\ JobIsOnMain /\ HeadIsVersion /\ MainIsAhead
    /\ TagsAreOnMain /\ TagIsItsCommit /\ NothingLeftBehind

LEMMA NoJobIsIdle ==
    NoJob \in [step : Steps, head : Seq(Commits), seen : SUBSET DOMAIN tags,
               resolved : 0..MaxVersion, version : 0..MaxVersion]
    /\ NoJob.step = "idle"
BY ReleaseBounds DEF NoJob, Steps

(* What an ended job leaves: everything but the job as it was.             *)
LEMMA JobEnds ==
    ASSUME RelInv, job' = NoJob, ended' \in {"nothing", "failed"},
           failures' \in 0..MaxFailures,
           UNCHANGED <<main, tags, releases, published, token, waiting, reruns>>
    PROVE  RelInv'
<1> USE NoJobIsIdle
<1>1. ReleaseTypeOK'
  BY DEF RelInv, ReleaseTypeOK, Endings
<1>2. JobInStep' /\ JobIsOnMain' /\ HeadIsVersion'
  BY DEF JobInStep, JobIsOnMain, HeadIsVersion
<1>3. MainIsAhead'
  BY DEF RelInv, MainIsAhead, VersionAt
<1>4. TagsAreOnMain' /\ TagIsItsCommit'
  BY DEF RelInv, TagsAreOnMain, TagIsItsCommit, VersionAt, LogAt
<1>5. NothingLeftBehind'
  BY DEF NothingLeftBehind
<1> QED  BY <1>1, <1>2, <1>3, <1>4, <1>5 DEF RelInv

LEMMA InitRelInv == RelInit => RelInv
<1> SUFFICES ASSUME RelInit PROVE RelInv
  OBVIOUS
<1> USE NoJobIsIdle, ReleaseBounds
<1>0. 1 \in Versions
  BY DEF Versions
<1>1. FirstCommit \in Commits /\ FirstRelease \in Commits
  BY <1>0 DEF FirstCommit, FirstRelease, Commits, Entries
<1>2. main \in Histories /\ releases \subseteq Versions /\ DOMAIN tags \subseteq Versions
      /\ (\A v \in DOMAIN tags : v = 1 /\ tags[v] = main) /\ VersionAt(main) = 1
      /\ releases \subseteq DOMAIN tags /\ (\A w \in releases : w = 1)
      /\ (DOMAIN tags # {} => Head(LogAt(main)).version = 1)
  <2>1. CASE main = <<FirstCommit>> /\ tags = << >> /\ releases = {}
    <3>1. Last(main) = FirstCommit /\ main \in Histories
      BY <1>1, <2>1 DEF Last, Histories
    <3>2. DOMAIN tags = {}
      BY <2>1
    <3> QED  BY <2>1, <3>1, <3>2 DEF VersionAt, FirstCommit
  <2>2. CASE /\ main = <<FirstCommit, FirstRelease>>
             /\ tags = [v \in {1} |-> main] /\ releases = {1}
    <3>1. Last(main) = FirstRelease /\ main \in Histories
      BY <1>1, <2>2 DEF Last, Histories
    <3>2. FirstRelease.version = 1 /\ Head(FirstRelease.log).version = 1
      BY DEF FirstRelease
    <3> QED  BY <1>0, <2>2, <3>1, <3>2 DEF VersionAt, LogAt
  <2> QED  BY <2>1, <2>2 DEF RelInit
<1>3. DOMAIN published = {}
  BY DEF RelInit, RelStart
<1>4. ReleaseTypeOK
  BY <1>2, <1>3 DEF RelInit, RelStart, ReleaseTypeOK, IsPrefix, Endings, Histories
<1>5. JobInStep /\ JobIsOnMain /\ HeadIsVersion /\ MainIsAhead /\ NothingLeftBehind
  BY <1>2 DEF RelInit, RelStart, JobInStep, JobIsOnMain, HeadIsVersion, MainIsAhead, NothingLeftBehind
<1>6. TagsAreOnMain
  BY <1>2, PrefixReflexive DEF TagsAreOnMain, Histories
<1>7. TagIsItsCommit
  BY <1>2, <1>3 DEF TagIsItsCommit
<1> QED  BY <1>4, <1>5, <1>6, <1>7 DEF RelInv

-----------------------------------------------------------------------------
(* One lemma for each action.                                              *)

USE DEF relVars

LEMMA MergeKeeps == RelInv /\ Merge => RelInv'
<1> SUFFICES ASSUME RelInv, Merge PROVE RelInv'
  OBVIOUS
<1>1. PICK v \in VersionAt(main)..MaxVersion :
          main' = Append(main, [Last(main) EXCEPT !.by = "human", !.version = v])
  BY DEF Merge
<1> DEFINE c == [Last(main) EXCEPT !.by = "human", !.version = v]
<1>2. /\ waiting' = main'
      /\ UNCHANGED <<tags, releases, published, token, job, ended, failures, reruns>>
  BY DEF Merge
<1>3. main \in Seq(Commits) /\ main # <<>> /\ waiting \in Seq(Commits)
  BY DEF RelInv, ReleaseTypeOK, Histories
<1>4. Last(main) \in Commits
  BY <1>3, LastInSeq
<1>5. v \in Versions /\ VersionAt(main) <= v
  BY <1>4, ReleaseBounds DEF VersionAt, Commits, Versions
<1>6. c \in Commits /\ c.version = v
  BY <1>4, <1>5 DEF Commits
<1> HIDE DEF c
<1>7. main' = Append(main, c)
  BY <1>1 DEF c
<1>8. /\ main' \in Seq(Commits) \ {<<>>} /\ Last(main') = c
  BY <1>3, <1>6, <1>7, LastOfAppend
<1>9. \A s \in Seq(Commits) : IsPrefix(s, main) => IsPrefix(s, main')
  BY <1>3, <1>6, <1>7, PrefixOfAppend
<1>10. ReleaseTypeOK'
  BY <1>2, <1>8, PrefixReflexive DEF RelInv, ReleaseTypeOK, Histories, NoJob
<1>11. JobInStep' /\ HeadIsVersion' /\ TagIsItsCommit'
  BY <1>2 DEF RelInv, JobInStep, HeadIsVersion, TagIsItsCommit, VersionAt, LogAt,
              NeedsBump, LatestTag, Above
<1>12. JobIsOnMain'
  <2>1. job.head \in Seq(Commits) /\ (job.step = "push_main" => Parent(job.head) \in Seq(Commits))
    BY LastInSeq DEF RelInv, ReleaseTypeOK, Parent
  <2> QED  BY <1>2, <1>9, <2>1 DEF RelInv, JobIsOnMain, VersionAt, Above, Parent
<1>13. MainIsAhead'
  <2>1. VersionAt(main)' = v
    BY <1>6, <1>8 DEF VersionAt
  <2>2. VersionAt(main) \in Nat /\ releases \subseteq Nat /\ v \in Nat /\ job.version \in Nat
    BY <1>4, <1>5 DEF VersionAt, Commits, Versions, RelInv, ReleaseTypeOK
  <2> QED  BY <1>2, <1>5, <1>8, <2>1, <2>2 DEF RelInv, MainIsAhead
<1>14. TagsAreOnMain'
  BY <1>2, <1>9 DEF RelInv, ReleaseTypeOK, TagsAreOnMain, Histories
<1>15. NothingLeftBehind'
  BY <1>2, <1>8 DEF NothingLeftBehind
<1> QED  BY <1>10, <1>11, <1>12, <1>13, <1>14, <1>15 DEF RelInv

LEMMA RerunKeeps == RelInv /\ Rerun => RelInv'
<1> SUFFICES ASSUME RelInv, Rerun PROVE RelInv'
  OBVIOUS
<1>1. PICK n \in People(main) : waiting' = SubSeq(main, 1, n)
  BY DEF Rerun
<1>2. /\ UNCHANGED <<main, tags, releases, published, token, job, ended, failures>>
      /\ reruns' \in 0..MaxReruns
  BY ReleaseBounds DEF Rerun, RelInv, ReleaseTypeOK
<1>3. main \in Seq(Commits) /\ n \in 1..Len(main)
  BY DEF RelInv, ReleaseTypeOK, Histories, People
<1>4. waiting' \in Seq(Commits) /\ waiting' # <<>> /\ IsPrefix(waiting', main)
  <2> DEFINE w == SubSeq(main, 1, n)
  <2>1. w \in Seq(Commits) /\ Len(w) = n /\ \A i \in 1..n : w[i] = main[i]
    BY <1>3
  <2> HIDE DEF w
  <2>2. IsPrefix(w, main) /\ w # <<>>
    BY <1>3, <2>1, PrefixIs
  <2> QED  BY <1>1, <2>1, <2>2 DEF w
<1>5. ReleaseTypeOK'
  BY <1>2, <1>4 DEF RelInv, ReleaseTypeOK
<1>6. JobInStep' /\ HeadIsVersion' /\ TagIsItsCommit' /\ JobIsOnMain' /\ TagsAreOnMain'
  BY <1>2 DEF RelInv, JobInStep, HeadIsVersion, TagIsItsCommit, JobIsOnMain, TagsAreOnMain,
              VersionAt, LogAt, NeedsBump, LatestTag, Above, Parent
<1>7. MainIsAhead' /\ NothingLeftBehind'
  BY <1>2, <1>4 DEF RelInv, MainIsAhead, NothingLeftBehind, VersionAt
<1> QED  BY <1>5, <1>6, <1>7 DEF RelInv

LEMMA StartRunKeeps == RelInv /\ StartRun => RelInv'
<1> SUFFICES ASSUME RelInv, StartRun PROVE RelInv'
  OBVIOUS
<1>1. /\ job' = [NoJob EXCEPT !.step = "resolve", !.head = waiting, !.seen = DOMAIN tags]
      /\ waiting' = <<>> /\ waiting # <<>>
      /\ UNCHANGED <<main, tags, releases, published, token, ended, failures, reruns>>
  BY DEF StartRun
<1>2. /\ job' \in [step : Steps, head : Seq(Commits), seen : SUBSET DOMAIN tags,
                   resolved : 0..MaxVersion, version : 0..MaxVersion]
      /\ job'.step = "resolve" /\ job'.head = waiting /\ job'.seen = DOMAIN tags
  <2>1. job' = [step |-> "resolve", head |-> waiting, seen |-> DOMAIN tags,
                resolved |-> 0, version |-> 0]
    BY <1>1 DEF NoJob
  <2> QED  BY <2>1, ReleaseBounds DEF Steps, RelInv, ReleaseTypeOK
<1>3. IsPrefix(<<>>, main)
  BY DEF IsPrefix, RelInv, ReleaseTypeOK, Histories
<1>4. ReleaseTypeOK'
  BY <1>1, <1>2, <1>3 DEF RelInv, ReleaseTypeOK
<1>5. JobInStep' /\ HeadIsVersion' /\ JobIsOnMain'
  BY <1>1, <1>2 DEF RelInv, ReleaseTypeOK, JobInStep, HeadIsVersion, JobIsOnMain
<1>6. TagIsItsCommit' /\ TagsAreOnMain'
  BY <1>1 DEF RelInv, TagIsItsCommit, TagsAreOnMain, VersionAt, LogAt
<1>7. MainIsAhead' /\ NothingLeftBehind'
  BY <1>1, <1>2, NoJobIsIdle DEF RelInv, MainIsAhead, NothingLeftBehind, VersionAt
<1> QED  BY <1>4, <1>5, <1>6, <1>7 DEF RelInv

LEMMA ResolveKeeps == RelInv /\ Resolve => RelInv'
<1> SUFFICES ASSUME RelInv, Resolve PROVE RelInv'
  OBVIOUS
<1>1. PICK v \in (IF NeedsBump THEN Resolvable \cup {0} ELSE {0}) :
          job' = [job EXCEPT !.step = "decide", !.resolved = v]
  BY DEF Resolve
<1>2. /\ job.step = "resolve"
      /\ UNCHANGED <<main, tags, releases, published, token, waiting, ended, failures, reruns>>
  BY DEF Resolve
<1>3. v \in 0..MaxVersion /\ (v # 0 => NeedsBump /\ Above(v))
  BY ReleaseBounds DEF Resolvable, Versions, Above
<1>4. /\ job' \in [step : Steps, head : Seq(Commits), seen : SUBSET DOMAIN tags,
                   resolved : 0..MaxVersion, version : 0..MaxVersion]
      /\ job'.step = "decide" /\ job'.head = job.head /\ job'.seen = job.seen
      /\ job'.resolved = v
  BY <1>1, <1>3 DEF Steps, RelInv, ReleaseTypeOK
<1>5. ReleaseTypeOK'
  BY <1>2, <1>4 DEF RelInv, ReleaseTypeOK
<1>6. JobInStep'
  BY <1>2, <1>3, <1>4 DEF RelInv, JobInStep, Above
<1>7. HeadIsVersion' /\ JobIsOnMain' /\ MainIsAhead'
  BY <1>2, <1>4 DEF RelInv, HeadIsVersion, JobIsOnMain, MainIsAhead, VersionAt
<1>8. TagIsItsCommit' /\ TagsAreOnMain' /\ NothingLeftBehind'
  BY <1>2, <1>4, NoJobIsIdle DEF RelInv, TagIsItsCommit, TagsAreOnMain, NothingLeftBehind,
                                 VersionAt, LogAt
<1> QED  BY <1>5, <1>6, <1>7, <1>8 DEF RelInv

LEMMA DecideReleaseKeeps == RelInv /\ DecideRelease => RelInv'
<1> SUFFICES ASSUME RelInv, DecideRelease PROVE RelInv'
  OBVIOUS
<1>1. /\ job.step = "decide" /\ job' = [job EXCEPT !.step = "prepare", !.version = NewVersion]
      /\ NewVersion # 0 /\ NewVersion \notin job.seen
      /\ UNCHANGED <<main, tags, releases, published, token, waiting, ended, failures, reruns>>
  BY DEF DecideRelease, NothingToRelease, TagExists
<1>2. Last(job.head) \in Commits
  BY <1>1, LastInSeq DEF RelInv, ReleaseTypeOK
<1>3. NewVersion \in Versions
  BY <1>1, <1>2 DEF NewVersion, VersionAt, Commits, Versions, RelInv, ReleaseTypeOK
<1>4. NewVersion \notin DOMAIN tags /\ (Above(NewVersion) \/ NewVersion = VersionAt(job.head))
  BY <1>1 DEF NewVersion, RelInv, JobInStep
<1>5. /\ job' \in [step : Steps, head : Seq(Commits), seen : SUBSET DOMAIN tags,
                   resolved : 0..MaxVersion, version : 0..MaxVersion]
      /\ job'.step = "prepare" /\ job'.head = job.head /\ job'.seen = job.seen
      /\ job'.version = NewVersion
  <2>1. NewVersion \in 0..MaxVersion
    BY <1>3, ReleaseBounds DEF Versions
  <2> QED  BY <1>1, <2>1 DEF Steps, RelInv, ReleaseTypeOK
<1>6. ReleaseTypeOK'
  BY <1>1, <1>5 DEF RelInv, ReleaseTypeOK
<1>7. JobInStep' /\ JobIsOnMain'
  BY <1>1, <1>3, <1>4, <1>5 DEF RelInv, JobInStep, JobIsOnMain, Above, VersionAt
<1>8. HeadIsVersion' /\ MainIsAhead'
  BY <1>1, <1>5 DEF RelInv, HeadIsVersion, MainIsAhead, VersionAt
<1>9. TagIsItsCommit' /\ TagsAreOnMain' /\ NothingLeftBehind'
  BY <1>1, <1>5, NoJobIsIdle DEF RelInv, TagIsItsCommit, TagsAreOnMain, NothingLeftBehind,
                                 VersionAt, LogAt
<1> QED  BY <1>6, <1>7, <1>8, <1>9 DEF RelInv

LEMMA PrepareKeeps == RelInv /\ Prepare => RelInv'
<1> SUFFICES ASSUME RelInv, Prepare PROVE RelInv'
  OBVIOUS
<1>1. /\ job.step = "prepare"
      /\ job' = [job EXCEPT !.step = "push_main", !.head = Append(job.head, ReleaseCommit)]
      /\ UNCHANGED <<main, tags, releases, published, token, waiting, ended, failures, reruns>>
  BY DEF Prepare
<1>2. job.head \in Seq(Commits) /\ job.head # <<>> /\ Last(job.head) \in Commits
  BY <1>1, LastInSeq DEF RelInv, ReleaseTypeOK
<1>3. job.version \in Versions
  BY <1>1 DEF RelInv, JobInStep
<1>4. Entry \in Entries /\ Entry.version = job.version
  BY <1>2, <1>3 DEF Entry, Entries, Subjects
<1>5. LogAt(job.head) \in Seq(Entries)
  BY <1>2 DEF LogAt, Commits
<1>6. /\ ReleaseCommit \in Commits /\ ReleaseCommit.version = job.version
      /\ Head(ReleaseCommit.log).version = job.version
  BY <1>3, <1>4, <1>5, Prepend DEF ReleaseCommit, Commits
<1> DEFINE h == Append(job.head, ReleaseCommit)
<1>7. /\ h \in Seq(Commits) \ {<<>>} /\ Last(h) = ReleaseCommit
      /\ Parent(h) = job.head
  <2>1. Len(h) - 1 = Len(job.head)
    BY <1>2, <1>6, LastOfAppend
  <2> QED  BY <1>2, <1>6, <2>1, LastOfAppend DEF Parent
<1> HIDE DEF h
<1>8. job' = [job EXCEPT !.step = "push_main", !.head = h]
  BY <1>1 DEF h
<1>9. /\ job' \in [step : Steps, head : Seq(Commits), seen : SUBSET DOMAIN tags,
                   resolved : 0..MaxVersion, version : 0..MaxVersion]
      /\ job'.step = "push_main" /\ job'.head = h /\ job'.seen = job.seen
      /\ job'.version = job.version
  BY <1>7, <1>8 DEF Steps, RelInv, ReleaseTypeOK
<1>10. ReleaseTypeOK'
  BY <1>1, <1>7, <1>9 DEF RelInv, ReleaseTypeOK
<1>11. JobInStep' /\ MainIsAhead'
  BY <1>1, <1>9 DEF RelInv, JobInStep, MainIsAhead, VersionAt
<1>12. HeadIsVersion'
  BY <1>6, <1>7, <1>9 DEF HeadIsVersion, VersionAt, LogAt
<1>13. JobIsOnMain'
  BY <1>1, <1>2, <1>7, <1>9 DEF RelInv, JobIsOnMain, Above, VersionAt
<1>14. TagIsItsCommit' /\ TagsAreOnMain' /\ NothingLeftBehind'
  BY <1>1, <1>9, NoJobIsIdle DEF RelInv, TagIsItsCommit, TagsAreOnMain, NothingLeftBehind,
                                 VersionAt, LogAt
<1> QED  BY <1>10, <1>11, <1>12, <1>13, <1>14 DEF RelInv

(* A push that is taken adds one commit to main.                           *)
LEMMA PushAddsOne ==
    ASSUME RelInv, PushMain
    PROVE  /\ main = Parent(job.head) /\ Last(job.head) \in Commits
           /\ job.head = Append(main, Last(job.head))
<1>1. job.step = "push_main" /\ IsStrictPrefix(main, job.head)
  BY DEF PushMain
<1>2. /\ job.head \in Seq(Commits) /\ main \in Seq(Commits)
      /\ Last(job.head) \in Commits /\ Parent(job.head) \in Seq(Commits)
      /\ job.head = Append(Parent(job.head), Last(job.head))
  BY <1>1, LastInSeq DEF RelInv, ReleaseTypeOK, Parent, Histories
<1>3. IsPrefix(main, Parent(job.head))
  BY <1>1, <1>2, StrictPrefixOfAppend
<1>4. IsPrefix(Parent(job.head), main)
  BY <1>1 DEF RelInv, JobIsOnMain
<1> QED  BY <1>2, <1>3, <1>4, PrefixAntisymmetric

LEMMA PushMainKeeps == RelInv /\ PushMain => RelInv'
<1> SUFFICES ASSUME RelInv, PushMain PROVE RelInv'
  OBVIOUS
<1>1. /\ job.step = "push_main" /\ IsStrictPrefix(main, job.head)
      /\ main' = job.head /\ job' = [job EXCEPT !.step = "push_tag"]
      /\ UNCHANGED <<tags, releases, published, token, waiting, ended, failures, reruns>>
  BY DEF PushMain
<1>2. job.head \in Seq(Commits) /\ job.head # <<>> /\ main \in Seq(Commits)
  BY <1>1 DEF RelInv, ReleaseTypeOK, Histories
<1>3. /\ main = Parent(job.head) /\ Last(job.head) \in Commits
      /\ job.head = Append(main, Last(job.head))
  BY PushAddsOne
<1>4. \A s \in Seq(Commits) : IsPrefix(s, main) => IsPrefix(s, job.head)
  BY <1>2, <1>3, PrefixOfAppend
<1>5. job.version \in Versions /\ job.version \notin DOMAIN tags /\ VersionAt(job.head) = job.version
  BY <1>1 DEF RelInv, JobInStep, HeadIsVersion
<1>6. Above(job.version)
  <2>1. CASE job.version = VersionAt(main)
    <3>1. \A w \in releases : w <= job.version /\ w # job.version
      BY <1>5, <2>1 DEF RelInv, MainIsAhead, TagIsItsCommit
    <3> QED  BY <1>5, <3>1, ReleaseBounds DEF Above, Versions, RelInv, ReleaseTypeOK
  <2> QED  BY <1>1, <1>3, <2>1 DEF RelInv, JobIsOnMain
<1>7. /\ job' \in [step : Steps, head : Seq(Commits), seen : SUBSET DOMAIN tags,
                   resolved : 0..MaxVersion, version : 0..MaxVersion]
      /\ job'.step = "push_tag" /\ job'.head = job.head /\ job'.seen = job.seen
      /\ job'.version = job.version
  BY <1>1 DEF Steps, RelInv, ReleaseTypeOK
<1>8. ReleaseTypeOK'
  BY <1>1, <1>2, <1>4, <1>7 DEF RelInv, ReleaseTypeOK, Histories
<1>9. JobInStep' /\ HeadIsVersion'
  BY <1>1, <1>5, <1>6, <1>7 DEF RelInv, JobInStep, HeadIsVersion, Above, VersionAt, LogAt
<1>10. JobIsOnMain'
  BY <1>1, <1>2, <1>7, PrefixReflexive DEF JobIsOnMain
<1>11. MainIsAhead'
  <2>1. \A w \in releases : w <= job.version
    BY <1>5, <1>6, ReleaseBounds DEF Above, Versions, RelInv, ReleaseTypeOK
  <2>2. job.version <= job.version
    BY <1>5, ReleaseBounds DEF Versions
  <2> QED  BY <1>1, <1>5, <1>7, <2>1, <2>2 DEF MainIsAhead, VersionAt
<1>12. TagsAreOnMain'
  BY <1>1, <1>4 DEF RelInv, ReleaseTypeOK, TagsAreOnMain, Histories
<1>13. TagIsItsCommit'
  BY <1>1 DEF RelInv, TagIsItsCommit, VersionAt, LogAt
<1>14. NothingLeftBehind'
  BY <1>7, NoJobIsIdle DEF NothingLeftBehind
<1> QED  BY <1>8, <1>9, <1>10, <1>11, <1>12, <1>13, <1>14 DEF RelInv

LEMMA PushTagKeeps == RelInv /\ PushTag => RelInv'
<1> SUFFICES ASSUME RelInv, PushTag PROVE RelInv'
  OBVIOUS
<1>1. /\ job.step = "push_tag" /\ tags' = With(tags, job.version, job.head)
      /\ job' = [job EXCEPT !.step = "create_release"]
      /\ UNCHANGED <<main, releases, published, token, waiting, ended, failures, reruns>>
  BY DEF PushTag
<1>2. /\ job.version \in Versions /\ job.version \notin DOMAIN tags
      /\ job.head \in Histories /\ IsPrefix(job.head, main)
  BY <1>1 DEF RelInv, ReleaseTypeOK, JobInStep, JobIsOnMain, Histories
<1>3. /\ DOMAIN tags' = DOMAIN tags \cup {job.version} /\ tags'[job.version] = job.head
      /\ \A v \in DOMAIN tags : tags'[v] = tags[v]
  BY <1>1, <1>2 DEF With
<1>4. /\ job' \in [step : Steps, head : Seq(Commits), seen : SUBSET DOMAIN tags,
                   resolved : 0..MaxVersion, version : 0..MaxVersion]
      /\ job'.step = "create_release" /\ job'.head = job.head /\ job'.seen = job.seen
      /\ job'.version = job.version
  BY <1>1 DEF Steps, RelInv, ReleaseTypeOK
<1>5. ReleaseTypeOK'
  BY <1>1, <1>2, <1>3, <1>4 DEF RelInv, ReleaseTypeOK
<1>6. JobInStep' /\ HeadIsVersion' /\ JobIsOnMain'
  BY <1>1, <1>2, <1>3, <1>4 DEF RelInv, JobInStep, HeadIsVersion, JobIsOnMain, VersionAt, LogAt
<1>7. MainIsAhead'
  BY <1>1, <1>4 DEF RelInv, MainIsAhead, VersionAt
<1>8. TagsAreOnMain'
  BY <1>1, <1>2, <1>3 DEF RelInv, TagsAreOnMain
<1>9. TagIsItsCommit'
  <2>1. VersionAt(job.head) = job.version /\ Head(LogAt(job.head)).version = job.version
    BY <1>1 DEF RelInv, HeadIsVersion
  <2> QED  BY <1>1, <1>2, <1>3, <2>1 DEF RelInv, TagIsItsCommit, VersionAt, LogAt
<1>10. NothingLeftBehind'
  BY <1>4, NoJobIsIdle DEF NothingLeftBehind
<1> QED  BY <1>5, <1>6, <1>7, <1>8, <1>9, <1>10 DEF RelInv

LEMMA CreateReleaseKeeps == RelInv /\ CreateRelease => RelInv'
<1> SUFFICES ASSUME RelInv, CreateRelease PROVE RelInv'
  OBVIOUS
<1>1. /\ job.step = "create_release" /\ releases' = releases \cup {job.version}
      /\ job' = [job EXCEPT !.step = "publish"]
      /\ UNCHANGED <<main, tags, published, token, waiting, ended, failures, reruns>>
  BY DEF CreateRelease
<1>2. /\ job' \in [step : Steps, head : Seq(Commits), seen : SUBSET DOMAIN tags,
                   resolved : 0..MaxVersion, version : 0..MaxVersion]
      /\ job'.step = "publish" /\ job'.head = job.head /\ job'.seen = job.seen
      /\ job'.version = job.version
  BY <1>1 DEF Steps, RelInv, ReleaseTypeOK
<1>3. job.version \in Versions /\ job.version \in DOMAIN tags /\ tags[job.version] = job.head
  BY <1>1 DEF RelInv, JobInStep
<1>4. ReleaseTypeOK'
  BY <1>1, <1>2, <1>3 DEF RelInv, ReleaseTypeOK
<1>5. JobInStep' /\ HeadIsVersion' /\ JobIsOnMain'
  BY <1>1, <1>2, <1>3 DEF RelInv, JobInStep, HeadIsVersion, JobIsOnMain, VersionAt, LogAt
<1>6. MainIsAhead'
  BY <1>1, <1>2 DEF RelInv, MainIsAhead, VersionAt
<1>7. TagsAreOnMain' /\ TagIsItsCommit'
  BY <1>1, <1>3 DEF RelInv, TagsAreOnMain, TagIsItsCommit, VersionAt, LogAt
<1>8. NothingLeftBehind'
  BY <1>2, NoJobIsIdle DEF NothingLeftBehind
<1> QED  BY <1>4, <1>5, <1>6, <1>7, <1>8 DEF RelInv

LEMMA PublishKeeps == RelInv /\ Publish => RelInv'
<1> SUFFICES ASSUME RelInv, Publish PROVE RelInv'
  OBVIOUS
<1>1. /\ job.step = "publish" /\ job' = NoJob /\ ended' = "released"
      /\ published' = IF token THEN With(published, job.version, job.head) ELSE published
      /\ UNCHANGED <<main, tags, releases, token, waiting, failures, reruns>>
  BY DEF Publish, Ends
<1>2. /\ job.version \in Versions /\ job.version \in DOMAIN tags /\ job.version \in releases
      /\ tags[job.version] = job.head
  BY <1>1 DEF RelInv, JobInStep
<1>3. /\ DOMAIN published' \subseteq DOMAIN published \cup {job.version}
      /\ \A v \in DOMAIN published' :
            \/ v = job.version /\ published'[v] = job.head
            \/ v \in DOMAIN published /\ published'[v] = published[v]
  <2>1. CASE token
    <3>1. published' = [w \in DOMAIN published \cup {job.version} |->
                          IF w = job.version THEN job.head ELSE published[w]]
      BY <1>1, <2>1 DEF With
    <3> QED  BY <3>1
  <2>2. CASE ~token
    BY <1>1, <2>2
  <2> QED  BY <2>1, <2>2
<1>4. ReleaseTypeOK'
  BY <1>1, <1>2, <1>3, NoJobIsIdle DEF RelInv, ReleaseTypeOK, Endings
<1>5. JobInStep' /\ HeadIsVersion' /\ JobIsOnMain'
  BY <1>1, NoJobIsIdle DEF JobInStep, HeadIsVersion, JobIsOnMain
<1>6. MainIsAhead'
  BY <1>1, NoJobIsIdle DEF RelInv, MainIsAhead, VersionAt
<1>7. TagsAreOnMain'
  BY <1>1 DEF RelInv, TagsAreOnMain
<1>8. TagIsItsCommit'
  <2>1. \A v \in DOMAIN published' : v \in releases /\ published'[v] = tags[v]
    BY <1>1, <1>2, <1>3 DEF RelInv, TagIsItsCommit
  <2> QED  BY <1>1, <2>1 DEF RelInv, TagIsItsCommit, VersionAt, LogAt
<1>9. NothingLeftBehind'
  BY <1>1, <1>2 DEF RelInv, MainIsAhead, NothingLeftBehind
<1> QED  BY <1>4, <1>5, <1>6, <1>7, <1>8, <1>9 DEF RelInv

-----------------------------------------------------------------------------
LEMMA NextKeeps == RelInv /\ [RelNext]_relVars => RelInv'
<1> SUFFICES ASSUME RelInv, [RelNext]_relVars PROVE RelInv'
  OBVIOUS
<1>1. CASE DecideNothing
  <2>1. failures' \in 0..MaxFailures
    BY <1>1 DEF DecideNothing, RelInv, ReleaseTypeOK
  <2> QED  BY <1>1, <2>1, JobEnds DEF DecideNothing
<1>2. CASE PushRejected
  <2>1. failures' \in 0..MaxFailures
    BY <1>2 DEF PushRejected, RelInv, ReleaseTypeOK
  <2> QED  BY <1>2, <2>1, JobEnds DEF PushRejected, Ends
<1>3. CASE StepFails
  <2>1. failures' \in 0..MaxFailures
    BY <1>3, ReleaseBounds DEF StepFails, RelInv, ReleaseTypeOK
  <2> QED  BY <1>3, <2>1, JobEnds DEF StepFails, Ends
<1>4. CASE UNCHANGED relVars
  BY <1>4 DEF RelInv, ReleaseTypeOK, JobInStep, JobIsOnMain, HeadIsVersion, MainIsAhead,
              TagsAreOnMain, TagIsItsCommit, NothingLeftBehind, VersionAt, LogAt,
              NeedsBump, LatestTag, Above, Parent
<1> QED
  BY <1>1, <1>2, <1>3, <1>4, MergeKeeps, RerunKeeps, StartRunKeeps, ResolveKeeps,
     DecideReleaseKeeps, PrepareKeeps, PushMainKeeps, PushTagKeeps, CreateReleaseKeeps,
     PublishKeeps DEF RelNext

LEMMA RelInvHolds == RelSpec => []RelInv
<1>1. RelInit => RelInv
  BY InitRelInv
<1>2. RelInv /\ [RelNext]_relVars => RelInv'
  BY NextKeeps
<1> QED  BY <1>1, <1>2, PTL DEF RelSpec

(* The state of the pipeline has its type in every reachable state: a      *)
(* version is never 0 or above the bound, and no commit is lost.           *)
THEOREM ReleaseTypeCorrect == RelSpec => []ReleaseTypeOK
<1>1. RelInv => ReleaseTypeOK
  BY DEF RelInv
<1> QED  BY <1>1, RelInvHolds, PTL

(* Every tag names a commit of main (release.yml pushes main first).       *)
THEOREM TagsStayOnMain == RelSpec => []TagsAreOnMain
<1>1. RelInv => TagsAreOnMain
  BY DEF RelInv
<1> QED  BY <1>1, RelInvHolds, PTL

(* The version, the changelog and the package of a tag are the tag's.      *)
THEOREM TagsCarryTheirVersion == RelSpec => []TagIsItsCommit
<1>1. RelInv => TagIsItsCommit
  BY DEF RelInv
<1> QED  BY <1>1, RelInvHolds, PTL

(* After a release with no run waiting, all that was merged is in a tag.   *)
THEOREM EverythingIsTagged == RelSpec => []NothingLeftBehind
<1>1. RelInv => NothingLeftBehind
  BY DEF RelInv
<1> QED  BY <1>1, RelInvHolds, PTL

(* Tags never move, and a new one is above every release.                  *)
THEOREM TagsOnlyGrow == RelSpec => TagsGrow
<1> DEFINE Grows == /\ \A v \in DOMAIN tags : v \in DOMAIN tags' /\ tags'[v] = tags[v]
                    /\ \A v \in DOMAIN tags' \ DOMAIN tags : \A w \in releases : v > w
<1>1. RelInv /\ [RelNext]_relVars => Grows \/ UNCHANGED relVars
  <2> SUFFICES ASSUME RelInv, RelNext PROVE Grows
    OBVIOUS
  <2>1. CASE PushTag
    <3>1. Above(job.version)
      BY <2>1 DEF PushTag, RelInv, JobInStep
    <3> QED  BY <2>1, <3>1 DEF PushTag, With, Above
  <2>2. CASE UNCHANGED tags
    BY <2>2
  <2> QED
    BY <2>1, <2>2 DEF RelNext, Merge, Rerun, StartRun, Resolve, DecideNothing, DecideRelease,
       Prepare, PushMain, PushRejected, CreateRelease, Publish, StepFails
<1> QED  BY <1>1, RelInvHolds, PTL DEF RelSpec, TagsGrow

-----------------------------------------------------------------------------
(* The changelog.  A commit keeps the entries of those before it, and what *)
(* the release commit adds is what the newest tag does not have; so if the *)
(* newest tag lists what it has, the release commit does, provided that    *)
(* the tag is in its history, which is so when its push is taken.          *)

Listed(h) == UNION {e.changes : e \in Range(LogAt(h))}

Covered(h) == People(h) \subseteq Listed(h)

LogsGrow(h) == \A i, j \in DOMAIN h : i <= j => Range(h[i].log) \subseteq Range(h[j].log)

LogInv ==
    /\ LogsGrow(main)
    /\ job.step = "push_main" =>
          /\ LogsGrow(job.head)
          /\ (\A v \in DOMAIN tags : IsPrefix(tags[v], Parent(job.head))) => Covered(job.head)
    /\ job.step = "push_tag" => Covered(job.head)
    /\ \A v \in DOMAIN tags : Covered(tags[v])

LEMMA LogsGrowOn ==
    ASSUME NEW h \in Seq(Commits), h # <<>>, NEW c \in Commits,
           LogsGrow(h), Range(LogAt(h)) \subseteq Range(c.log)
    PROVE  LogsGrow(Append(h, c))
<1> DEFINE g == Append(h, c)
<1>1. /\ DOMAIN g = 1..Len(h) + 1 /\ DOMAIN h = 1..Len(h) /\ Len(h) \in Nat \ {0}
      /\ g[Len(h) + 1] = c /\ \A i \in 1..Len(h) : g[i] = h[i]
  OBVIOUS
<1> HIDE DEF g
<1>2. ASSUME NEW i \in DOMAIN g, NEW j \in DOMAIN g, i <= j
      PROVE  Range(g[i].log) \subseteq Range(g[j].log)
  <2>1. CASE j <= Len(h)
    <3>1. i \in DOMAIN h /\ j \in DOMAIN h /\ g[i] = h[i] /\ g[j] = h[j]
      BY <1>1, <1>2, <2>1
    <3> QED  BY <1>2, <3>1 DEF LogsGrow
  <2>2. CASE i <= Len(h) /\ j = Len(h) + 1
    <3>1. Range(h[i].log) \subseteq Range(h[Len(h)].log)
      BY <1>1, <1>2, <2>2 DEF LogsGrow
    <3> QED  BY <1>1, <1>2, <2>2, <3>1 DEF LogAt, Last
  <2>3. CASE i = Len(h) + 1 /\ j = Len(h) + 1
    BY <2>3
  <2> QED  BY <1>1, <1>2, <2>1, <2>2, <2>3
<1>3. LogsGrow(g)
  BY <1>2 DEF LogsGrow
<1> QED  BY <1>3 DEF g

LEMMA LogsGrowIn ==
    ASSUME NEW h \in Seq(Commits), NEW g \in Seq(Commits), IsPrefix(h, g), LogsGrow(g)
    PROVE  LogsGrow(h)
<1>1. /\ DOMAIN h = 1..Len(h) /\ DOMAIN g = 1..Len(g) /\ Len(h) <= Len(g)
      /\ \A i \in 1..Len(h) : h[i] = g[i]
  BY PrefixIs
<1> QED  BY <1>1 DEF LogsGrow

LEMMA PrependRange ==
    ASSUME NEW S, NEW e \in S, NEW q \in Seq(S)
    PROVE  e \in Range(<<e>> \o q) /\ Range(q) \subseteq Range(<<e>> \o q)
<1> DEFINE r == <<e>> \o q
<1>1. /\ DOMAIN r = 1..Len(q) + 1 /\ DOMAIN q = 1..Len(q) /\ Len(q) \in Nat
      /\ r[1] = e /\ \A i \in 1..Len(q) : r[i + 1] = q[i]
  OBVIOUS
<1> HIDE DEF r
<1>2. e \in Range(r)
  BY <1>1 DEF Range
<1>3. ASSUME NEW i \in DOMAIN q PROVE q[i] \in Range(r)
  <2>1. i + 1 \in DOMAIN r /\ r[i + 1] = q[i]
    BY <1>1
  <2> QED  BY <2>1 DEF Range
<1>4. Range(q) \subseteq Range(r)
  BY <1>3 DEF Range
<1> QED  BY <1>2, <1>4 DEF r

(* A change that a prefix of h lists, h lists.                             *)
LEMMA ListedStays ==
    ASSUME NEW h \in Seq(Commits), h # <<>>, NEW g \in Seq(Commits), IsPrefix(h, g), LogsGrow(g)
    PROVE  /\ Listed(h) \subseteq Listed(g)
           /\ People(h) = People(g) \cap DOMAIN h
<1>1. /\ DOMAIN h = 1..Len(h) /\ DOMAIN g = 1..Len(g) /\ Len(h) <= Len(g)
      /\ Len(h) \in Nat \ {0} /\ Len(g) \in Nat
      /\ \A i \in 1..Len(h) : h[i] = g[i]
  BY PrefixIs
<1>2. Range(LogAt(h)) \subseteq Range(LogAt(g))
  <2>1. Len(h) \in DOMAIN g /\ Len(g) \in DOMAIN g /\ h[Len(h)] = g[Len(h)]
    BY <1>1
  <2> QED  BY <1>1, <2>1 DEF LogsGrow, LogAt, Last
<1>3. Listed(h) \subseteq Listed(g)
  BY <1>2 DEF Listed
<1>4. People(h) = People(g) \cap DOMAIN h
  BY <1>1 DEF People
<1> QED  BY <1>3, <1>4

LEMMA LatestIsATag ==
    ASSUME RelInv, job.seen # {}
    PROVE  LatestTag \in DOMAIN tags
<1>1. job.seen \subseteq Versions /\ job.seen \subseteq DOMAIN tags
  BY DEF RelInv, ReleaseTypeOK
<1>2. IsFiniteSet(0..MaxVersion) /\ job.seen \cup {0} \subseteq 0..MaxVersion
  <2>1. 0 \in Int /\ MaxVersion \in Int /\ MaxVersion \in Nat
    BY ReleaseBounds
  <2> QED  BY <1>1, <2>1, FS_Interval DEF Versions
<1>3. IsFiniteSet(job.seen \cup {0}) /\ job.seen \cup {0} \in SUBSET Nat
  BY <1>2, FS_Subset, ReleaseBounds
<1>4. LatestTag \in job.seen \cup {0} /\ \A w \in job.seen : w <= LatestTag
  BY <1>3, MaxIsGreatest DEF LatestTag
<1>5. LatestTag # 0
  BY <1>1, <1>4 DEF Versions
<1> QED  BY <1>1, <1>4, <1>5

LEMMA InitLogInv == RelInit => LogInv
<1> SUFFICES ASSUME RelInit PROVE LogInv
  OBVIOUS
<1>1. job.step = "idle"
  BY DEF RelInit, RelStart, NoJob
<1>2. CASE main = <<FirstCommit>> /\ tags = << >>
  <2>1. DOMAIN tags = {} /\ DOMAIN main = {1}
    BY <1>2
  <2> QED  BY <1>1, <2>1 DEF LogInv, LogsGrow
<1>3. CASE main = <<FirstCommit, FirstRelease>> /\ tags = [v \in {1} |-> main]
  <2>1. DOMAIN main = {1, 2} /\ main[1] = FirstCommit /\ main[2] = FirstRelease /\ Len(main) = 2
    BY <1>3
  <2>2. Range(FirstCommit.log) = {}
    BY DEF FirstCommit, Range
  <2>3. LogsGrow(main)
    BY <2>1, <2>2 DEF LogsGrow
  <2>4. People(main) = {1}
    BY <2>1 DEF People, FirstCommit, FirstRelease
  <2>5. [version |-> 1, changes |-> {1}] \in Range(LogAt(main))
    BY <2>1 DEF LogAt, Last, FirstRelease, Range
  <2>6. Covered(main)
    BY <2>4, <2>5 DEF Covered, Listed
  <2> QED  BY <1>1, <1>3, <2>3, <2>6 DEF LogInv
<1> QED  BY <1>2, <1>3 DEF RelInit

(* The release commit lists everything, if its history has every tag.      *)
LEMMA PrepareLists ==
    ASSUME RelInv, LogInv, Prepare
    PROVE  /\ LogsGrow(job'.head)
           /\ (\A v \in DOMAIN tags : IsPrefix(tags[v], job.head)) => Covered(job'.head)
<1> DEFINE h == job.head
           g == Append(job.head, ReleaseCommit)
<1>1. job'.head = g /\ job.step = "prepare"
  BY DEF Prepare, RelInv, ReleaseTypeOK
<1>2. /\ h \in Seq(Commits) /\ h # <<>> /\ Last(h) \in Commits /\ main \in Seq(Commits)
      /\ IsPrefix(h, main)
  BY <1>1, LastInSeq DEF RelInv, ReleaseTypeOK, JobIsOnMain, Histories
<1>3. Entry \in Entries /\ LogAt(h) \in Seq(Entries)
  BY <1>1, <1>2 DEF Entry, Entries, Subjects, LogAt, Commits, RelInv, JobInStep
<1>4. ReleaseCommit \in Commits /\ ReleaseCommit.by = "bot" /\ ReleaseCommit.log = <<Entry>> \o LogAt(h)
  BY <1>1, <1>3, Prepend DEF ReleaseCommit, Commits, RelInv, JobInStep
<1>5. Entry \in Range(ReleaseCommit.log) /\ Range(LogAt(h)) \subseteq Range(ReleaseCommit.log)
  BY <1>3, <1>4, PrependRange
<1>6. LogsGrow(h)
  BY <1>2, LogsGrowIn DEF LogInv
<1>7. LogsGrow(g)
  BY <1>2, <1>4, <1>5, <1>6, LogsGrowOn
<1>8. Entry.changes \subseteq Listed(g) /\ Listed(h) \subseteq Listed(g)
  <2>1. LogAt(g) = ReleaseCommit.log
    BY <1>2, <1>4, LastOfAppend DEF LogAt
  <2> QED  BY <1>5, <2>1 DEF Listed
<1>9. People(g) = People(h)
  <2>1. /\ DOMAIN g = 1..Len(h) + 1 /\ DOMAIN h = 1..Len(h) /\ Len(h) \in Nat
        /\ g[Len(h) + 1] = ReleaseCommit /\ \A i \in 1..Len(h) : g[i] = h[i]
    BY <1>2, <1>4
  <2> QED  BY <1>4, <2>1 DEF People
<1>10. ASSUME \A v \in DOMAIN tags : IsPrefix(tags[v], h), NEW i \in People(h)
       PROVE  i \in Listed(g)
  <2>1. i \in DOMAIN h
    BY DEF People
  <2>2. CASE i \in Subjects
    BY <1>8, <2>2 DEF Entry
  <2>3. CASE i \notin Subjects
    <3>1. job.seen # {} /\ i \in DOMAIN tags[LatestTag]
      BY <2>1, <2>3 DEF Subjects
    <3>2. LatestTag \in DOMAIN tags
      BY <3>1, LatestIsATag
    <3> DEFINE t == tags[LatestTag]
    <3>3. t \in Seq(Commits) /\ t # <<>> /\ IsPrefix(t, h) /\ Covered(t)
      BY <1>10, <3>2 DEF RelInv, ReleaseTypeOK, Histories, LogInv
    <3> HIDE DEF t
    <3>4. i \in People(t) /\ Listed(t) \subseteq Listed(h)
      BY <1>2, <1>6, <1>10, <3>1, <3>3, ListedStays DEF t
    <3> QED  BY <1>8, <3>3, <3>4 DEF Covered
  <2> QED  BY <2>2, <2>3
<1> QED  BY <1>1, <1>7, <1>9, <1>10 DEF Covered

LEMMA LogInvKept ==
    ASSUME RelInv, LogInv, [RelNext]_relVars
    PROVE  LogInv'
<1>1. CASE Merge
  <2>1. PICK v \in VersionAt(main)..MaxVersion :
            main' = Append(main, [Last(main) EXCEPT !.by = "human", !.version = v])
    BY <1>1 DEF Merge
  <2> DEFINE c == [Last(main) EXCEPT !.by = "human", !.version = v]
  <2>2. main \in Seq(Commits) /\ main # <<>> /\ Last(main) \in Commits
    BY LastInSeq DEF RelInv, ReleaseTypeOK, Histories
  <2>3. v \in Versions
    BY <2>2, ReleaseBounds DEF VersionAt, Commits, Versions
  <2>4. c \in Commits /\ Range(c.log) = Range(LogAt(main))
    BY <2>2, <2>3 DEF Commits, LogAt
  <2> HIDE DEF c
  <2>5. LogsGrow(main')
    BY <2>1, <2>2, <2>4, LogsGrowOn DEF LogInv, c
  <2> QED  BY <1>1, <2>5 DEF Merge, LogInv, LogsGrow, Covered, Listed, LogAt, People, Parent
<1>2. CASE Prepare
  <2>1. /\ job'.step = "push_main" /\ Parent(job'.head) = job.head
        /\ UNCHANGED <<main, tags>>
    <3>1. /\ job'.step = "push_main" /\ job'.head = Append(job.head, ReleaseCommit)
          /\ UNCHANGED <<main, tags>> /\ job.head \in Seq(Commits)
      BY <1>2 DEF Prepare, RelInv, ReleaseTypeOK
    <3>2. Parent(Append(job.head, ReleaseCommit)) = job.head
      BY <3>1 DEF Parent
    <3> QED  BY <3>1, <3>2
  <2>2. LogsGrow(job'.head) /\ ((\A v \in DOMAIN tags : IsPrefix(tags[v], job.head)) => Covered(job'.head))
    BY <1>2, PrepareLists
  <2>3. LogsGrow(main) /\ \A v \in DOMAIN tags : Covered(tags[v])
    BY DEF LogInv
  <2> QED  BY <2>1, <2>2, <2>3 DEF LogInv
<1>3. CASE PushMain
  <2>1. /\ job.step = "push_main" /\ main' = job.head /\ job'.step = "push_tag"
        /\ job'.head = job.head /\ UNCHANGED tags
    BY <1>3 DEF PushMain, RelInv, ReleaseTypeOK
  <2>2. Covered(job.head)
    BY <1>3, <2>1, PushAddsOne DEF LogInv, RelInv, TagsAreOnMain
  <2> QED  BY <2>1, <2>2 DEF LogInv, LogsGrow, Covered, Listed, LogAt, People, Parent
<1>4. CASE PushTag
  <2>1. /\ job'.step = "create_release" /\ UNCHANGED main
        /\ \A v \in DOMAIN tags' : tags'[v] = job.head \/ (v \in DOMAIN tags /\ tags'[v] = tags[v])
    <3>1. tags' = [w \in DOMAIN tags \cup {job.version} |->
                      IF w = job.version THEN job.head ELSE tags[w]]
      BY <1>4 DEF PushTag, With
    <3>2. job'.step = "create_release" /\ UNCHANGED main
      BY <1>4 DEF PushTag, RelInv, ReleaseTypeOK
    <3>3. ASSUME NEW v \in DOMAIN tags'
          PROVE  tags'[v] = job.head \/ (v \in DOMAIN tags /\ tags'[v] = tags[v])
      BY <3>1
    <3> QED  BY <3>2, <3>3
  <2>2. Covered(job.head)
    BY <1>4 DEF PushTag, LogInv
  <2> QED  BY <2>1, <2>2 DEF LogInv, LogsGrow, Covered, Listed, LogAt, People, Parent
<1>5. CASE UNCHANGED <<main, tags>> /\ (job' = job \/ job'.step \notin {"push_main", "push_tag"})
  BY <1>5 DEF LogInv, LogsGrow, Covered, Listed, LogAt, People, Parent
<1>6. ASSUME Rerun \/ StartRun \/ Resolve \/ DecideNothing \/ DecideRelease \/ PushRejected
             \/ CreateRelease \/ Publish \/ StepFails \/ UNCHANGED relVars
      PROVE  UNCHANGED <<main, tags>> /\ (job' = job \/ job'.step \notin {"push_main", "push_tag"})
  BY <1>6, NoJobIsIdle DEF Rerun, StartRun, Resolve, DecideNothing, DecideRelease,
     PushRejected, CreateRelease, Publish, StepFails, Ends, RelInv, ReleaseTypeOK, NoJob
<1> QED  BY <1>1, <1>2, <1>3, <1>4, <1>5, <1>6 DEF RelNext

(* The changelog of a tag lists every change merged up to it.              *)
THEOREM ChangelogsAreComplete == RelSpec => []ChangelogIsComplete
<1>1. RelInit => RelInv /\ LogInv
  BY InitRelInv, InitLogInv
<1>2. RelInv /\ LogInv /\ [RelNext]_relVars => RelInv' /\ LogInv'
  BY NextKeeps, LogInvKept
<1>3. LogInv => ChangelogIsComplete
  BY DEF LogInv, ChangelogIsComplete, Covered, Listed
<1> QED  BY <1>1, <1>2, <1>3, PTL DEF RelSpec
=============================================================================
