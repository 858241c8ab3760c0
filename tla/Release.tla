-------------------------------- MODULE Release --------------------------------
(***************************************************************************)
(* The release job of .github/workflows/release.yml with the scripts it    *)
(* runs: a push to main starts a run, which decides a version, commits the *)
(* bump and the changelog entry, pushes main, pushes the tag, creates the  *)
(* GitHub release and publishes to PyPI.  Every step can fail, the effects *)
(* of the steps before it stay, and a run can be started again for the     *)
(* commit it was first started for, while people go on merging.            *)
(*                                                                         *)
(* A commit is the history that leads to it: a sequence, so that a branch  *)
(* contains a commit iff the commit is one of its prefixes.  A version is  *)
(* a number, in the order of `git tag --sort=-v:refname`; 0 is no version. *)
(***************************************************************************)
EXTENDS Integers, Sequences, SequencesExt, FiniteSets, FiniteSetsExt, Functions

CONSTANTS MaxMerges, MaxVersion, MaxFailures, MaxReruns

ASSUME ReleaseBounds ==
    MaxVersion \in Nat \ {0} /\ {MaxMerges, MaxFailures, MaxReruns} \subseteq Nat

VARIABLES
    main,       \* the branch main on GitHub
    tags,       \* the tags on GitHub: version -> the commit it names
    releases,   \* the versions that have a GitHub release
    published,  \* what PyPI has: version -> the commit it was built from
    token,      \* whether PYPI_API_TOKEN is set
    waiting,    \* the commit of the run that waits in the group, <<>> for none
    job,        \* the run in progress
    ended,      \* how the last run ended
    failures, reruns

relVars == <<main, tags, releases, published, token, waiting, job, ended, failures, reruns>>

Versions == 1..MaxVersion
Steps == {"idle", "resolve", "decide", "prepare", "push_main", "push_tag",
          "create_release", "publish"}
Endings == {"none", "released", "nothing", "failed"}

NoJob == [step |-> "idle", head |-> <<>>, seen |-> {}, resolved |-> 0, version |-> 0]

\* pyproject.toml and CHANGELOG.md of a commit.
VersionAt(head) == Last(head).version
LogAt(head) == Last(head).log

People(history) == {i \in DOMAIN history : history[i].by = "human"}

With(f, v, commit) == [w \in DOMAIN f \cup {v} |-> IF w = v THEN commit ELSE f[w]]

(* What the run finds in its clone, which has every tag of the moment.     *)
LatestTag == Max(job.seen \cup {0})
NeedsBump == job.seen # {} /\ VersionAt(job.head) = LatestTag
TagExists(v) == v \in job.seen

(* release-drafter counts from the newest published release, whatever the  *)
(* tags are, by the labels of the pull requests merged since.              *)
Resolvable == {v \in Versions : \A w \in releases : v > w}

(* decide_release: the version of pyproject.toml unless it is tagged.      *)
NewVersion == IF NeedsBump THEN job.resolved ELSE VersionAt(job.head)
TaggedAlready == TagExists(NewVersion)
NothingToRelease == NewVersion = 0 \/ TagExists(NewVersion)

(* `git log <latest tag>..HEAD`: what HEAD has and the tag does not.       *)
SubjectsOfThePush == {Len(job.head)}
Subjects == DOMAIN job.head \ (IF job.seen = {} THEN {} ELSE DOMAIN tags[LatestTag])

Entry == [version |-> job.version, changes |-> Subjects]

CommitWithoutBump ==
    [by |-> "bot", version |-> VersionAt(job.head), log |-> <<Entry>> \o LogAt(job.head)]

(* The bump, the changelog entry on top of the earlier ones, the commit.   *)
ReleaseCommit ==
    [by |-> "bot", version |-> job.version, log |-> <<Entry>> \o LogAt(job.head)]

-----------------------------------------------------------------------------
FirstCommit == [by |-> "human", version |-> 1, log |-> <<>>]
FirstRelease == [by |-> "bot", version |-> 1,
                 log |-> <<[version |-> 1, changes |-> {1}]>>]

RelStart ==
    /\ published = << >> /\ token \in BOOLEAN /\ waiting = <<>>
    /\ job = NoJob /\ ended = "none" /\ failures = 0 /\ reruns = 0

\* Nothing was ever tagged, or the first version is out.
RelInit ==
    /\ RelStart
    /\ \/ main = <<FirstCommit>> /\ tags = << >> /\ releases = {}
       \/ /\ main = <<FirstCommit, FirstRelease>>
          /\ tags = [v \in {1} |-> main] /\ releases = {1}

MergeSkippedDuringRun ==
    /\ Cardinality(People(main)) <= MaxMerges
    /\ \E v \in VersionAt(main)..MaxVersion :
          main' = Append(main, [Last(main) EXCEPT !.by = "human", !.version = v])
    /\ waiting' = IF job = NoJob THEN main' ELSE waiting
    /\ UNCHANGED <<tags, releases, published, token, job, ended, failures, reruns>>

(* A person merges to main, with a version bumped by hand or as it was.    *)
(* The push starts a run; in the group one run waits, and the newest push  *)
(* takes its place.                                                        *)
Merge ==
    /\ Cardinality(People(main)) <= MaxMerges
    /\ \E v \in VersionAt(main)..MaxVersion :
          main' = Append(main, [Last(main) EXCEPT !.by = "human", !.version = v])
    /\ waiting' = main'
    /\ UNCHANGED <<tags, releases, published, token, job, ended, failures, reruns>>

(* Somebody runs the job of an earlier push again, at that push's commit.  *)
Rerun ==
    /\ reruns < MaxReruns /\ reruns' = reruns + 1
    /\ \E n \in People(main) : waiting' = SubSeq(main, 1, n)
    /\ UNCHANGED <<main, tags, releases, published, token, job, ended, failures>>

(* Checkout, with every tag; the version and the latest tag are read.      *)
StartRun ==
    /\ job = NoJob /\ waiting # <<>>
    /\ job' = [NoJob EXCEPT !.step = "resolve", !.head = waiting, !.seen = DOMAIN tags]
    /\ waiting' = <<>>
    /\ UNCHANGED <<main, tags, releases, published, token, ended, failures, reruns>>

(* The drafter's dry run, for a version nobody bumped by hand.             *)
Resolve ==
    /\ job.step = "resolve"
    /\ \E v \in IF NeedsBump THEN Resolvable \cup {0} ELSE {0} :
          job' = [job EXCEPT !.step = "decide", !.resolved = v]
    /\ UNCHANGED <<main, tags, releases, published, token, waiting, ended, failures, reruns>>

DecideNothing ==
    /\ job.step = "decide" /\ NothingToRelease
    /\ job' = NoJob /\ ended' = "nothing"
    /\ UNCHANGED <<main, tags, releases, published, token, waiting, failures, reruns>>

DecideRelease ==
    /\ job.step = "decide" /\ ~NothingToRelease
    /\ job' = [job EXCEPT !.step = "prepare", !.version = NewVersion]
    /\ UNCHANGED <<main, tags, releases, published, token, waiting, ended, failures, reruns>>

(* In the clone only: pyproject.toml, CHANGELOG.md, commit and tag.        *)
Prepare ==
    /\ job.step = "prepare"
    /\ job' = [job EXCEPT !.step = "push_main", !.head = Append(@, ReleaseCommit)]
    /\ UNCHANGED <<main, tags, releases, published, token, waiting, ended, failures, reruns>>

TagFirst ==
    /\ job.step = "push_main" /\ job.version \notin DOMAIN tags
    /\ tags' = With(tags, job.version, job.head)
    /\ main' = IF IsStrictPrefix(main, job.head) THEN job.head ELSE main
    /\ job' = [job EXCEPT !.step = "create_release"]
    /\ UNCHANGED <<releases, published, token, waiting, ended, failures, reruns>>

ForcePush ==
    /\ job.step = "push_main"
    /\ main' = job.head
    /\ job' = [job EXCEPT !.step = "push_tag"]
    /\ UNCHANGED <<tags, releases, published, token, waiting, ended, failures, reruns>>

(* GitHub takes a push to main only if it adds to what main is: a release  *)
(* commit made again by another run is another commit.                     *)
PushMain ==
    /\ job.step = "push_main" /\ IsStrictPrefix(main, job.head)
    /\ main' = job.head
    /\ job' = [job EXCEPT !.step = "push_tag"]
    /\ UNCHANGED <<tags, releases, published, token, waiting, ended, failures, reruns>>

Ends(how) == job' = NoJob /\ ended' = how

PushRejected ==
    /\ job.step = "push_main" /\ ~IsStrictPrefix(main, job.head)
    /\ Ends("failed")
    /\ UNCHANGED <<main, tags, releases, published, token, waiting, failures, reruns>>

PushTag ==
    /\ job.step = "push_tag" /\ job.version \notin DOMAIN tags
    /\ tags' = With(tags, job.version, job.head)
    /\ job' = [job EXCEPT !.step = "create_release"]
    /\ UNCHANGED <<main, releases, published, token, waiting, ended, failures, reruns>>

CreateRelease ==
    /\ job.step = "create_release"
    /\ releases' = releases \cup {job.version}
    /\ job' = [job EXCEPT !.step = "publish"]
    /\ UNCHANGED <<main, tags, published, token, waiting, ended, failures, reruns>>

(* The distribution is built from the clone; without a token the run ends  *)
(* without PyPI.                                                           *)
Publish ==
    /\ job.step = "publish"
    /\ published' = IF token THEN With(published, job.version, job.head) ELSE published
    /\ Ends("released")
    /\ UNCHANGED <<main, tags, releases, token, waiting, failures, reruns>>

(* A step fails or the runner is lost: the clone is gone, what was pushed  *)
(* stays, the later steps are skipped.                                     *)
StepFails ==
    /\ job # NoJob /\ failures < MaxFailures
    /\ failures' = failures + 1
    /\ Ends("failed")
    /\ UNCHANGED <<main, tags, releases, published, token, waiting, reruns>>

RelNext ==
    \/ Merge \/ Rerun \/ StartRun \/ Resolve \/ DecideNothing \/ DecideRelease
    \/ Prepare \/ PushMain \/ PushRejected \/ PushTag \/ CreateRelease \/ Publish
    \/ StepFails

RelSpec == RelInit /\ [][RelNext]_relVars

-----------------------------------------------------------------------------
Entries == [version : Versions, changes : SUBSET Nat]
Commits == [by : {"human", "bot"}, version : Versions, log : Seq(Entries)]
Histories == Seq(Commits) \ {<<>>}

(* The type invariant of the pipeline.                                     *)

ReleaseTypeOK ==
    /\ main \in Histories /\ token \in BOOLEAN
    /\ waiting \in Seq(Commits) /\ IsPrefix(waiting, main)
    /\ DOMAIN tags \subseteq Versions /\ \A v \in DOMAIN tags : tags[v] \in Histories
    /\ DOMAIN published \subseteq Versions /\ releases \subseteq Versions
    /\ job \in [step : Steps, head : Seq(Commits), seen : SUBSET DOMAIN tags,
                resolved : 0..MaxVersion, version : 0..MaxVersion]
    /\ job.step = "idle" => job = NoJob
    /\ job.step # "idle" => job.head # <<>>
    /\ ended \in Endings /\ failures \in 0..MaxFailures /\ reruns \in 0..MaxReruns

(* Every tag names a commit that main has, whatever was merged while the   *)
(* job ran and whichever push was refused: release.yml pushes main first,  *)
(* and the tag only if that push was taken.                                *)
TagsAreOnMain == \A v \in DOMAIN tags : IsPrefix(tags[v], main)

(* What carries a version is that version: pyproject.toml of the tagged    *)
(* commit has it, CHANGELOG.md begins with it, and what PyPI has under it  *)
(* was built from the tag's commit and has a GitHub release.  Runs that    *)
(* failed, versions bumped by hand and jobs run again do not mix them up.  *)
TagIsItsCommit ==
    /\ \A v \in DOMAIN tags :
          VersionAt(tags[v]) = v /\ Head(LogAt(tags[v])).version = v
    /\ releases \subseteq DOMAIN tags
    /\ \A v \in DOMAIN published : v \in releases /\ published[v] = tags[v]

(* The changelog of a tagged commit lists every change merged up to it,    *)
(* those included that came with a run that failed half-way.               *)
ChangelogIsComplete ==
    \A v \in DOMAIN tags :
        People(tags[v]) \subseteq UNION {e.changes : e \in Range(LogAt(tags[v]))}

(* When the last run released something and none waits, main has nothing   *)
(* that is not in a tag: a push that came while the job ran either made    *)
(* the job's own push fail or has a run of its own.                        *)
NothingLeftBehind ==
    ended = "released" /\ job = NoJob /\ waiting = <<>>
        => \E v \in DOMAIN tags : People(tags[v]) = People(main)

(* A tag never moves or goes away, and a new one is above every version    *)
(* that has a GitHub release: the job of an earlier push, run again, does  *)
(* not publish its old version after a newer one.                          *)
TagsGrow ==
    [][/\ \A v \in DOMAIN tags : v \in DOMAIN tags' /\ tags'[v] = tags[v]
       /\ \A v \in DOMAIN tags' \ DOMAIN tags : \A w \in releases : v > w]_relVars
=============================================================================
