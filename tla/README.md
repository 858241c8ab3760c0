# Specifications of qc-skill

qc-skill checks media files: a request (JSON) names a file, or a package of
files, and rules; `qc run` measures the file with ffprobe and ffmpeg, evaluates
the rules and prints a report. This directory holds TLA+ specifications of the
parts of it that have state and interleavings, the TLC configurations that check
them on small instances, and proofs that TLAPS checks for every instance.
`PROJECT.json` lists components, runs, mutants, hazards, findings and theorems,
and maps every definition to the source lines it stands for. Paths below are
relative to `src/src/qc_skill/` unless they say otherwise.

## 1. The system

| Component | State it keeps | Operations | Hard behaviour | What makes it correct |
|---|---|---|---|---|
| Report cache (`cache.py`, `canonical.py`) | one JSON file per key; temporary files | `get`, `set`, `_invalidate` | several processes, no lock; kills, full disks, edited files | no torn entry is visible; a hit is word for word what a set stored under the key; behaves as a lossy atomic register; calls return |
| Process runner (`runner.py`) | the context variable `_DEADLINE`; the running child and its group | `request_deadline`, `check_deadline`, `run_argv`, `_kill_group` | nested budgets, expiry racing the end of a child, children that start processes or hold pipes | the request's own budget is in force everywhere; TIMEOUT iff it ran out; a kill leaves nothing of the group; requests end |
| Report engine (`engine.py`, `cli.py`) | none between runs but the cache | `cmd_run`, `run_report`, `_run_report`, `_run_delivery_package` | files and tools change between fingerprint, measurement and reuse; expiry after the measurement; concurrent runs | a reused report matches the request; a report finished late is kept; policies are obeyed; runs end |
| Capability detection (`capabilities.py`) | a `CapabilitySet` per process | `detect_capabilities` | each of four children may fail or hang | what is missing is reported missing, and not taken for a property of the input |
| Verdicts (`models.py`) | the report | `QCStatus.aggregate`, `QCReport` | three-valued logic, worst wins | UNKNOWN never becomes PASS |
| Rule evaluation (`rules.py`) | none between checks; within one, what is matched, mismatched and unresolved | `evaluate_*`, `match_cuts`, `_map_source_to_delivery`, `_evaluate_cross_artifact` | boundaries, missing measurements, greedy matching, limits of the rule against parameters | each check agrees with its definition on every input |
| Measurements (`measurements/`, `probe.py`) | none between passes; within one, the tracker of each grid cell, a sliding window, the cues sorted so far | `analyze_*`, `measure_*`, `_cell_change_frames`, `_window_counts`, parsers | windows over frames, neighbours against all pairs, tool exit codes | a failed measurement is reported as not performed; a count or a gap is what it is defined to be |
| Request parsing (`schemas.py`) | none | `parse_request` and the builders of its parts | rules nested at four depths, the order of the errors, NaN, values of the wrong type | an accepted request is one the engine can work with |
| Path policy (`security.py`), contract and doctor (`contract.py`), errors (`errors.py`, `cli.py`) | none | `resolve_input`, `skill_contract`, `doctor_report`, ... | string checks, static tables | unit tests reach them |
| Release pipeline (`src/.github/workflows/release.yml`, `src/scripts/`) | the branch main and the tags on GitHub, GitHub releases, PyPI; the clone of the job; the run that waits | the steps of the job, `decide_release`, `latest_tag_version`, `release_changelog` | merges while the job runs, a step that fails after earlier ones took effect, jobs started again | tags are on main, carry their version, list every change and never move |

How they interact. `cmd_run` opens a budget with `request_deadline`, detects
capabilities through `run_argv` and calls `run_report`, which opens a second
budget. `_run_report` fingerprints the files, derives an identity from the
fingerprints, the rules and the tool versions, asks the cache, measures through
`run_argv` on a miss, evaluates the rules, stores the report and returns.
Processes share nothing but the cache directory and the input files. There are
no threads and no callbacks: all concurrency is between qc processes, between
qc and its children, and between qc and whoever writes the files. The release job is
apart from all this: GitHub runs one job at a time, while people go on merging.

## 2. The modules

| Module | Models | Lines |
|---|---|---|
| `AbstractCache` | what the cache promises: per key, a register that may lose its value at any time; set is atomic; get returns the value, misses or raises, and may miss or raise over a value that stays | `cache.py` 23-75 |
| `ReportCache` | the file operations of get, set and `_invalidate` | `cache.py` 20-81 |
| `MCReportCache` | constants for TLC | |
| `ReportCacheProofs` | safety of the cache; `ReportCache` implements `AbstractCache` | |
| `Runner` | budgets, one child at a time, timeout, kill, drain | `runner.py` 79-208, callers in `cli.py`, `engine.py`, `capabilities.py` |
| `RunnerProofs` | safety of budgets, timeouts and kills | |
| `ReportEngine` | runs of several processes over `AbstractCache` | `engine.py` 381-750, `cli.py` 85-121, `capabilities.py` 74-108 |
| `MCReportEngine` | requests and constants for TLC | |
| `ReportEngineProofs` | reuse, late reports and policies; the engine uses the cache as `AbstractCache` allows | |
| `Verdicts` | the measuring passes over each asset of one request, rule evaluation, the verdict | `engine.py` 108-322, 473-524, 656-700, `rules.py`, `measurements/`, `probe.py`, `models.py` |
| `MCVerdicts` | requests of every kind for TLC | |
| `VerdictsProofs` | soundness of the verdict | |
| `Sorting` | Python's `sorted` for distinct keys, by rank | external |
| `Flashes` | the flash counter, from luminance to the check | `measurements/temporal.py` 100-214, `rules.py` 482-509 |
| `FlashesProofs` | the tracker misses no change, the windows no second | |
| `Cuts` | planned cuts against detected ones | `rules.py` 512-559 |
| `Subtitles` | overlaps, long cues and gaps, and the check of a timeline of edits | `measurements/subtitle.py` 173-281, `rules.py` 899-1152 |
| `TimelineProofs` | what `Sorted` returns, least elements and indices; the pairing of cuts; overlaps, gaps and timelines of subtitles | |
| `MCSubtitles` | subtitles and timelines for TLC | |
| `RequestParsing` | from a JSON document to a request or the code of an error | `schemas.py` 36-512 |
| `MCRequestParsing` | documents for TLC | |
| `RequestParsingProofs` | an accepted document is usable; a rule is built in one form | |
| `MCChecks` | the verdict, the three algorithms and request parsing in one run | |
| `Release` | the release job with merges, failures and jobs run again | `src/.github/workflows/release.yml`, `src/scripts/` |
| `ReleaseProofs` | safety of the release job | |

### ReportCache

`file[k]` is the cache file of key k: absent, an entry, truncated text, or
something json.load raises on other than with `JSONDecodeError`. `temp` holds
the temporary files. A call is a sequence of single file operations, between
which any other process may act: exists, read and compare (`GetExists`,
`GetLoad`), unlink (`GetInvalidate`); mkstemp, write, `os.replace` and the
`finally` (`SetMkstemp`, `SetWrite`, `SetReplace`, `SetFinally`). Each may fail
as the operating system may make it fail: a stat, open or read of an intact entry
that fails is a miss (or, for the stat, an exception) and the entry stays; the
removal in the `finally` may fail too, and then the temporary file stays. `Crash` kills a process anywhere;
`Edit` is somebody editing, truncating or deleting a cache file. An entry is a
record of format, key, metadata, hash and report; the hash is the report it was
computed from, that is, SHA-256 is taken to be free of collisions.

`published`, `edited` and `stuck` are history variables for the properties only:
what became visible by an `os.replace`, the keys edited from outside, and how many
removals of a temporary file failed. `TempsRemoved` allows one temporary file
without an owner for each of these and for each kill.

`MCReportCache` lets TLC look at two scenes, told apart in the initial state: in
"races" two processes meet at one key, in "damage" one process uses two keys
whose files are edited in every way. In either one temporary file at most is left
behind, by a kill or by a removal that fails, and of the free temporary names,
which are interchangeable, each set takes the first. Every step of either is a
step of `ReportCache`.

### Runner

Time is discrete; a deadline is kept as the time left until it, so that no
counter grows. `stack` holds the nested values of `_DEADLINE`. A request goes
through capability detection (command line only), the first check, measurements
and the last check, and each stage starts up to `MaxChildren` children. A child
runs, becomes a zombie when it ends and is reaped by `communicate`, which
returns only at the end of both pipes. A child may start one process (`kin`), in
its group or outside it, with or without the pipes: one is enough to tell all
the ways `_kill_group` and the second `communicate` can go. The Windows branch
(taskkill) is not modelled. Time passes in Python code as well as in children.

### ReportEngine

A run is split where other actors can interfere: detection, the first check of
the deadline, the fingerprint of each file, the cache lookup (begin, steps and
return of `AbstractCache`), the measurement of each file, the store, the last
check. A report is the identity it is stored under and the facts it was measured
from: content and extension of each file read, the ffmpeg version, whether VMAF
was measured, the kind, operation and rules. Equal facts give equal reports, so
the module says nothing of how a measurement is interpreted. Abstractions:

- a file is read in one step per fingerprint and one per measurement: the passes
  over one file all read the same content and run the same ffmpeg (a change
  between two of them gives a report mixed of both, which is the same hazard as
  `engine_race`), but what is on disk may change before each step;
- the rules of a request are told apart by whether they ask for reference
  metrics, and ffmpeg and ffprobe share one version;
- a package has at most three artifacts, all of a type that ffprobe measures;
- `operation` has no effect but on the identity, as in the engine itself.

Files and ffmpeg may change at any step, under a run as well as between two. Two
history variables record it: `disturbed[p]` says that since p fingerprinted a file
that is still to be measured that file was changed, or that ffmpeg was replaced
after p asked for its version and before it was done measuring; `mixed` is the
reports that such runs handed to the cache. `ReuseAsDocumented` is what
`cache.py` 3-7 says of every hit and is violated (`engine_race`);
`ReuseUnlessDisturbed` says it of every hit but those in `mixed` and is checked
and proved.

`LateReportKept` says that a run which may reuse has stored its report before the
last check of the deadline. That the entry is then still there can be said only
of a process that is alone (`Alone`): another may lose it or store its own.

`MCReportEngine` plays two scenes in one run. In "requests" one process makes two
requests of any kind, and files change between them; in "together" two processes
ask for one video at once, with and without permission to measure, while one of
these happens at any step: the video changes, ffmpeg is replaced, an entry is
lost, a process is killed. In neither is libvmaf missing. The scene "all" leaves
nothing out and is used by the two violated runs.

`ReportEngine` is composed over the abstract cache, not the file-level one: the
refinement theorem is what makes this enough, and it keeps the state space
small enough to run two processes.

### Verdicts

One request: its assets are taken one after the other (a package has any number,
every other kind one), each through the passes that its type, its rules and the
streams it has call for (`left`), in the order of the code. `stream` is what was
found of the streams, `facts[i][c]` what was measured for check c: nothing
(`None`), something fine, something that breaks the rule (`bad`), something that
leaves the check undecided (`open`, for instance a freeze with an unknown end),
or `cut`, no violation in what was read before ffmpeg stopped. The values
themselves and the comparisons with limits are abstracted to these. `Evaluate`
turns them into checks, one operator per `evaluate_*` function, and the report
into the worst status.

`has`, `there` and `agree` are what is really so and never change; the
properties compare the verdict with them and with `facts`, not with the checks
the module itself derives. Abstractions:

- checks that make the same of every measurement are one check; the header of
  the module names them, `Baseline`, `Defaulted`, `Strict` and `Warned` say what
  tells the others apart;
- facts that ffprobe leaves out (duration, frame rate, resolution) are in
  `lacks`, because later passes depend on them;
- an artifact that a package rule names and the request does not is the same as
  a missing one: `evaluate_delivery_package` finds no measurement of either;
- a silence that is still open at the end of a file without a duration is `open`
  like a freeze of unknown length, but the rules read its missing length as zero
  (`Overlooked`), so that its check is PASS. `VerdictIsSound`, the documented
  property, is violated by that (`verdicts_silence`); `VerdictIsBacked` excepts
  exactly this and is what is checked and proved;
- `MayStop` says whether ffmpeg may stop early without a phrase that qc takes
  for a decode error. The proofs and the passing run assume it does not; the run
  `verdicts_stopped` shows what happens if it does.

Caching and deadlines, which `ReportEngine` and `Runner` model, are left out: a
pass either ends or raises (`Fail`).

### Flashes

`Track` reads one frame and moves the tracker of every cell; then the changes of
luminance, in the order of time, come into a window (`Enter`) and leave it
(`Leave`), and `CountWindow` reads off the histogram how many changes enough
cells have. The code slides windows twice, over whole seconds for the evidence
and over windows that start at a frame for the worst; so does the module. The
times of the frames are taken as given and in order; luminance is a number of
cd/m2, and how it is computed from pixels is left out.

`ChangesAreMost` compares the tracker, which never looks back, with the longest
alternation that any choice of frames shows. `WorstIsWorst` compares the
verdict with every second of the video, at whatever tick it starts, although
the code only looks at windows that start at a frame.

### Cuts

`MatchCut` and `MissCut` take the planned cuts in time order; each takes the
nearest free detected cut. What the greedy pairing promises is
`NothingBetterIsFree`: no cut that is left over would have been nearer, or within
the window of one reported missing. It does not promise the best pairing: with
planned cuts close together, an early one may take the cut that a later one
needed, so a video for which a pairing within the limits exists may FAIL.
`PassIsAPairing` says that the error is never on the other side.

### Subtitles

The steps follow `measure_subtitle` and the rules: cues are sorted, neighbours
compared for overlaps, cues that stay too long listed, gaps looked for behind
everything shown so far, and the cues delivered compared with those of the
source. A deck has what the measurement is told (`params`) and what the rule says
(`limits`); the code uses the first for the lists and the second only to decide
whether to judge, which is the finding `subtitle_limits`.

`TimelineIsJudged` holds for any segments in any order. It says what each verdict
allows one to conclude: PASS, that every cue is where segments put it; FAIL, that
some segment puts a cue elsewhere than it is; UNKNOWN, that a cue is not wholly
kept and none that is kept is misplaced. For an instant that lies in one segment
only this is exact.

The docstring of `TimelineSegment` (`rules.py` 905-907) calls a segment
`[source_start, source_end)`, but the comparison in line 934 includes the end, and
the first segment that holds an instant wins. `Kept` and `IsKept` follow the
docstring, and `KeptCuesPass` says that cues which are all kept and where the
segment that keeps them puts them get PASS. It is violated (`timeline_ends`): in a
delivery whose halves were swapped, a cue that starts on the border is looked for
at the end of the wrong half. By the same comparison a cue that ends where a segment
ends before a cut is mapped, and gets PASS or FAIL, where the docstring has
its end in the cut region (UNKNOWN).

### RequestParsing

A document is a JSON value built from records; keys and texts that the code
treats alike are one, so a rule field that is taken as it is, whatever it holds, is "limits": what looks like a rule inside it is none, but a forbidden key
inside it is one. `ReadPart` reads one part, in the order of `parse_request`; the
first part that is wrong decides the code of the error (`RefuseDocument`), and
`BuildRequest` builds the rules wherever they are nested. Two things the model
keeps because the code has them: a list or an object where one of a few names is
expected makes `in` raise TypeError, which the command line answers with
INTERNAL_ERROR; and NaN, which `json.loads` takes, is below or above nothing, so it
passes every bound (`timeout`, `cut_match_window_sec`) and makes the canonical JSON
of the request raise later. `sorted` leaves cuts with a NaN among them in an order
that depends on where it stands: `BuiltVideos` is the set of what a rule may be
built to, and for such cuts `InOrder` allows every order.

`Within` is the values found in a document at any depth up to `Depth`. The code
has such a bound too: beyond the recursion limit of the interpreter `json.loads`
and `_find_forbidden` raise, and the command line answers INTERNAL_ERROR.
`DocumentAssumption` says that `Documents` are JSON values that end within
`Depth`.

### Release

A commit is the history that leads to it, so that a branch contains it iff it is
a prefix, and git's refusal of a push that is no fast-forward is the guard of
`PushMain`: release commits made by two runs are different commits, so the new
main must be strictly longer. `job` is the clone of the run in progress, `waiting`
the one run that GitHub keeps waiting in the concurrency group; a newer push
takes its place. release-drafter, which counts from the newest published
*release*, and GitHub are external: `Resolvable` is any version above that.
Versions bumped by hand are taken never to go down.

What the job does not promise, and no property says: a run that fails between
pushing the tag and creating the GitHub release leaves a tag that no later run
makes a release of, because `decide_release` asks for tags; as the drafter counts
from releases it may then propose that tag, or one below it, until somebody bumps
by hand. A run that fails between pushing main and the tag is made good by the
next merge, at the price of a changelog with the entry twice. A run started again
while another one waits takes its place in the concurrency group; if it then has
nothing to release, the merge that waited is left behind until the next one.
`NothingLeftBehind` speaks of runs that released, so this is outside of it.

### MCChecks

The verdict, the flash counter, cuts, subtitles and request parsing share no
state. `MCChecks` checks them in one run: a behaviour is about one `topic`, and
`Only(t)` lets only that topic's variables change. It is no composition.

## 3. The runs

`CHECK_DEADLOCK FALSE` appears in the engine runs and the release run, which end
when the bounded number of runs or merges is used up, and in the runs of checks,
verdicts and subtitles, which end with the report.

| Run | Question | Bounds, and why they are enough |
|---|---|---|
| `cache` | Can two processes, a kill, failing operations and an edit make a torn or foreign entry visible, leak temporary files, lose an unedited entry, or keep a call from returning? Is a damaged or copied file ever a hit? Does the cache implement the register? | "races": two processes and one key (keys share no file), two reports (to tell a mixture), three temporary names (two live, one orphan), one edit of each branch of get, one kill. "damage": one process, two keys with different metadata, two edits out of every kind of content |
| `cache_raises` | The documented "treated as a miss" against files on which get raises | violated |
| `runner` | All properties of the deadline and of the kill, and termination | budgets from shorter than a ceiling to longer than two; ceilings 1 and 3; two children per stage |
| `engine` | Reuse, late reports, policies and termination for every kind of request and for two processes at once | two runs (what a reuse takes), two contents, two paths. "requests": one process, eleven requests, files change between the runs. "together": two processes, two versions of ffmpeg, and one of: a changed file, a replaced ffmpeg, a lost entry, a kill. One disturbance is enough to tell a hit from a stale one; the proof covers any number |
| `engine_two_names` | README "reports can be safely reused" against the extension | violated |
| `engine_race` | "Same input content ... can safely reuse" against a file that changes between its fingerprint and its measurement | three runs; violated |
| `checks` | Can a report say PASS or WARN over something unmeasured, or hide a violation? Do the flash counter, the pairing of cuts, and the timing of subtitles agree with their definitions? Is an accepted document usable? | verdict: each kind of request with each group of checks, with and without rules; packages of two artifacts (one to be missing, one to depend on it); the proof covers any number. Flashes: two cells (one to be part of the screen), four or five frames close together and far apart, levels too near and too bright for a change. Cuts: up to three planned, six detected: three are needed for an early pair to take what a later one wanted. Subtitles: three cues in any order (a long one that outlasts two), timelines of two segments, joined, cut, listed in either order and swapped. Documents: every part right and wrong in each way, every rule at each depth, cuts in every order with each kind of value (NaN too) among them, rules and forbidden keys inside "limits"; `Depth = 9` is that of the deepest, a rule of an artifact of a package |
| `verdicts_silence` | "UNKNOWN is never collapsed into PASS", for a report over a file whose duration is not known | audio requests; violated |
| `verdicts_stopped` | The same when ffmpeg stops early | video requests, `MayStop`; violated |
| `subtitle_limits` | Do the checks of cue duration and gaps judge the limits of the rule? | up to two cues, limits above and below the parameters; violated |
| `timeline_ends` | "[source_start, source_end)": do cues that are all kept pass? | one cue, the two halves of a source swapped; violated |
| `release` | Are tags on main, do they carry their version and every change, do they never move, is no merge left behind? | three merges (one before, one during, one after a job), four versions, two failures at any step, one job run again |

Every property has a mutant: a plausible bug in the code (a dropped
comparison, a missing cleanup, an off-by-one) under which TLC finds the property
violated.

### Fairness

- Cache: weak fairness on each process's own step of a call under way. The
  operating system schedules every process; no step waits for another process.
  Nothing is assumed of new calls, of edits or kills.
- Runner: weak fairness on qc's own steps and on the clock. Nothing is assumed
  of children: none has to end, close a pipe or release the group. The timeout
  of `communicate` is taken to be prompt, that is, time does not pass the limit
  before `TimeoutExpired` is raised.
- Engine: weak fairness on each process's own steps. That a measurement ends is
  justified by `RequestsEnd` of the runner.
- Verdicts, the algorithms, request parsing, release: none. Only safety is
  stated; the release job may fail and stop anywhere.

## 4. What is proved

For every number of processes, keys, reports, budgets, kills and edits, and every
video, plan, subtitle, timeline and JSON document:

- **Cache** (`ReportCacheProofs`). The inductive invariant adds three facts to
  the type invariant and the properties: a process owns the temporary file it
  is writing and nobody else does (`OwnTemp`); between write and replace that
  file holds the complete entry (`Written`); every intact file was published
  (`Backed`). A process that is about to invalidate does so for a key that was
  edited (`InvalidatesEdited`), because only an edit produces a wrong hash; this
  is why unedited entries persist. Proved: `TypeOK`, `HitIsPublished`,
  `NeverTorn`, `EntriesPersist`, and that get accepts exactly what set writes.
  `TempsRemoved` counts files without an owner: no step but a kill and a failed
  removal adds to them, and either adds at most the one file of its process
  (`TempSteps`).
- **Refinement** (`ReportCacheProofs`, `CacheImplementsRegister`). A file refines
  to its report if it is intact and to nothing otherwise. Every step maps to one
  of the register or to a stutter: the linearisation points are `os.replace` for
  set and the read for get. A get that fails to stat, open or read an intact file
  maps to a miss, or an exception, that leaves the register as it is.
- **Runner** (`RunnerProofs`). The invariant says that every entry of the stack
  is the request's own budget (`StackIsOwn`) which is empty between requests,
  that the limit of a child is what `Limit` computes and moves with the clock
  (`LimitInStep`), and that the blame was fixed when the child started
  (`DrainIsBlamed`). Proved: `TypeOK`, `NestedNeverExtends`, `BudgetInForce`,
  `ChildBounded`, `ExpiryBlamed`, `OutcomeJustified`. `KillReachesGroup` has an
  invariant of its own (`KillInv`): while qc waits its child is not reaped, and
  after a kill what the child started is gone or outside the group, so the second
  `communicate` has nothing of the group left to wait for.
- **Engine** (`ReportEngineProofs`). `EngineInv` ties what a process knows to
  where it is: fingerprints of exactly the files it reads, readings of all of them
  before it stores, the phase and the arguments of its call of the cache.
  `TypeOK` and `PolicyRespected` (an action property) follow. For
  `ReuseUnlessDisturbed` that is not enough, because the report comes out of a cache
  that others fill: `StableInv` adds that unless a run is `disturbed` files and
  ffmpeg are still as it found them (`Found`), and that every entry and every call
  in flight either is of `mixed` or says of its facts what its identity says
  (`HonestCache`). The theorem has no hypothesis: files and ffmpeg change when they
  like. For `LateReportKept`, `KeptAlone` follows a report from `set` to the end of
  the run for a process that is `Alone`.
- **Composition** (`EngineUsesTheRegister`). Whatever the engine does to the
  cache is a step of `AbstractCache` or none, misses over a present entry included, and `ReportCache` implements the
  same register: what is proved of the engine needs nothing of the cache that
  its files do not give.
- **Verdicts** (`VerdictsProofs`), under `MayStop = FALSE`. A dozen checks take a
  missing measurement for "nothing found" (`Defaulted`), so what makes the
  verdict sound is elsewhere: such a check is measured in the same pass as a
  baseline check, which is in every report of that stream and is UNKNOWN if the
  pass was not made. The invariant says so (`GroupInv`), that a stream that is
  there and looked for has been seen once its asset is done, or the pass that
  will see it is still to come (`DoneInv`), and that nothing is seen of a file
  that is not there (`AbsentInv`). Proved: `TypeOK`, `VerdictIsBacked`,
  `ViolationFails`, and that the aggregate hides neither UNKNOWN nor FAIL.
- **Release** (`ReleaseProofs`). Nobody but the one job makes tags and releases,
  so what it saw stays true until it pushes (`JobInStep`); its clone without its
  own commit is on main (`JobIsOnMain`), and when the push is taken main is
  exactly that (`PushAddsOne`); no release is above the version of main
  (`MainIsAhead`). From these: `ReleaseTypeOK`, `TagsAreOnMain`, `TagIsItsCommit`,
  `NothingLeftBehind`, `TagsGrow`. For `ChangelogIsComplete` a second invariant,
  `LogInv`: a commit keeps the entries of those before it, and the release commit
  lists everything *provided* its history has every tag, which is not so of a job
  run again for an old commit, but is so whenever the push is taken.
- **Sorting** (`TimelineProofs`). `Sorted` puts each element after as many others
  as there are before it; that these ranks are a bijection onto 1..n is proved
  from finite sets alone, so that no recursion is needed to reason about a sort.
- **Cuts** (`TimelineProofs`). `CutInv`: the cuts still to do are the rest of the
  plan in time order, each of the others is in a pair or missing, no index is
  used twice, and no free index is better (`NoBetter(Extra)`). This last one is
  inductive because free cuts only get fewer. That a FAIL of a plan with cuts far
  apart is right needs more: for such a plan no detected cut at all, used or not,
  is better (`Apart => NoBetter(DOMAIN plan.detected)`), so the greedy choice is
  the best. Proved: `CutTypeOK`, `NothingBetterIsFree`, `PassIsAPairing`.
- **Subtitles** (`TimelineProofs`). `SubInv` says what each walk along the cues
  has found up to the cue it is at (`OverlapsTo`, `GapsTo`, and the mismatches of
  the first cues). Proved: `OverlapsAreFound` (if two cues overlap, then so do two
  neighbours in start order), `GapsAreEmpty` (the gaps listed are the longest
  empty stretches, from the furthest end seen so far, `ShownBefore`), and
  `TimelineIsJudged`: the first segment that holds an instant is one of those that
  hold it (`JudgedAsMapped`), and an instant that is kept is held by some segment
  (`KeptIsSomewhere`), which is all that can be said of segments in any order.
- **Flashes** (`FlashesProofs`). The tracker looks at a frame once, so its
  invariant must say what it may forget. `Longest`: no chain of swings in the
  frames so far has more members than changes plus one; a chain that long ends in
  the tracker's direction, and neither it nor one shorter by one that ends in
  that direction ends further out than the extreme the tracker follows; and one
  chain gets there. Without the shorter chains it is not inductive: the next
  change may start from their end. From it: `ChangesAreMost`. The count has
  `CountingInv`: the events are the changes, each once and in order of time; the
  histogram is that of the events that came in and did not leave
  (`HistogramSoFar`); none came in that is at or after the end of the window at
  hand, none left that is not before its start (`CountedSoFar`), so that when
  neither can go on these are exactly the events of the window; and what a window
  found is what the changes themselves ask for (`QualifiedIn`). From it:
  `FlashTypeOK` and, because a second moved on to the next frame has no fewer
  changes, `WorstIsWorst`. The sum over the histogram is a recursive fold of
  the community modules; its value is proved without induction, by showing that a
  function of the sets (how many cells have one of these counts) solves the
  equation of the fold, and that two solutions differ on no smallest set.
- **Request parsing** (`RequestParsingProofs`). The steps are the easy part:
  `ReadSoFar` says that every part before the one at hand is faultless, and that
  once a request is answered every part is and what `Nested` has is built
  (`ReadSoFarHolds`). The hard part is that `AcceptedIsUsable` speaks of rules at
  *any* depth and the code looks in a handful of places. A walk over JSON values would be an induction; instead the
  proof shows a closed set: the rules of streams, what may hold them (`Holders`),
  and *quiet* values, inside of which nothing has a key that a rule goes by. A set
  that contains the rules and, other than under "limits", whatever is next inside
  its members contains everything `Within` them (`WithinFacts`), because there is
  no least level at which the walk leaves the set. So a rule that stands anywhere
  stands where it is built (`RulesAtAnyDepth`). Proved besides: `BuiltInOneForm`, that a rule whose metrics
  and cuts are written in another order is built to the same form, and to one:
  cuts have an order (`InOrderExists`), two sorted orders agree at every place
  because otherwise more places than there are would hold the smaller numbers
  (`SameNumberNext`), and which list they come from is forgotten
  (`InOrderForgets`). That a rule with a NaN among its cuts is built to *something*
  (`RightRulesAreBuilt`) shows that building a request never waits.

  The attempt to prove this changed the model twice. `Under` looked for rules
  inside "limits", where the code has none, so that the property was false of
  documents the run did not have; and `InOrder` was a function, of which nothing
  can be said once a NaN is in the list. The run has such documents now.

Assumptions of the proofs are the named ASSUMEs of the modules: special values
are distinct from ordinary ones, budgets and ceilings are positive, `MetaOf`
gives each key a metadata value (the code derives both from the same
identity payload); requests, plans, decks and recordings are well formed, with
frame times that do not go back; documents are JSON values of bounded depth. TLC evaluates them in every run. Two theorems
have a hypothesis besides: `MayStop = FALSE` for `VerdictIsBacked` and
`ViolationFails`; the run `verdicts_stopped` shows what happens without it.

Only model-checked:

- liveness (`CallsReturn`, `RequestsEnd`, `RunsEnd`), which is out of the
  prover's reach;
- what the violated runs show, by a counterexample.

## 5. Findings

- `cache_raises`: a cache file that is not UTF-8, or is JSON but no object, makes
  get raise, and with it every later run of the request, although the
  architecture document calls it a miss. (Files that only fail to parse or to
  match are misses but, other than the document says, stay on disk.)
- `engine_two_names`: the extension of a delivery is measured but is not part of
  the identity, so a report for `x.mp4` is reused for the same content named
  `x.mov`. `ReuseIsSafe` fails in two more ways, which this run does not show but
  its configuration does with `Requests <- MCReference` and `MaxUpgrades = 1`, or
  with `Requests <- MCRoles`, `Paths = {mp4, srt}` and `MaxEdits = 0`: the report
  depends on whether libvmaf was detected, which is not in the identity, and a
  delivery's fingerprints lose their roles, so a subtitle and a reference with
  the same content are confused.
- `engine_race`: a file that is replaced between fingerprint and measurement
  leaves a report of the new content cached under the old one. ffmpeg replaced
  between the detection of its version and the measurement does the same.
- `verdicts_silence`: a silence that lasts to the end of an input without a known
  duration has no length, and the checks on silence read that as none at all: the
  report can say PASS with no pass failed or stopped. A neighbour of this that no
  run shows, because the verdict of the report is UNKNOWN all the same
  (`VerdictIsBacked`): without ffmpeg the checks for black frames, frozen frames
  and luminance are PASS, one by one, though nothing was measured (`rules.py` 355,
  376, 416); `Defaulted` has them.
- `verdicts_stopped`: the exit status of the decoding passes is not looked at;
  an ffmpeg that dies without one of a dozen phrases leaves a PASS.
- `subtitle_limits`: cues and gaps are listed if they exceed the *parameters* of
  the measurement (7 and 5 seconds by default), and the rule only judges what is
  listed. A rule stricter than the parameter passes what it forbids, and of
  `max_cue_duration_sec` and `max_line_length` only the presence counts, so a laxer
  rule warns about what it allows.
- `timeline_ends`: segments are documented as half-open and compared as closed, and
  the first one listed wins, so a correct delivery of reordered segments can FAIL.

## 6. Plan

Built: the cache, the runner, the engine, the verdicts, the algorithms behind
three checks, request parsing and the release job, and the proofs of all safety
properties the runs check. What would come next:

1. Composition: the measuring steps of `ReportEngine` refined by `Verdicts`.
2. The retry without libvmaf in `analyze_reference_metrics`, and the totals of
   frozen and black time, as part of `Verdicts`.

## 7. Not modelled

- Contract and doctor: tables printed as JSON, and a summary of what
  `detect_capabilities` found, which the engine and runner models cover.
- Path policy: checks over the text of a path. The engine model takes their
  outcome: a file, a missing file, an error.
- Errors and printing: codes and exit codes appear by name.
- The parsers of ffprobe, ffmpeg and subtitle text: text processing. What they
  leave unread is in the models (`Null` cues, missing facts, `None`).
- Colour, contrast, loudness and quality figures: floating point; the models
  have what the comparison with a limit makes of them.
- The Windows branch of `_kill_group`, and the argument lists of the tools.
