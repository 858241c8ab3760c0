---------------------------- MODULE ReportEngine ----------------------------
(***************************************************************************)
(* One qc run after the other in each of several processes (cmd_run,       *)
(* run_report, _run_report, _run_delivery_package): capability detection,  *)
(* fingerprints, identity, reuse, measurement, storing and the two checks  *)
(* of the deadline.  The cache is AbstractCache, which ReportCache         *)
(* implements.  Meanwhile input files change, ffmpeg is replaced, cached   *)
(* entries are lost and processes are killed.                              *)
(*                                                                         *)
(* A report is the identity it is stored under and the facts it was        *)
(* measured from; equal facts give equal reports.                          *)
(***************************************************************************)
EXTENDS Naturals, FiniteSets, Sequences

CONSTANTS Procs, Requests, Paths, Contents, Versions, None,
          Miss, Stored, Raised,
          ExtOf,       \* ExtOf[path]: the file name extension of a path
          MaxRuns, MaxEdits, MaxUpgrades, MaxLosses, MaxCrashes   \* bounds

\* What _run_report may read: the input, the subtitle and the reference of a
\* request, or the artifacts of a delivery package.
Slots == 1..3

Kinds == {"video", "audio", "subtitle", "delivery", "delivery_package"}

Operations == {"inspect", "check", "validate"}

\* Every request has an input, and every package an artifact (schemas.py).
ASSUME RequestAssumption ==
    /\ Requests # {}
    /\ Requests \subseteq
          [kind : Kinds, operation : Operations, metrics : BOOLEAN,
           policy : {"use", "bypass", "only"}, cached : BOOLEAN, timed : BOOLEAN,
           paths : [Slots -> Paths \cup {None}]]
    /\ \A q \in Requests : q.paths[1] # None
ASSUME FileAssumption ==
    /\ None \notin Paths \cup Contents \cup Versions /\ DOMAIN ExtOf = Paths
    /\ Contents # {}
ASSUME BoundAssumption ==
    {MaxRuns, MaxEdits, MaxUpgrades, MaxLosses, MaxCrashes} \subseteq Nat

VARIABLES file,    \* file[path]: its content, or None
          ffmpeg,  \* the installed build: its version, and has it libvmaf?
          pc, req, late, caps,
          hashed,  \* hashed[p]: the fingerprints p has taken so far
          seen,    \* seen[p]: what p's measurements have read so far
          built,   \* the ffmpeg version that took them
          disturbed, \* history: did a file p fingerprinted, or the ffmpeg it
                     \* detected, change before p was done measuring?
          mixed,   \* history: the reports that disturbed runs have stored
          answer,  \* how p's last run ended
          cur, phase, key, arg, result,          \* the cache
          runs, edits, upgrades, losses, crashes

cache == <<cur, phase, key, arg, result>>
env == <<file, ffmpeg, edits, upgrades, losses, mixed>>
known == <<caps, hashed, seen, built, disturbed>>
run == <<pc, req, late, known, answer>>
vars == <<env, run, cache, runs, crashes>>

----------------------------------------------------------------------------
(* Identities and reports. *)

\* _wants_reference_metrics of the applicable rule.
ReadsReference(q) ==
    \/ q.kind = "subtitle"
    \/ q.kind \in {"video", "delivery"} /\ q.metrics

\* The files a request reads; the others it names are ignored.
Reads(q) ==
    {s \in Slots :
        /\ q.paths[s] # None
        /\ s = 2 => q.kind \in {"delivery", "delivery_package"}
        /\ s = 3 => q.kind = "delivery_package" \/ ReadsReference(q)}

\* The order the files are fingerprinted in.
HashOrder == <<1, 2, 3>>

MayBeMissing(q) == q.kind = "delivery_package"

\* A package keeps the artifact a fingerprint belongs to; every other kind
\* lists the fingerprints it has, one after the other.
AssetFingerprints(q, h) ==
    IF q.kind = "delivery_package"
    THEN h
    ELSE LET order == SelectSeq(HashOrder, LAMBDA s : s \in DOMAIN h)
         IN  [i \in DOMAIN order |-> h[order[i]]]

IdentityOfInput(q, h, version) ==
    [kind |-> q.kind, operation |-> q.operation, metrics |-> q.metrics,
     assets |-> <<h[1]>>, version |-> version]
\* _identity: sha256 taken to be collision-free.  The rules are told apart
\* by whether they ask for reference metrics.
Identity(q, h, version) ==
    [kind |-> q.kind, operation |-> q.operation, metrics |-> q.metrics,
     assets |-> AssetFingerprints(q, h), version |-> version]

\* Reference metrics need a reference and ffmpeg; VMAF also needs libvmaf.
Vmaf(q, c) ==
    q.metrics /\ q.kind \in {"video", "delivery"} /\ q.paths[3] # None /\ c.vmaf

\* Only a delivery, packaged or not, reports the extension.
Extension(q, s) ==
    IF q.kind = "delivery_package" \/ (q.kind = "delivery" /\ s = 1)
    THEN ExtOf[q.paths[s]] ELSE None

Reading(q, s, c) == [content |-> c, ext |-> IF c = None THEN None ELSE Extension(q, s)]

\* Everything a report says, from what was read and what it was read with.
Facts(q, readings, version, c) ==
    [kind |-> q.kind, operation |-> q.operation, metrics |-> q.metrics,
     readings |-> readings, version |-> version, vmaf |-> Vmaf(q, c)]

Capabilities == [version : Versions \cup {None}, vmaf : BOOLEAN]

Hashes(q) == [Reads(q) -> IF MayBeMissing(q) THEN Contents \cup {None} ELSE Contents]

Keys == UNION {{Identity(q, h, v) : h \in Hashes(q), v \in Versions \cup {None}}
               : q \in Requests}

Readings == [content : Contents \cup {None}, ext : {ExtOf[x] : x \in Paths} \cup {None}]

Reports ==
    [identity : Keys,
     facts : [kind : Kinds, operation : Operations, metrics : BOOLEAN,
              readings : UNION {[S -> Readings] : S \in SUBSET Slots},
              version : Versions \cup {None}, vmaf : BOOLEAN]]

AnyReport ==
    LET q == CHOOSE q \in Requests : TRUE
        h == CHOOSE h \in Hashes(q) : TRUE
    IN  [identity |-> Identity(q, h, None),
         facts |-> Facts(q, [s \in Reads(q) |-> Reading(q, s, h[s])], None,
                         [version |-> None, vmaf |-> FALSE])]

Cache == INSTANCE AbstractCache

\* No call of the cache is answered with something it could have stored.
ASSUME AnswerAssumption ==
    /\ {None, Miss, Stored, Raised} \cap Reports = {}
    /\ Miss # None /\ Stored \notin {None, Miss} /\ Raised \notin {None, Miss, Stored}

NoFiles == [s \in {} |-> None]
With(f, s, c) == [t \in DOMAIN f \cup {s} |-> IF t = s THEN c ELSE f[t]]
NoCapabilities == [version |-> None, vmaf |-> FALSE]

Init ==
    /\ file \in [Paths -> Contents \cup {None}]
    /\ ffmpeg \in [version : Versions, vmaf : BOOLEAN]
    /\ pc = [p \in Procs |-> "idle"]
    /\ req \in [Procs -> {CHOOSE q \in Requests : TRUE}]
    /\ late = [p \in Procs |-> FALSE]
    /\ caps = [p \in Procs |-> NoCapabilities]
    /\ hashed = [p \in Procs |-> NoFiles] /\ seen = [p \in Procs |-> NoFiles]
    /\ built = [p \in Procs |-> None]
    /\ disturbed = [p \in Procs |-> FALSE] /\ mixed = {}
    /\ answer = [p \in Procs |-> "none"]
    /\ cur = [k \in Keys |-> None]
    /\ phase = [p \in Procs |-> "idle"]
    /\ key = [p \in Procs |-> AnyReport.identity]
    /\ arg = [p \in Procs |-> AnyReport]
    /\ result = [p \in Procs |-> None]
    /\ runs = 0 /\ edits = 0 /\ upgrades = 0 /\ losses = 0 /\ crashes = 0

----------------------------------------------------------------------------
Goto(p, l) == pc' = [pc EXCEPT ![p] = l]

\* The process ends; what it knew is gone.
Finish(p, a) ==
    /\ Goto(p, "idle")
    /\ answer' = [answer EXCEPT ![p] = a]
    /\ late' = [late EXCEPT ![p] = FALSE]
    /\ caps' = [caps EXCEPT ![p] = NoCapabilities]
    /\ hashed' = [hashed EXCEPT ![p] = NoFiles]
    /\ seen' = [seen EXCEPT ![p] = NoFiles]
    /\ built' = [built EXCEPT ![p] = None]
    /\ disturbed' = [disturbed EXCEPT ![p] = FALSE]

Proceed(p, l) == Goto(p, l) /\ UNCHANGED <<answer, late, known>>

KeyOf(p) == Identity(req[p], hashed[p], caps[p].version)

\* The report p has measured.
Measured(p) ==
    [identity |-> KeyOf(p),
     facts |-> Facts(req[p], seen[p], built[p], caps[p])]

Run(p, q) ==
    /\ pc[p] = "idle" /\ runs < MaxRuns
    /\ runs' = runs + 1
    /\ Goto(p, "detect")
    /\ req' = [req EXCEPT ![p] = q]
    /\ answer' = [answer EXCEPT ![p] = "none"]
    /\ UNCHANGED <<env, late, known, cache, crashes>>

\* detect_capabilities: ffmpeg -version and ffmpeg -filters may each fail or
\* hang; what they would have said is then missing.
Detect(p) ==
    /\ pc[p] = "detect"
    /\ \/ /\ ~late[p]
          /\ \E c \in {ffmpeg, [ffmpeg EXCEPT !.vmaf = FALSE], NoCapabilities} :
                caps' = [caps EXCEPT ![p] = c]
          /\ Goto(p, "start")
          /\ UNCHANGED <<answer, late, hashed, seen, built, disturbed>>
       \/ Finish(p, IF late[p] THEN "TIMEOUT" ELSE "error")
    /\ UNCHANGED <<env, req, cache, runs, crashes>>

\* run_report 391, then _run_report 400-401 (no ffprobe).
Start(p) ==
    /\ pc[p] = "start"
    /\ \/ late[p] /\ Finish(p, "TIMEOUT")
       \/ ~late[p] /\ Finish(p, "error")
       \/ ~late[p] /\ Proceed(p, "hash")
    /\ UNCHANGED <<env, req, cache, runs, crashes>>

\* s comes first, in this order, of the files q reads that are not in f yet.
IsNext(order, q, f, s) ==
    LET todo == Reads(q) \ DOMAIN f IN
    /\ s \in todo
    /\ \A i, j \in DOMAIN order : order[i] = s /\ j < i => order[j] \notin todo

MeasureOrder(q) ==
    CASE q.kind = "subtitle" -> <<3, 1, 2>>
      [] q.kind = "delivery" -> <<1, 3, 2>>
      [] OTHER -> <<1, 2, 3>>

HashMissing(p) ==
    /\ pc[p] = "hash"
    /\ \E s \in Slots :
          /\ IsNext(HashOrder, req[p], hashed[p], s)
          /\ hashed' = [hashed EXCEPT ![p] = With(@, s, file[req[p].paths[s]])]
          /\ UNCHANGED <<pc, answer, late, caps, seen, built, disturbed>>
    /\ UNCHANGED <<env, req, cache, runs, crashes>>
\* resolve_input and sha256_file of one file.
Hash(p) ==
    /\ pc[p] = "hash"
    /\ \E s \in Slots :
          /\ IsNext(HashOrder, req[p], hashed[p], s)
          /\ LET c == file[req[p].paths[s]] IN
             \/ /\ c # None \/ MayBeMissing(req[p])
                /\ hashed' = [hashed EXCEPT ![p] = With(@, s, c)]
                /\ UNCHANGED <<pc, answer, late, caps, seen, built, disturbed>>
             \/ Finish(p, "error")
    /\ UNCHANGED <<env, req, cache, runs, crashes>>

Reusing(q) == q.cached /\ q.policy \in {"use", "only"}

\* 454-471: the cache is asked, or the request measures at once.
Lookup(p) ==
    /\ pc[p] = "hash"
    /\ DOMAIN hashed[p] = Reads(req[p])
    /\ \/ Reusing(req[p]) /\ Cache!BeginGet(p, KeyOf(p)) /\ Proceed(p, "asked")
       \/ /\ ~Reusing(req[p])
          /\ IF req[p].policy = "only" THEN Finish(p, "error") ELSE Proceed(p, "measure")
          /\ UNCHANGED cache
    /\ UNCHANGED <<env, req, runs, crashes>>

AfterGetRetries(p) ==
    /\ pc[p] = "asked" /\ phase[p] = "idle"
    /\ \/ result[p] = Miss /\ Proceed(p, IF req[p].policy = "use" THEN "measure" ELSE "hash")
       \/ result[p] = Raised /\ Proceed(p, "hash")
       \/ result[p] \notin {Miss, Raised} /\ Proceed(p, "hit")
    /\ UNCHANGED <<env, req, cache, runs, crashes>>
\* 456-471: get has returned or raised.
AfterGet(p) ==
    /\ pc[p] = "asked" /\ phase[p] = "idle"
    /\ \/ /\ result[p] = Miss
          /\ IF req[p].policy = "only" THEN Finish(p, "error") ELSE Proceed(p, "measure")
       \/ result[p] = Raised /\ Finish(p, "error")
       \/ result[p] \notin {Miss, Raised} /\ Proceed(p, "hit")
    /\ UNCHANGED <<env, req, cache, runs, crashes>>

\* ffprobe or ffmpeg reads the file; subtitles are parsed in Python.
RunsAChild(q, s) == ~(q.kind = "subtitle" /\ s = 1) /\ ~(q.kind = "delivery" /\ s = 2)

\* 473-517: the next file is measured, with the ffmpeg installed by now if
\* it was detected.  An artifact that was missing is not looked for again.
Measure(p) ==
    /\ pc[p] = "measure"
    /\ \E s \in Reads(req[p]) :
          LET wanted == hashed[p][s] # None
              over == late[p] /\ RunsAChild(req[p], s)
              c == IF wanted THEN file[req[p].paths[s]] ELSE None
          IN
          /\ IsNext(MeasureOrder(req[p]), req[p], seen[p], s)
          /\ \/ /\ wanted => c # None /\ ~over
                /\ seen' = [seen EXCEPT ![p] = With(@, s, Reading(req[p], s, c))]
                /\ built' = [built EXCEPT ![p] =
                                IF caps[p].version = None THEN None ELSE ffmpeg.version]
                /\ UNCHANGED <<pc, answer, late, caps, hashed, disturbed>>
             \/ wanted /\ Finish(p, IF over THEN "TIMEOUT" ELSE "error")
    /\ UNCHANGED <<env, req, cache, runs, crashes>>

\* What p hands to the cache is recorded if something changed under it.
Mixing(p) == mixed' = IF disturbed[p] THEN mixed \cup {Measured(p)} ELSE mixed

StoreUnlessLate(p) ==
    /\ pc[p] = "measure"
    /\ DOMAIN seen[p] = Reads(req[p])
    /\ IF req[p].cached /\ req[p].policy = "use" /\ ~late[p]
       THEN Cache!BeginSet(p, KeyOf(p), Measured(p)) /\ Proceed(p, "storing") /\ Mixing(p)
       ELSE UNCHANGED <<cache, mixed>> /\ Proceed(p, "new")
    /\ UNCHANGED <<file, ffmpeg, edits, upgrades, losses, req, runs, crashes>>
StoreUnlessOnly(p) ==
    /\ pc[p] = "measure"
    /\ DOMAIN seen[p] = Reads(req[p])
    /\ IF req[p].cached
       THEN Cache!BeginSet(p, KeyOf(p), Measured(p)) /\ Proceed(p, "storing") /\ Mixing(p)
       ELSE UNCHANGED <<cache, mixed>> /\ Proceed(p, "new")
    /\ UNCHANGED <<file, ffmpeg, edits, upgrades, losses, req, runs, crashes>>
\* 558-559.
Store(p) ==
    /\ pc[p] = "measure"
    /\ DOMAIN seen[p] = Reads(req[p])
    /\ IF req[p].cached /\ req[p].policy = "use"
       THEN Cache!BeginSet(p, KeyOf(p), Measured(p)) /\ Proceed(p, "storing") /\ Mixing(p)
       ELSE UNCHANGED <<cache, mixed>> /\ Proceed(p, "new")
    /\ UNCHANGED <<file, ffmpeg, edits, upgrades, losses, req, runs, crashes>>

\* set has returned or raised.
AfterSet(p) ==
    /\ pc[p] = "storing" /\ phase[p] = "idle"
    /\ IF result[p] = Stored THEN Proceed(p, "new") ELSE Finish(p, "error")
    /\ UNCHANGED <<env, req, cache, runs, crashes>>

\* run_report 393-395: the deadline is checked once more, for a hit too.
Respond(p) ==
    /\ pc[p] \in {"hit", "new"}
    /\ Finish(p, IF late[p] THEN "TIMEOUT" ELSE pc[p])
    /\ UNCHANGED <<env, req, cache, runs, crashes>>

\* The steps of a get or set that is under way.
CacheStep(p) ==
    /\ \/ Cache!GetHit(p) \/ Cache!GetMiss(p) \/ Cache!FinishMiss(p)
       \/ Cache!Put(p) \/ Cache!FailSet(p) \/ Cache!EndSet(p)
    /\ UNCHANGED <<env, run, runs, crashes>>

----------------------------------------------------------------------------
(* The environment. *)

Expire(p) ==
    /\ pc[p] # "idle" /\ req[p].timed /\ ~late[p]
    /\ late' = [late EXCEPT ![p] = TRUE]
    /\ UNCHANGED <<env, pc, req, known, answer, cache, runs, crashes>>

\* The process is killed wherever it is.
Crash(p) ==
    /\ crashes < MaxCrashes /\ pc[p] # "idle"
    /\ crashes' = crashes + 1
    /\ IF phase[p] = "idle" THEN UNCHANGED cache ELSE Cache!Crash(p)
    /\ Finish(p, "none")
    /\ UNCHANGED <<env, req, runs>>

\* The files p has fingerprinted and is still to measure.
ToMeasure(p) ==
    {req[p].paths[s] : s \in {t \in DOMAIN hashed[p] \ DOMAIN seen[p] : hashed[p][t] # None}}

\* p has asked for the version of ffmpeg and is not done measuring with it.
ToMeasureWith(p) ==
    pc[p] \in {"start", "hash", "asked", "measure"} /\ caps[p].version # None

Edit(x, c) ==
    /\ edits < MaxEdits /\ c # file[x]
    /\ edits' = edits + 1
    /\ file' = [file EXCEPT ![x] = c]
    /\ disturbed' = [p \in Procs |-> disturbed[p] \/ x \in ToMeasure(p)]
    /\ UNCHANGED <<ffmpeg, upgrades, losses, mixed, pc, req, late, caps, hashed, seen, built,
                   answer, cache, runs, crashes>>

\* Another ffmpeg, of another version or with another configuration, is
\* installed, between two runs or under one.
Upgrade(f) ==
    /\ upgrades < MaxUpgrades /\ f # ffmpeg
    /\ upgrades' = upgrades + 1
    /\ ffmpeg' = f
    /\ disturbed' = [p \in Procs |-> disturbed[p] \/ ToMeasureWith(p)]
    /\ UNCHANGED <<file, edits, losses, mixed, pc, req, late, caps, hashed, seen, built,
                   answer, cache, runs, crashes>>

Lose(k) ==
    /\ losses < MaxLosses /\ cur[k] # None
    /\ losses' = losses + 1
    /\ Cache!Lose(k)
    /\ UNCHANGED <<file, ffmpeg, edits, upgrades, mixed, run, runs, crashes>>

Work(p) ==
    \/ Detect(p) \/ Start(p) \/ Hash(p) \/ Lookup(p) \/ AfterGet(p) \/ Measure(p)
    \/ Store(p) \/ AfterSet(p) \/ Respond(p) \/ CacheStep(p)

Environment ==
    \/ \E x \in Paths, c \in Contents \cup {None} : Edit(x, c)
    \/ \E f \in [version : Versions, vmaf : BOOLEAN] : Upgrade(f)
    \/ \E k \in Keys : Lose(k)

Next ==
    \/ \E p \in Procs :
          \/ \E q \in Requests : Run(p, q)
          \/ Work(p) \/ Expire(p) \/ Crash(p)
    \/ Environment

\* A run goes on until it answers; nothing in it waits for another process.
Fairness == \A p \in Procs : WF_vars(Work(p))

SafeSpec == Init /\ [][Next]_vars

Spec == SafeSpec /\ Fairness

----------------------------------------------------------------------------
TypeOK ==
    /\ file \in [Paths -> Contents \cup {None}]
    /\ ffmpeg \in [version : Versions, vmaf : BOOLEAN]
    /\ pc \in [Procs -> {"idle", "detect", "start", "hash", "asked", "measure",
                         "storing", "hit", "new"}]
    /\ req \in [Procs -> Requests]
    /\ late \in [Procs -> BOOLEAN]
    /\ caps \in [Procs -> Capabilities]
    /\ \A p \in Procs :
          /\ pc[p] # "idle" => DOMAIN hashed[p] \subseteq Reads(req[p])
          /\ pc[p] \in {"asked", "measure", "storing", "hit", "new"} =>
                DOMAIN hashed[p] = Reads(req[p]) /\ KeyOf(p) \in Keys
          /\ pc[p] \in {"storing", "new"} => Measured(p) \in Reports
          /\ pc[p] \notin {"asked", "storing"} => phase[p] = "idle"
    /\ built \in [Procs -> Versions \cup {None}]
    /\ disturbed \in [Procs -> BOOLEAN] /\ mixed \subseteq Reports
    /\ answer \in [Procs -> {"none", "error", "TIMEOUT", "hit", "new"}]
    /\ DOMAIN cur = Keys

\* What the readings of a report would have been fingerprinted as.
ContentsOf(r, q) ==
    AssetFingerprints(q, [s \in DOMAIN r.facts.readings |->
                             r.facts.readings[s].content])

\* The report r was measured for the kind, operation and rules of p's
\* request, from files of the very contents p has fingerprinted, with the
\* version of ffmpeg p has detected.
Answers(p, r) ==
    /\ r.facts.kind = req[p].kind
    /\ r.facts.operation = req[p].operation
    /\ r.facts.metrics = req[p].metrics
    /\ ContentsOf(r, req[p]) = AssetFingerprints(req[p], hashed[p])
    /\ r.facts.version = caps[p].version

\* What cache.py 3-7 says of every reused report.
ReuseAsDocumented ==
    \A p \in Procs : pc[p] = "hit" => Answers(p, result[p])

\* The same, of every reused report but one that was stored by a run under
\* which a file it had fingerprinted, or the ffmpeg it had detected, changed
\* before it was done measuring.  That exception is the finding of the run
\* that checks ReuseAsDocumented.
ReuseUnlessDisturbed ==
    \A p \in Procs : pc[p] = "hit" /\ result[p] \notin mixed => Answers(p, result[p])

\* No other process has run so far, and nothing was lost.
Alone(p) ==
    /\ losses = 0 /\ crashes = 0
    /\ \A q \in Procs \ {p} : pc[q] = "idle" /\ answer[q] = "none"

\* A report whose measurement was complete is in the cache before the last
\* check of the deadline can turn the answer into TIMEOUT, so that a retry
\* returns it at once (docs/decisions.md 594-597).  Once other processes have
\* run, the entry may be gone again or be another measurement of the same.
LateReportKept ==
    \A p \in Procs : pc[p] = "new" /\ Reusing(req[p]) =>
        /\ result[p] = Stored /\ key[p] = KeyOf(p)
        /\ Alone(p) => cur[KeyOf(p)] = Measured(p)

\* bypass neither reads nor writes the cache, only measures and writes
\* nothing, and every completed answer under only is a hit
\* (docs/architecture.md 121-126).
PolicyRespected ==
    [][\A p \in Procs :
          /\ phase'[p] # phase[p] => req[p].cached /\ req[p].policy # "bypass"
          /\ phase'[p] = "setting" => req[p].policy = "use"
          /\ seen'[p] # NoFiles => req[p].policy # "only"
          /\ answer'[p] = "new" => req'[p].policy # "only"]_vars

\* Every run answers or is killed, whatever the cache and the others do.
RunsEnd == \A p \in Procs : pc[p] # "idle" ~> pc[p] = "idle"

\* README.md 229: reports can be safely reused.  A reused report says what
\* measuring the files the request fingerprinted, with the ffmpeg it
\* detected, would say.
ReuseIsSafe ==
    \A p \in Procs : pc[p] = "hit" =>
        result[p].facts =
            Facts(req[p], [s \in Reads(req[p]) |-> Reading(req[p], s, hashed[p][s])],
                  caps[p].version, caps[p])
=============================================================================
