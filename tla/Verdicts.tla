------------------------------ MODULE Verdicts ------------------------------
(***************************************************************************)
(* How one request becomes a verdict: the measuring passes over each       *)
(* asset, in the order _run_report and _run_delivery_package take them,    *)
(* then rule evaluation and the worst-wins aggregate.                      *)
(*                                                                         *)
(* Checks that treat a measurement alike are one check here: video.codec   *)
(* stands for every comparison with an ffprobe fact, audio.silence for the *)
(* three silence checks, video.ssim for SSIM and PSNR, subtitle.structure  *)
(* for timestamps and control characters, subtitle.overlaps for overlaps   *)
(* and duplicate ids, subtitle.limits for lines, cue durations and gaps.   *)
(*                                                                         *)
(* A measurement says of a check None (it is missing), "fine", "bad",      *)
(* "open" (it leaves the check undecided) or "cut" (no violation in what   *)
(* was read before ffmpeg stopped).                                        *)
(***************************************************************************)
EXTENDS Naturals, Sequences

CONSTANTS Requests, None,
          MayStop  \* may ffmpeg stop early without a line qc takes for an error?

Streams == {"video", "audio", "subtitle"}

Kinds == Streams \cup {"delivery", "delivery_package"}

ArtifactTypes == Streams \cup {"thumbnail", "metadata", "other"}

Types == ArtifactTypes \cup {"delivery"}

Status == {"PASS", "WARN", "UNKNOWN", "FAIL"}

Values == {None, "fine", "bad", "open", "cut"}

\* The checks each pass measures for.
Measures ==
    [stat    |-> {"file.size", "file.extension"},
     probe   |-> {"file.container", "video.duration", "video.frame_rate",
                  "video.resolution", "video.codec", "audio.sample_rate"},
     decode  |-> {"video.decodes", "video.black", "video.freeze", "video.luminance"},
     temporal |-> {"video.flashes", "video.cuts"},
     text    |-> {"video.text"},
     compare |-> {"video.vmaf", "video.ssim"},
     analyse |-> {"audio.decodes", "audio.clipping", "audio.silence",
                  "audio.loudness", "audio.balance"},
     parse   |-> {"subtitle.structure", "subtitle.empty", "subtitle.overlaps",
                  "subtitle.limits", "subtitle.duration", "subtitle.coverage",
                  "subtitle.timeline"}]

FileChecks == Measures.stat \cup {"file.container"}
VideoChecks == Measures.decode \cup Measures.temporal \cup Measures.text \cup Measures.compare
               \cup {"video.duration", "video.frame_rate", "video.resolution", "video.codec"}
AudioChecks == Measures.analyse \cup {"audio.sample_rate"}
SubtitleChecks == Measures.parse
Checks == FileChecks \cup VideoChecks \cup AudioChecks \cup SubtitleChecks

ChecksOf(s) ==
    CASE s = "video" -> VideoChecks [] s = "audio" -> AudioChecks [] OTHER -> SubtitleChecks

\* The checks that run whatever the rules say.
Baseline == {"video.decodes", "audio.decodes", "audio.clipping",
             "subtitle.structure", "subtitle.empty"}

\* `_val(...) or []`, `or 0.0`: a missing measurement counts as nothing found.
Defaulted == {"video.black", "video.freeze", "video.luminance", "audio.silence",
              "subtitle.structure", "subtitle.empty", "subtitle.overlaps",
              "subtitle.limits"}

\* `_val(...) or 0.0`, `if s.get("duration") is not None`: so does a silence
\* that lasts to the end of a file whose duration is not known.
Overlooked == {"audio.silence"}

\* A missing measurement counts as a mismatch.
Strict == FileChecks

Warned == {"subtitle.empty", "subtitle.limits", "subtitle.coverage"}

\* The passes in the order an asset goes through them; reference is the
\* probe of a subtitle's reference video.
Order == <<"stat", "reference", "probe", "decode", "temporal", "text", "compare",
           "analyse", "parse">>

Passes == {Order[k] : k \in DOMAIN Order}

\* One asset with the rule for it: of what type it is, which of the rules
\* video, audio and subtitle are given, the checks they ask for, what they
\* require themselves (own) and what the delivery rule requires (require).
Asset == [type : Types, given : SUBSET Streams, wants : SUBSET Checks,
          own : [{"audio", "subtitle"} -> {None} \cup BOOLEAN],
          require : [Streams -> {None} \cup BOOLEAN],
          ruled : BOOLEAN, required : BOOLEAN]

ASSUME NoneAssumption ==
    None \notin BOOLEAN /\ None \notin {"fine", "bad", "open", "cut"}
ASSUME RequestAssumption ==
    \A q \in Requests :
        /\ q.kind \in Kinds /\ q.inspect \in BOOLEAN /\ q.reference \in BOOLEAN
        /\ q.assets \in Seq(Asset)
        /\ q.durations \subseteq DOMAIN q.assets
        /\ q.dependencies \subseteq (DOMAIN q.assets) \X (DOMAIN q.assets)
        /\ q.kind = "delivery_package" =>
              \A i \in DOMAIN q.assets :
                 /\ q.assets[i].type \in ArtifactTypes
                 /\ ~q.assets[i].ruled => q.assets[i].given = {} /\ q.assets[i].wants = {}
        /\ q.kind # "delivery_package" =>
              /\ Len(q.assets) = 1 /\ q.assets[1].type = q.kind
              /\ q.durations = {} /\ q.dependencies = {}
        /\ \A i \in DOMAIN q.assets : \A c \in q.assets[i].wants :
              \/ c \in FileChecks /\ q.kind \in {"delivery", "delivery_package"}
              \/ \E s \in q.assets[i].given : c \in ChecksOf(s)
ASSUME StopAssumption == MayStop \in BOOLEAN

VARIABLES req,
          has,      \* has[i]: the streams asset i really has
          there,    \* there[i]: is the file of asset i there?
          agree,    \* do the durations of the assets agree?
          tools,    \* the subset of {"ffmpeg", "libvmaf"} detected
          at, left, \* the asset being measured and the passes left for it
          stream,   \* stream[i][s]: what was measured of stream s, or None
          lacks,    \* lacks[i]: what ffprobe did not report of asset i
          facts,    \* facts[i][c]: what was measured for check c
          outcome, report

world == <<req, has, there, agree, tools>>
vars == <<world, at, left, stream, lacks, facts, outcome, report>>

Assets == DOMAIN req.assets

\* _gather_* by type: what is looked for in an asset.
LookedFor(type) ==
    CASE type = "delivery" -> Streams
      [] type = "video" -> {"video", "audio"}
      [] type \in {"audio", "subtitle"} -> {type}
      [] OTHER -> {}

Looking(type) ==
    CASE type \in {"video", "audio", "delivery"} -> {"probe"}
      [] type = "subtitle" -> {"parse"}
      [] OTHER -> {}

\* The passes asset i starts with.
FirstPasses(q, i) ==
    IF q.kind = "delivery_package" THEN {"stat"}
    ELSE Looking(q.assets[i].type)
         \cup (IF q.kind = "subtitle" /\ q.reference THEN {"reference"} ELSE {})
         \cup (IF q.kind = "delivery" THEN {"stat"} ELSE {})

Init ==
    /\ req \in Requests
    /\ has \in [Assets -> SUBSET Streams]
    /\ there \in [Assets -> BOOLEAN]
    /\ \A i \in Assets :
          /\ there[i] \/ req.kind = "delivery_package"
          /\ has[i] = {} \/ there[i]
          /\ req.assets[i].type = "subtitle" /\ there[i] => has[i] = {"subtitle"}
          /\ req.assets[i].type \in {"video", "audio"} => "subtitle" \notin has[i]
    /\ agree \in BOOLEAN
    /\ tools \in {{}, {"ffmpeg"}, {"ffmpeg", "libvmaf"}}
    /\ at = 1
    /\ left = IF Assets = {} THEN {} ELSE FirstPasses(req, 1)
    /\ stream = [i \in Assets |-> [s \in Streams |-> None]]
    /\ lacks = [i \in Assets |-> {}]
    /\ facts = [i \in Assets |-> [c \in Checks |-> None]]
    /\ outcome = "running"
    /\ report = {}

----------------------------------------------------------------------------
(* Measuring. *)

Current == req.assets[at]

Measuring(p) ==
    /\ outcome = "running" /\ at \in Assets /\ p \in left
    /\ \A j, k \in DOMAIN Order : Order[k] = p /\ j < k => Order[j] \notin left

Applies(i, c) == c \in Baseline \/ c \in req.assets[i].wants

\* What a pass that ran to its end may find for check c.
Findings(c) ==
    CASE c \in {"video.freeze", "audio.silence"} ->
            {"fine", "bad"} \cup (IF "duration" \in lacks[at] THEN {"open"} ELSE {})
      [] c = "video.cuts" -> IF "frame_rate" \in lacks[at] THEN {None} ELSE {"fine", "bad"}
      [] c = "video.text" ->
            IF "resolution" \in lacks[at] THEN {"open"} ELSE {"fine", "bad", "open"}
      [] c \in Measures.compare ->
            IF \/ ~req.reference \/ req.kind = "delivery_package"
               \/ c = "video.vmaf" /\ "libvmaf" \notin tools
            THEN {None} ELSE {None, "fine", "bad"}
      [] c \in {"subtitle.duration", "subtitle.coverage"} ->
            IF \/ "duration" \in lacks[at] \/ req.kind = "delivery_package"
               \/ req.kind = "subtitle" /\ ~req.reference
            THEN {None} ELSE {"fine", "bad"}
      [] c = "subtitle.timeline" -> {"fine", "bad", "open"}
      [] c \in {"video.flashes", "audio.loudness", "audio.balance"} -> {None, "fine", "bad"}
      [] OTHER -> {"fine", "bad"}

\* What is left of a pass whose ffmpeg stopped early without a word that
\* extract_decode_errors looks for: its exit status is not looked at.
StoppedFindings(c) ==
    CASE c \in {"video.decodes", "audio.decodes", "audio.clipping"} -> {"cut"}
      [] c \in {"audio.loudness", "audio.balance"} -> {None}
      [] c = "video.flashes" -> {None, "cut", "bad"}
      [] c = "video.cuts" /\ "frame_rate" \in lacks[at] -> {None}
      [] OTHER -> {"cut", "bad"}

\* Pass p is over: it found what Readings allows, and more passes follow.
Record(p, Readings(_), more) ==
    LET D == {c \in Measures[p] : Applies(at, c)} IN
    /\ \E f \in [D -> Values] :
          /\ \A c \in D : f[c] \in Readings(c)
          /\ facts' = [facts EXCEPT ![at] =
                          [c \in Checks |-> IF c \in D THEN f[c] ELSE facts[at][c]]]
    /\ left' = (left \ {p}) \cup more

Skip(p) == left' = left \ {p} /\ UNCHANGED facts

StatMissing ==
    /\ Measuring("stat")
    /\ Record("stat", Findings,
              IF req.kind = "delivery_package" THEN Looking(Current.type) ELSE {})
    /\ UNCHANGED <<world, at, stream, lacks, outcome, report>>
\* Its size and extension; a missing artifact of a package is not looked into.
Stat ==
    /\ Measuring("stat")
    /\ IF there[at]
       THEN Record("stat", Findings,
                   IF req.kind = "delivery_package" THEN Looking(Current.type) ELSE {})
       ELSE Skip("stat")
    /\ UNCHANGED <<world, at, stream, lacks, outcome, report>>

\* The probe of the reference video of a subtitle, for its duration.
Reference ==
    /\ Measuring("reference")
    /\ Skip("reference")
    /\ \E l \in SUBSET {"duration"} : lacks' = [lacks EXCEPT ![at] = l]
    /\ UNCHANGED <<world, at, stream, outcome, report>>

\* What ffprobe may leave out, or qc fails to derive.
Missable(c) ==
    CASE c = "video.duration" -> IF "duration" \in lacks'[at] THEN {None} ELSE {"fine", "bad"}
      [] c = "video.frame_rate" -> IF "frame_rate" \in lacks'[at] THEN {None} ELSE {"fine", "bad"}
      [] c = "video.resolution" -> IF "resolution" \in lacks'[at] THEN {None} ELSE {"fine", "bad"}
      [] OTHER -> {None, "fine", "bad"}

\* Without ffmpeg no opt-in measurement is taken either.
VideoPasses ==
    IF "video" \in has[at] /\ Current.type \in {"video", "delivery"} /\ "ffmpeg" \in tools
    THEN {p \in {"decode", "temporal", "text", "compare"} :
             p = "decode" \/ Measures[p] \cap Current.wants # {}}
    ELSE {}

AudioPasses ==
    IF "audio" \in has[at] /\ Current.type \in {"audio", "delivery"} /\ "ffmpeg" \in tools
    THEN {"analyse"} ELSE {}

Probe ==
    /\ Measuring("probe")
    /\ \E l \in SUBSET {"duration", "frame_rate", "resolution"} :
          lacks' = [lacks EXCEPT ![at] = l]
    /\ stream' = [stream EXCEPT ![at] =
                     [s \in Streams |->
                         IF s # "subtitle" /\ s \in LookedFor(Current.type)
                         THEN s \in has[at] ELSE None]]
    /\ Record("probe", Missable,
              VideoPasses \cup AudioPasses
              \cup (IF Current.type = "delivery" THEN {"parse"} ELSE {}))
    /\ UNCHANGED <<world, at, outcome, report>>

\* One run of ffmpeg, whose exit status nobody looks at.
Analyse(p) == Record(p, Findings, {}) \/ (MayStop /\ Record(p, StoppedFindings, {}))

Decode ==
    /\ Measuring("decode") /\ Analyse("decode")
    /\ UNCHANGED <<world, at, stream, lacks, outcome, report>>

Temporal ==
    /\ Measuring("temporal") /\ Analyse("temporal")
    /\ UNCHANGED <<world, at, stream, lacks, outcome, report>>

AnalyseAudio ==
    /\ Measuring("analyse") /\ Analyse("analyse")
    /\ UNCHANGED <<world, at, stream, lacks, outcome, report>>

\* Frames are counted by their bytes here, and the exit status of the
\* comparison is looked at.
Text ==
    /\ Measuring("text") /\ Record("text", Findings, {})
    /\ UNCHANGED <<world, at, stream, lacks, outcome, report>>

Compare ==
    /\ Measuring("compare") /\ Record("compare", Findings, {})
    /\ UNCHANGED <<world, at, stream, lacks, outcome, report>>

\* The subtitle is parsed; a delivery may come without one.
Parse ==
    /\ Measuring("parse")
    /\ stream' = [stream EXCEPT ![at] = [@ EXCEPT !["subtitle"] = "subtitle" \in has[at]]]
    /\ IF "subtitle" \in has[at] THEN Record("parse", Findings, {}) ELSE Skip("parse")
    /\ UNCHANGED <<world, at, lacks, outcome, report>>

\* Any pass that opens a file or starts a child may raise instead.
Fail ==
    /\ \E p \in Passes \ {"stat"} : Measuring(p)
    /\ outcome' = "error"
    /\ UNCHANGED <<world, at, left, stream, lacks, facts, report>>

NextAsset ==
    /\ outcome = "running" /\ at \in Assets /\ left = {}
    /\ at' = at + 1
    /\ left' = IF at + 1 \in Assets THEN FirstPasses(req, at + 1) ELSE {}
    /\ UNCHANGED <<world, stream, lacks, facts, outcome, report>>

----------------------------------------------------------------------------
(* Rule evaluation: what was measured, in; checks, out. *)

VerdictOfNothing(c, v) ==
    CASE v = "bad" -> IF c \in Warned THEN "WARN" ELSE "FAIL"
      [] v = "open" -> IF c \in Overlooked THEN "PASS" ELSE "UNKNOWN"
      [] OTHER -> IF c \in Strict /\ v = None THEN "FAIL" ELSE "PASS"
Verdict(c, v) ==
    CASE v = "bad" -> IF c \in Warned THEN "WARN" ELSE "FAIL"
      [] v \in {"fine", "cut"} -> "PASS"
      [] v = "open" -> IF c \in Overlooked THEN "PASS" ELSE "UNKNOWN"
      [] OTHER -> IF c \in Defaulted THEN "PASS"
                  ELSE IF c \in Strict THEN "FAIL" ELSE "UNKNOWN"

PassOrFail(b) == IF b THEN "PASS" ELSE "FAIL"

Check(i, c, status) == [asset |-> i, check |-> c, status |-> status]

\* The evaluate_* functions called for asset i.
Evaluated(i) ==
    LET a == req.assets[i] IN
    CASE req.kind = "delivery" -> {s \in Streams : s \in a.given \/ a.require[s] # None}
      [] req.kind = "delivery_package" -> a.given
      [] OTHER -> {req.kind}

RequirementOfRule(i, s) ==
    IF s = "video" THEN TRUE ELSE req.assets[i].own[s]
\* _with_requirement, and the default of require_stream.
Requirement(i, s) ==
    LET a == req.assets[i]
        outer == IF req.kind = "delivery" THEN a.require[s] ELSE None
    IN  IF s = "video" THEN (IF outer # None THEN outer ELSE TRUE)
        ELSE IF a.own[s] # None THEN a.own[s] ELSE outer

Present(i, s) == stream[i][s] = TRUE

\* A missing video stream is a FAIL or nothing to complain of; a missing or
\* unexpected audio stream or subtitle is one only if the rules say so.
PresenceChecks(i, s) ==
    LET r == Requirement(i, s) IN
    CASE s = "video" -> {Check(i, "video.stream_present", PassOrFail(Present(i, s) \/ ~r))}
      [] s = "audio" /\ r # None ->
            {Check(i, "audio.stream_present", PassOrFail(stream[i][s] = r))}
      [] s = "subtitle" /\ r # None ->
            {Check(i, "subtitle.presence", PassOrFail(Present(i, s) = r))}
      [] OTHER -> {}

StreamChecks(i, s) ==
    PresenceChecks(i, s)
    \cup {Check(i, c, Verdict(c, facts[i][c])) :
             c \in {c \in ChecksOf(s) : Present(i, s) /\ Applies(i, c)}}

FileVerdicts(i) ==
    {Check(i, c, Verdict(c, facts[i][c])) : c \in FileChecks \cap req.assets[i].wants}

ArtifactChecks(i) ==
    LET a == req.assets[i] IN
    IF ~a.ruled THEN {}
    ELSE {Check(i, "artifact_present", PassOrFail(there[i] \/ ~a.required))}
         \cup (IF there[i]
               THEN FileVerdicts(i) \cup UNION {StreamChecks(i, s) : s \in Evaluated(i)}
               ELSE {})

\* _artifact_duration_sec: a parsed subtitle always has one.
HasDuration(i) ==
    \/ Present(i, "subtitle")
    \/ \E s \in {"video", "audio"} : stream[i][s] # None /\ "duration" \notin lacks[i]

CrossChecks ==
    (IF req.durations = {} THEN {}
     ELSE {Check(0, "duration_consistent",
                 IF \E i \in req.durations : ~HasDuration(i) THEN "UNKNOWN"
                 ELSE PassOrFail(agree))})
    \cup {Check(d[1], "dependency_satisfied", PassOrFail(there[d[2]])) :
             d \in {d \in req.dependencies : there[d[1]]}}

AllChecks ==
    IF req.kind = "delivery_package"
    THEN CrossChecks \cup UNION {ArtifactChecks(i) : i \in Assets}
    ELSE UNION {FileVerdicts(i) \cup UNION {StreamChecks(i, s) : s \in Evaluated(i)}
                : i \in Assets}

\* inspect measures and checks nothing.
Evaluate ==
    /\ outcome = "running" /\ at \notin Assets
    /\ outcome' = "done"
    /\ report' = IF req.inspect THEN {} ELSE AllChecks
    /\ UNCHANGED <<world, at, left, stream, lacks, facts>>

Rank(s) == CASE s = "PASS" -> 0 [] s = "WARN" -> 1 [] s = "UNKNOWN" -> 2 [] OTHER -> 3

Aggregate(statuses) ==
    IF statuses = {} THEN "UNKNOWN"
    ELSE CHOOSE s \in statuses : \A t \in statuses : Rank(t) <= Rank(s)

Overall == Aggregate({r.status : r \in report})

Next ==
    \/ Stat \/ Reference \/ Probe \/ Decode \/ Temporal \/ Text \/ Compare
    \/ AnalyseAudio \/ Parse \/ Fail \/ NextAsset \/ Evaluate

Spec == Init /\ [][Next]_vars

----------------------------------------------------------------------------
\* A pass is only taken on a file that is there.
TypeOK ==
    /\ req \in Requests
    /\ has \in [Assets -> SUBSET Streams] /\ there \in [Assets -> BOOLEAN]
    /\ at \in 1..Len(req.assets) + 1
    /\ left \subseteq Passes
    /\ stream \in [Assets -> [Streams -> BOOLEAN \cup {None}]]
    /\ lacks \in [Assets -> SUBSET {"duration", "frame_rate", "resolution"}]
    /\ facts \in [Assets -> [Checks -> Values]]
    /\ outcome \in {"running", "error", "done"}
    /\ Overall \in Status
    /\ at \in Assets /\ ~there[at] => left \subseteq {"stat"}

\* Check c was asked of a part of asset i that is there and looked into.
Concerns(i, c) ==
    \/ c \in FileChecks /\ c \in req.assets[i].wants /\ there[i]
    \/ /\ Applies(i, c)
       /\ \E s \in Evaluated(i) \cap has[i] :
             c \in ChecksOf(s) /\ s \in LookedFor(req.assets[i].type)

\* A report says PASS only if every check that was asked of something there
\* was measured and is fine, and WARN only if what is not fine is a warning:
\* nothing that could not be measured is behind either, but for the checks
\* that are excused.
NothingBehind(excused) ==
    outcome = "done" /\ Overall \in {"PASS", "WARN"} =>
        /\ \A i \in Assets, c \in Checks : Concerns(i, c) =>
              \/ facts[i][c] = "fine"
              \/ facts[i][c] = "bad" /\ c \in Warned /\ Overall = "WARN"
              \/ facts[i][c] = "open" /\ c \in excused
        /\ req.durations # {} => agree /\ \A i \in req.durations : there[i]
        /\ \A d \in req.dependencies : there[d[1]] => there[d[2]]

\* What README.md 198-205 and models.py 22-25 say: UNKNOWN is never collapsed
\* into PASS nor hidden behind WARN.
VerdictIsSound == NothingBehind({})

\* The same, but for a silence of unknown length, which is the finding of a
\* run of its own: behind every other PASS or WARN everything was measured.
VerdictIsBacked == NothingBehind(Overlooked)

\* The rules for asset i ask for a stream that is not there: the rule of the
\* stream itself, or the delivery's where that one is silent (checks.md 307-309).
Missing(i, s) ==
    LET a == req.assets[i] IN
    /\ s \in Evaluated(i) \ has[i] /\ there[i]
    /\ IF s # "video" /\ a.own[s] # None THEN a.own[s] = TRUE
       ELSE IF req.kind = "delivery" /\ a.require[s] # None THEN a.require[s] = TRUE
       ELSE s = "video"

\* A confirmed violation, or something required that is missing, always makes
\* the report FAIL, whatever else could not be measured (models.py 40-53).
ViolationFails ==
    outcome = "done" /\ ~req.inspect =>
        /\ \A i \in Assets, c \in Checks \ Warned :
              Concerns(i, c) /\ facts[i][c] = "bad" => Overall = "FAIL"
        /\ \A i \in Assets :
              /\ \A s \in Streams : Missing(i, s) => Overall = "FAIL"
              /\ /\ req.kind = "delivery_package" /\ ~there[i]
                 /\ req.assets[i].ruled /\ req.assets[i].required
                 => Overall = "FAIL"
=============================================================================
