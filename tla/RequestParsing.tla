---------------------------- MODULE RequestParsing ----------------------------
(***************************************************************************)
(* How a request document becomes a request: parse_request reads it part   *)
(* by part, the first part that is wrong decides the error, and the rules  *)
(* are built wherever they are nested.                                     *)
(*                                                                         *)
(* A document is a JSON value.  Numbers are in tenths; NotANumber is the   *)
(* NaN that json.loads takes, of which every comparison is false.  Keys    *)
(* and texts that are treated alike are one: "limits" is any rule field    *)
(* that is taken as it is, "command" any forbidden key.                    *)
(***************************************************************************)
EXTENDS Integers, Sequences, FiniteSets, FiniteSetsExt, Functions

CONSTANTS Documents,
          Depth      \* how deep values nest in a document: beyond the interpreter's
                     \* recursion limit json.loads and _find_forbidden both raise

Nothing == [is |-> "null"]
NotANumber == [is |-> "nan"]
Flag(b) == [is |-> "bool", flag |-> b]
Number(n) == [is |-> "number", tenths |-> n]
String(s) == [is |-> "text", text |-> s]
List(q) == [is |-> "list", items |-> q]
Object(f) == [is |-> "object", at |-> f]

----------------------------------------------------------------------------
VARIABLES document,
          part,      \* the part to read next, an index of Parts
          answer,    \* "none", "request", or the code of the error
          videos,    \* the video rules built, and the timelines
          timelines

parseVars == <<document, part, answer, videos, timelines>>

----------------------------------------------------------------------------
(* Reading values as Python does. *)

Given(o, k) == k \in DOMAIN o.at
Default(o, k, v) == IF Given(o, k) THEN o.at[k] ELSE v
Field(o, k) == Default(o, k, Nothing)
HasOnly(v, keys) == v.is = "object" /\ DOMAIN v.at \subseteq keys

Items(v) == {v.items[i] : i \in DOMAIN v.items}

IsName(v) == v.is = "text" /\ v.text # ""
OneOf(v, names) == v.is = "text" /\ v.text \in names
Unhashable(v) == v.is \in {"list", "object"}

IsNumber(v) == v.is \in {"number", "nan"}
Below(v, n) == v.is = "number" /\ v.tenths < n
Above(v, n) == v.is = "number" /\ v.tenths > n
IsAmount(v) == IsNumber(v) /\ ~Below(v, 0)
IsPositive(v) == IsAmount(v) /\ v # Number(0)

\* The values next inside v, and all of them with v itself, at any depth.  What
\* the keys in skip hold is left out.
Inner(v, skip) ==
    CASE v.is = "object" -> {v.at[k] : k \in DOMAIN v.at \ skip}
      [] v.is = "list" -> Items(v)
      [] OTHER -> {}

Within(v, skip) ==
    LET to[d \in 0..Depth] ==
            IF d = 0 THEN {v} ELSE UNION {{w} \cup Inner(w, skip) : w \in to[d - 1]}
    IN  to[Depth]

KeysIn(v) == UNION {DOMAIN w.at : w \in {w \in Within(v, {}) : w.is = "object"}}

IsValue(v) ==
    \/ v \in {Nothing, NotANumber, Flag(TRUE), Flag(FALSE)}
    \/ v.is = "number" /\ v = Number(v.tenths) /\ v.tenths \in Int
    \/ v.is = "text" /\ v = String(v.text)
    \/ v.is = "list" /\ v = List(v.items) /\ v.items \in Seq(Items(v))
    \/ v.is = "object" /\ v = Object(v.at) /\ v.at = [k \in DOMAIN v.at |-> v.at[k]]

ASSUME DocumentAssumption ==
    /\ Depth \in Nat
    /\ \A d \in Documents :
          LET values == Within(d, {})
          IN  \A v \in values : IsValue(v) /\ Inner(v, {}) \subseteq values

Distinct(q) == \A i, j \in DOMAIN q : q[i] = q[j] => i = j

Ids(v) == [i \in DOMAIN v.items |-> Field(v.items[i], "artifact_id")]

----------------------------------------------------------------------------
(* Rules: what a rule object must be to be built. *)

TEXT_ROLES == {"hook", "cta", "caption", "term"}
REFERENCE_METRICS == <<"vmaf", "ssim", "psnr">>

VideoAmounts == {"min_vmaf", "min_ssim", "min_psnr_db", "max_flashes_per_second",
                 "max_cut_error_frames", "cut_match_window_sec", "min_contrast_ratio"}
VideoLists == {"reference_metrics", "expected_cuts", "text_regions"}
VideoFields == VideoAmounts \cup VideoLists
    \cup {"check_photosensitivity", "allow_extra_cuts", "min_text_height_px", "limits"}

IsRegion(v) ==
    /\ HasOnly(v, {"t", "box", "role"}) /\ DOMAIN v.at = {"t", "box", "role"}
    /\ IsAmount(v.at.t) /\ OneOf(v.at.role, TEXT_ROLES)
    /\ v.at.box.is = "list" /\ Len(v.at.box.items) = 4
    /\ \A n \in Items(v.at.box) : n.is = "number" /\ n.tenths % 10 = 0
    /\ \A i \in 1..4 : ~Below(v.at.box.items[i], IF i <= 2 THEN 0 ELSE 1)

IsMetrics(v) ==
    /\ v.is = "list" /\ v.items # <<>> /\ Distinct(v.items)
    /\ \A m \in Items(v) : \E n \in DOMAIN REFERENCE_METRICS : m = String(REFERENCE_METRICS[n])

IsVideoRule(v) ==
    /\ HasOnly(v, VideoFields)
    /\ \A k \in VideoAmounts \cap DOMAIN v.at : IsAmount(v.at[k])
    /\ Given(v, "min_vmaf") => ~Above(v.at.min_vmaf, 1000)
    /\ Given(v, "min_ssim") => ~Above(v.at.min_ssim, 10)
    /\ Given(v, "cut_match_window_sec") => IsPositive(v.at.cut_match_window_sec)
    /\ Given(v, "min_contrast_ratio") =>
          ~Below(v.at.min_contrast_ratio, 10) /\ ~Above(v.at.min_contrast_ratio, 210)
    /\ Field(v, "check_photosensitivity").is \in {"null", "bool"}
    /\ Default(v, "allow_extra_cuts", Flag(TRUE)).is = "bool"
    /\ \A k \in VideoLists \cap DOMAIN v.at : v.at[k].is \in {"null", "list"}
    /\ Field(v, "reference_metrics") # Nothing => IsMetrics(v.at.reference_metrics)
    /\ Field(v, "expected_cuts") # Nothing => \A c \in Items(v.at.expected_cuts) : IsAmount(c)
    /\ Field(v, "text_regions") # Nothing => \A r \in Items(v.at.text_regions) : IsRegion(r)
    /\ LET heights == Field(v, "min_text_height_px")
       IN  heights # Nothing =>
              HasOnly(heights, TEXT_ROLES) /\ \A k \in DOMAIN heights.at : IsAmount(heights.at[k])

IsSegment(v) ==
    /\ HasOnly(v, {"source_start", "source_end", "delivery_start", "speed"})
    /\ \A k \in {"source_start", "source_end", "delivery_start"} : Given(v, k) /\ IsNumber(v.at[k])
    /\ IsPositive(Default(v, "speed", Number(10)))

IsSourceCue(v) ==
    HasOnly(v, {"start", "end"}) /\ \A k \in {"start", "end"} : Given(v, k) /\ IsNumber(v.at[k])

IsTimeline(v) ==
    /\ HasOnly(v, {"timeline", "source_cues", "tolerance_sec"})
    /\ \A k \in {"timeline", "source_cues"} : Default(v, k, List(<<>>)).is = "list"
    /\ \A s \in Items(Default(v, "timeline", List(<<>>))) : IsSegment(s)
    /\ \A c \in Items(Default(v, "source_cues", List(<<>>))) : IsSourceCue(c)
    /\ IsAmount(Default(v, "tolerance_sec", Number(1)))

IsSubtitleRule(v) ==
    /\ HasOnly(v, {"limits", "timeline_integrity"})
    /\ Field(v, "timeline_integrity") # Nothing => IsTimeline(v.at.timeline_integrity)

AreStreamRules(v) ==
    /\ Field(v, "video") # Nothing => IsVideoRule(v.at.video)
    /\ Field(v, "audio") # Nothing => HasOnly(v.at.audio, {"limits"})
    /\ Field(v, "subtitle") # Nothing => IsSubtitleRule(v.at.subtitle)

IsDeliveryRule(v) == HasOnly(v, {"video", "audio", "subtitle", "limits"}) /\ AreStreamRules(v)

IsArtifactRule(v) ==
    /\ HasOnly(v, {"artifact_id", "limits", "video", "audio", "subtitle"})
    /\ IsName(Field(v, "artifact_id")) /\ AreStreamRules(v)

IsDurations(v) ==
    /\ HasOnly(v, {"artifact_ids", "max_delta_sec"})
    /\ LET ids == Field(v, "artifact_ids")
       IN  ids.is = "list" /\ Len(ids.items) >= 2 /\ \A a \in Items(ids) : IsName(a)
    /\ IsAmount(Field(v, "max_delta_sec"))

IsDependency(v) ==
    /\ HasOnly(v, {"artifact_id", "requires_artifact_id"})
    /\ IsName(Field(v, "artifact_id")) /\ IsName(Field(v, "requires_artifact_id"))

IsCrossRule(v) ==
    /\ HasOnly(v, {"duration_consistency", "dependencies"})
    /\ \A k \in {"duration_consistency", "dependencies"} : Default(v, k, List(<<>>)).is = "list"
    /\ \A d \in Items(Default(v, "duration_consistency", List(<<>>))) : IsDurations(d)
    /\ \A d \in Items(Default(v, "dependencies", List(<<>>))) : IsDependency(d)

IsPackageRule(v) ==
    /\ HasOnly(v, {"artifacts", "cross_artifact"})
    /\ LET rules == Default(v, "artifacts", List(<<>>))
       IN  /\ rules.is = "list" /\ \A a \in Items(rules) : IsArtifactRule(a)
           /\ Distinct(Ids(rules))
    /\ Field(v, "cross_artifact") # Nothing => IsCrossRule(v.at.cross_artifact)

Sections == {"video", "audio", "subtitle", "delivery", "delivery_package"}

AreRules(v) ==
    /\ AreStreamRules(v)
    /\ Field(v, "delivery") # Nothing => IsDeliveryRule(v.at.delivery)
    /\ Field(v, "delivery_package") # Nothing => IsPackageRule(v.at.delivery_package)

----------------------------------------------------------------------------
(* The parts of the document in the order they are read, each with the     *)
(* error it raises.  A list or an object where one of a few texts is       *)
(* expected raises TypeError, which the command line answers with          *)
(* INTERNAL_ERROR.                                                         *)

TopLevelKeys == {"schema", "request_id", "operation", "kind", "input", "subtitle",
                 "reference_video", "artifacts", "parameters", "rules", "cache_policy",
                 "timeout"}
Operations == {"inspect", "check", "validate"}
DocumentKinds == {"video", "audio", "subtitle", "delivery", "delivery_package"}
CachePolicies == {"use", "bypass", "only"}
DeliverableTypes == {"video", "audio", "subtitle", "thumbnail", "metadata", "other"}

Parts == <<"keys", "operation", "kind", "input", "artifacts", "amount", "paths",
           "parameters", "sections", "cache_policy", "timeout", "request_id", "rules">>

Refuse(code, bad) == IF bad THEN code ELSE "none"
Invalid(bad) == Refuse("INVALID_REQUEST", bad)

ChoiceFault(v, names, code) ==
    IF Unhashable(v) THEN "INTERNAL_ERROR" ELSE Refuse(code, ~OneOf(v, names))

IsPackage == document.at.kind = String("delivery_package")

InputFault ==
    LET input == Field(document, "input")
    IN  IF IsPackage THEN Invalid(input # Nothing /\ ~IsName(input))
        ELSE Refuse("MISSING_INPUT", ~IsName(input))

ArtifactFault(a) ==
    IF ~HasOnly(a, {"artifact_id", "artifact_type", "path"}) THEN "INVALID_REQUEST"
    ELSE IF ~IsName(Field(a, "artifact_id")) THEN "INVALID_REQUEST"
    ELSE IF Unhashable(Field(a, "artifact_type")) THEN "INTERNAL_ERROR"
    ELSE Invalid(~OneOf(Field(a, "artifact_type"), DeliverableTypes) \/ ~IsName(Field(a, "path")))

Artifacts == Default(document, "artifacts", List(<<>>))

ArtifactsFault ==
    IF Artifacts.is # "list" THEN "INVALID_REQUEST"
    ELSE LET wrong == {i \in DOMAIN Artifacts.items : ArtifactFault(Artifacts.items[i]) # "none"}
         IN  IF wrong # {} THEN ArtifactFault(Artifacts.items[Min(wrong)])
             ELSE Invalid(~Distinct(Ids(Artifacts)))

Parameters == Default(document, "parameters", Object(<<>>))

ParametersFault ==
    Invalid(\/ ~HasOnly(Parameters, {"limits", "flash_area_fraction", "scene_cut_threshold"})
            \/ /\ Given(Parameters, "flash_area_fraction")
               /\ LET f == Parameters.at.flash_area_fraction
                  IN  ~IsAmount(f) \/ ~Above(f, 0) \/ ~Below(f, 10)
            \/ /\ Given(Parameters, "scene_cut_threshold")
               /\ LET t == Parameters.at.scene_cut_threshold IN ~IsAmount(t) \/ Above(t, 1000))

Rules == Default(document, "rules", Object(<<>>))

TimeoutFault ==
    LET timeout == Field(document, "timeout")
    IN  Refuse("INVALID_TIME_RANGE", timeout # Nothing /\ ~IsPositive(timeout))

Fault(p) ==
    LET text == {"null", "text"}
    IN  CASE p = "keys" ->
               Invalid(~HasOnly(document, TopLevelKeys) \/ "command" \in KeysIn(document))
          [] p = "operation" ->
               ChoiceFault(Field(document, "operation"), Operations, "UNSUPPORTED_OPERATION")
          [] p = "kind" ->
               ChoiceFault(Field(document, "kind"), DocumentKinds, "INVALID_REQUEST")
          [] p = "input" -> InputFault
          [] p = "artifacts" -> ArtifactsFault
          [] p = "amount" -> Invalid(IsPackage # (Artifacts.items # <<>>))
          [] p = "paths" ->
               Invalid(\E k \in {"subtitle", "reference_video"} : Field(document, k).is \notin text)
          [] p = "parameters" -> ParametersFault
          [] p = "sections" -> Invalid(~HasOnly(Rules, Sections))
          [] p = "cache_policy" ->
               ChoiceFault(Default(document, "cache_policy", String("use")), CachePolicies,
                           "INVALID_REQUEST")
          [] p = "timeout" -> TimeoutFault
          [] p = "request_id" -> Invalid(Field(document, "request_id").is \notin text)
          [] p = "rules" -> Invalid(~AreRules(Rules))

----------------------------------------------------------------------------
(* What is built. *)

StreamRules(v, k) == IF Field(v, k) = Nothing THEN {} ELSE {v.at[k]}

\* The rules of one stream, wherever the request has them.
Nested(k) ==
    LET package == Default(Rules, "delivery_package", Object(<<>>))
        holders == {Rules} \cup StreamRules(Rules, "delivery")
                   \cup (IF package = Nothing THEN {}
                         ELSE Items(Default(package, "artifacts", List(<<>>))))
    IN  UNION {StreamRules(h, k) : h \in holders}

\* q in time order.  No order is that of a NaN: sorted gives some list of the
\* same values, which depends on where the NaN stands.
InOrder(q) ==
    LET orders == {[i \in DOMAIN q |-> q[p[i]]] : p \in Bijection(DOMAIN q, DOMAIN q)}
    IN  {r \in orders :
            \/ \E i \in DOMAIN q : q[i] = NotANumber
            \/ \A i, j \in DOMAIN r : i < j => ~Below(r[j], r[i].tenths)}

Chosen(metric, v) == IF String(metric) \in Items(v) THEN <<String(metric)>> ELSE <<>>

AsWritten(v) == {v}

\* What the rule v can be built to: every list in an order of its own.
BuiltVideos(v) ==
    LET cuts == Field(v, "expected_cuts")
        sorted == IF cuts = Nothing THEN {cuts} ELSE {List(q) : q \in InOrder(cuts.items)}
        metrics(w) == List(Chosen("vmaf", w) \o Chosen("ssim", w) \o Chosen("psnr", w))
    IN  {Object([k \in DOMAIN v.at |->
             IF k = "expected_cuts" THEN c
             ELSE IF k = "reference_metrics" /\ v.at[k] # Nothing THEN metrics(v.at[k])
             ELSE v.at[k]]) : c \in sorted}

ParseStart ==
    /\ part = 1 /\ answer = "none" /\ videos = {} /\ timelines = {}

ParseInit == document \in Documents /\ ParseStart

Reading == answer = "none" /\ part \in DOMAIN Parts

ReadPart ==
    /\ Reading /\ Fault(Parts[part]) = "none"
    /\ part' = part + 1
    /\ UNCHANGED <<document, answer, videos, timelines>>

RefuseDocument ==
    /\ Reading /\ Fault(Parts[part]) # "none"
    /\ answer' = Fault(Parts[part])
    /\ UNCHANGED <<document, part, videos, timelines>>

BuildRequest ==
    /\ answer = "none" /\ part \notin DOMAIN Parts
    /\ answer' = "request"
    /\ \E built \in [Nested("video") -> UNION {BuiltVideos(v) : v \in Nested("video")}] :
          /\ \A v \in Nested("video") : built[v] \in BuiltVideos(v)
          /\ videos' = {built[v] : v \in Nested("video")}
    /\ timelines' = UNION {StreamRules(s, "timeline_integrity") : s \in Nested("subtitle")}
    /\ UNCHANGED <<document, part>>

ParseNext == ReadPart \/ RefuseDocument \/ BuildRequest

ParseSpec == ParseInit /\ [][ParseNext]_parseVars

----------------------------------------------------------------------------
\* The rules of one kind at any depth.  What "limits" holds is taken as it is,
\* and no rule.
Under(k, v) ==
    UNION {StreamRules(w, k) : w \in {w \in Within(v, {"limits"}) : w.is = "object"}}

\* Built from v, with the cuts in time order, the metrics in the order they are
\* reported in, and numbers that can be divided by and measured with.
IsUsable(b, v) ==
    /\ DOMAIN b.at = DOMAIN v.at
    /\ \A k \in DOMAIN b.at :
          IF b.at[k].is = "list" THEN Items(b.at[k]) = Items(v.at[k]) ELSE b.at[k] = v.at[k]
    /\ \A k \in VideoAmounts \cap DOMAIN b.at : ~Below(b.at[k], 0)
    /\ Given(b, "cut_match_window_sec") => ~Below(b.at.cut_match_window_sec, 1)
    /\ LET cuts == Field(b, "expected_cuts")
       IN  cuts = Nothing \/ NotANumber \in Items(cuts)
           \/ \A i, j \in DOMAIN cuts.items :
                 i < j => ~Below(cuts.items[j], cuts.items[i].tenths)
    /\ LET metrics == Field(b, "reference_metrics")
       IN  metrics = Nothing
           \/ \A i, j \in DOMAIN metrics.items :
                 i < j => \E m, n \in DOMAIN REFERENCE_METRICS :
                             /\ m < n /\ metrics.items[i] = String(REFERENCE_METRICS[m])
                             /\ metrics.items[j] = String(REFERENCE_METRICS[n])

\* An accepted document is one the engine can work with, at whatever depth its
\* rules are: every video rule in it was built in a form that does not depend
\* on the order its lists were written in, no timeline has a segment to divide
\* by zero for, artifacts have names of their own and come with packages only,
\* and no budget is zero or negative (schemas.py 384-512).  A NaN gets through
\* wherever a number is compared with a bound, and cuts with a NaN among them
\* stay out of order.
AcceptedIsUsable ==
    answer = "request" =>
        /\ \A v \in Under("video", Rules) : \E b \in videos : IsUsable(b, v)
        /\ \A t \in Under("timeline_integrity", Rules) :
              t \in timelines /\ \A speed \in Under("speed", t) : ~Below(speed, 1)
        /\ \A i, j \in DOMAIN Artifacts.items :
              i # j => Artifacts.items[i].at.artifact_id # Artifacts.items[j].at.artifact_id
        /\ Artifacts.items # <<>> <=> document.at.kind.text = "delivery_package"
        /\ ~Below(Field(document, "timeout"), 1)
        /\ KeysIn(document) \cap {"command"} = {}
=============================================================================
