-------------------------- MODULE MCRequestParsing --------------------------
(* Documents: a few good ones, and each of them with a value put somewhere. *)
EXTENDS RequestParsing, TLC

Holding(k, v) == Object(k :> v)
With(o, k, v) == Object((k :> v) @@ o.at)
Without(o, k) == Object([j \in DOMAIN o.at \ {k} |-> o.at[j]])

\* A value of every kind that some part tells from another.
MCValues ==
    {Nothing, NotANumber, Flag(TRUE), String(""), String("other"),
     List(<<>>), Object(<<>>), Holding("command", Nothing), Holding("unknown", Nothing)}
    \cup {Number(n) : n \in {-10, 0, 5, 10, 220, 1010}}

Numbers(q) == List([i \in DOMAIN q |-> Number(q[i])])
Names(q) == List([i \in DOMAIN q |-> String(q[i])])

MCRegion ==
    Object("t" :> Number(10) @@ "role" :> String("hook") @@ "box" :> Numbers(<<0, 0, 10, 10>>))

MCVideoRule ==
    Object("limits" :> Nothing @@ "min_vmaf" :> Number(900) @@ "min_ssim" :> Number(9)
           @@ "cut_match_window_sec" :> Number(5) @@ "min_contrast_ratio" :> Number(45)
           @@ "expected_cuts" :> Numbers(<<20, 10, 10>>)
           @@ "reference_metrics" :> Names(<<"psnr", "vmaf">>)
           @@ "text_regions" :> List(<<MCRegion>>)
           @@ "min_text_height_px" :> Holding("cta", Number(10)))

MCSegment ==
    Object("source_start" :> Number(0) @@ "source_end" :> Number(10)
           @@ "delivery_start" :> Number(-10) @@ "speed" :> Number(5))

MCTimeline ==
    Object("timeline" :> List(<<MCSegment>>) @@ "tolerance_sec" :> Number(0)
           @@ "source_cues" :> List(<<Object("start" :> Number(0) @@ "end" :> Number(5))>>))

MCSubtitleRule == Holding("timeline_integrity", MCTimeline)

MCStreamRules ==
    Object("video" :> MCVideoRule @@ "audio" :> Holding("limits", Nothing)
           @@ "subtitle" :> MCSubtitleRule)

MCCross ==
    Object("duration_consistency" :>
               List(<<Object("artifact_ids" :> Names(<<"a", "b">>)
                             @@ "max_delta_sec" :> Number(1))>>)
           @@ "dependencies" :>
               List(<<Object("artifact_id" :> String("a")
                             @@ "requires_artifact_id" :> String("b"))>>))

MCArtifact(id) ==
    Object("artifact_id" :> String(id) @@ "artifact_type" :> String("video")
           @@ "path" :> String("f"))

\* The rules with the video, the timeline or the rule across artifacts v given.
MCRulesWith(place, k, v) ==
    LET streams == With(MCStreamRules, k, v)
        rule == With(streams, "artifact_id", String("a"))
    IN  CASE place = "top" -> streams
          [] place = "delivery" -> Holding("delivery", streams)
          [] place = "package" -> Holding("delivery_package", Holding("artifacts", List(<<rule>>)))
          [] place = "cross" -> Holding("delivery_package", Holding(k, v))

MCDocument(kind, rules) ==
    LET base == Object("operation" :> String("check") @@ "kind" :> String(kind)
                       @@ "rules" :> rules)
    IN  IF kind = "delivery_package"
        THEN With(base, "artifacts", List(<<MCArtifact("a"), MCArtifact("b")>>))
        ELSE With(base, "input", String("f"))

MCPlain == {MCDocument(kind, Object(<<>>)) : kind \in {"video", "delivery_package"}}

\* A value at each top-level key, in a parameter, in an artifact.
MCTop ==
    {With(d, k, v) : d \in MCPlain, k \in TopLevelKeys \cup {"unknown"}, v \in MCValues}
    \cup {Without(d, k) : d \in MCPlain, k \in TopLevelKeys}
    \cup MCValues
    \cup {With(d, "parameters", Holding(k, v)) : d \in MCPlain, v \in MCValues,
              k \in {"limits", "flash_area_fraction", "scene_cut_threshold", "unknown"}}
    \cup {With(d, "artifacts", List(<<MCArtifact("a"), With(MCArtifact(id), k, v)>>)) :
              d \in MCPlain, id \in {"a", "b"}, v \in MCValues,
              k \in {"artifact_id", "artifact_type", "path", "unknown"}}
    \cup {With(With(With(d, "operation", v), "cache_policy", w), "timeout", Number(0)) :
              d \in MCPlain, v \in {List(<<>>), String("")}, w \in {Object(<<>>), Nothing}}

\* Lists in every order, with and without a wrong element.
MCVideoRules ==
    {MCVideoRule} \cup {With(MCVideoRule, k, v) : k \in VideoFields \cup {"unknown"}, v \in MCValues}
    \cup {With(MCVideoRule, "expected_cuts", Numbers(q)) :
              q \in {<<30, 20, 10>>, <<10, 30, 20>>, <<20, -10>>}}
    \cup {With(MCVideoRule, "expected_cuts", List(<<v>>)) : v \in MCValues}
    \cup {With(MCVideoRule, "expected_cuts", List(<<Number(30), v, Number(10)>>)) : v \in MCValues}
    \cup {With(MCVideoRule, "limits", Holding(k, v)) : k \in {"video", "other"}, v \in MCValues}
    \cup {With(MCVideoRule, "reference_metrics", Names(q)) :
              q \in {<<"psnr", "ssim", "vmaf">>, <<"ssim", "ssim">>, <<"ssim", "other">>}}
    \cup {With(MCVideoRule, "reference_metrics", List(<<v>>)) : v \in MCValues}
    \cup {With(MCVideoRule, "text_regions", List(<<With(MCRegion, k, v)>>)) :
              k \in {"t", "role", "box", "unknown"}, v \in MCValues}
    \cup {With(MCVideoRule, "text_regions", List(<<With(MCRegion, "box", Numbers(q))>>)) :
              q \in {<<0, 0, 0, 10>>, <<0, -10, 10, 10>>, <<0, 0, 10>>, <<0, 5, 10, 10>>}}
    \cup {With(MCVideoRule, "min_text_height_px", Holding(k, v)) : k \in {"cta", "other"}, v \in MCValues}

MCSubtitleRules ==
    {Holding(k, v) : k \in {"limits", "timeline_integrity", "unknown"}, v \in MCValues}
    \cup {Holding("timeline_integrity", t) : t \in
             {With(MCTimeline, k, v) : k \in {"timeline", "source_cues", "tolerance_sec", "unknown"},
                                       v \in MCValues}
             \cup {With(MCTimeline, "timeline", List(<<MCSegment, With(MCSegment, k, v)>>)) :
                      k \in DOMAIN MCSegment.at \cup {"unknown"}, v \in MCValues}
             \cup {With(MCTimeline, "source_cues", List(<<Holding(k, v)>>)) :
                      k \in {"start", "unknown"}, v \in MCValues}}

MCRuled ==
    {MCDocument("video", MCRulesWith(place, "video", v)) :
        place \in {"top", "delivery", "package"}, v \in MCVideoRules \cup MCValues}
    \cup {MCDocument("delivery", MCRulesWith(place, "subtitle", v)) :
              place \in {"top", "delivery", "package"}, v \in MCSubtitleRules \cup MCValues}
    \cup {MCDocument("delivery", Holding(k, v)) : k \in Sections \cup {"unknown"}, v \in MCValues}
    \cup {MCDocument("delivery", Holding("delivery_package", Holding(k, v))) :
              k \in {"artifacts", "cross_artifact", "unknown"}, v \in MCValues}

MCPackages ==
    {MCDocument("delivery_package", MCRulesWith("cross", k, v)) :
        <<k, v>> \in
           ({"artifacts"} \X {List(<<MCArtifactRule, Holding("artifact_id", v)>>) :
                                 MCArtifactRule \in {Holding("artifact_id", String("a"))},
                                 v \in MCValues \cup {String("a")}})
           \cup ({"cross_artifact"} \X
                    ({MCCross} \cup {With(MCCross, k, v) : k \in DOMAIN MCCross.at, v \in MCValues}
                     \cup {With(MCCross, k, List(<<With(MCCross.at[k].items[1], j, v)>>)) :
                              k \in DOMAIN MCCross.at, v \in MCValues,
                              j \in {"artifact_ids", "max_delta_sec", "artifact_id", "unknown"}}))}

MCDocuments == MCTop \cup MCRuled \cup MCPackages
=============================================================================
