----------------------------- MODULE MCVerdicts -----------------------------
EXTENDS Verdicts, TLC

NoOpinion == [s \in Streams |-> None]

Silent == [s \in {"audio", "subtitle"} |-> None]

\* An asset of some type with the rules given for it and the checks they ask.
For(type, given, wants) ==
    [type |-> type, given |-> given, wants |-> wants, own |-> Silent,
     require |-> NoOpinion, ruled |-> TRUE, required |-> TRUE]

Request(kind, assets) ==
    [kind |-> kind, inspect |-> FALSE, reference |-> FALSE, assets |-> assets,
     durations |-> {}, dependencies |-> {}]

One(type, wants) == Request(type, <<For(type, {type}, wants)>>)

\* A video against each group of its checks, and with no rule at all.
MCVideo ==
    {One("video", {}), One("video", {"video.black", "video.freeze", "video.duration"}),
     One("video", {"video.luminance", "video.codec"}),
     One("video", {"video.flashes", "video.cuts", "video.frame_rate"}),
     One("video", {"video.text", "video.resolution"}),
     One("video", {"video.vmaf", "video.ssim"}),
     [One("video", {"video.vmaf", "video.ssim", "video.text"}) EXCEPT !.reference = TRUE],
     [One("video", {"video.black"}) EXCEPT !.inspect = TRUE]}

MCAudio ==
    {One("audio", {"audio.silence", "audio.loudness"}),
     One("audio", {"audio.balance", "audio.sample_rate"})}
    \cup {Request("audio", <<[For("audio", {"audio"}, {}) EXCEPT !.own["audio"] = b]>>)
          : b \in BOOLEAN}

MCSubtitle ==
    {One("subtitle", {"subtitle.overlaps", "subtitle.limits", "subtitle.timeline"}),
     One("subtitle", {"subtitle.duration"}),
     [One("subtitle", {"subtitle.duration", "subtitle.coverage"}) EXCEPT !.reference = TRUE]}

\* Deliveries whose own requirements and those of their rules agree or not.
MCDelivery ==
    LET Delivery(given, wants, require, own) ==
            Request("delivery",
                <<[For("delivery", given, wants) EXCEPT
                      !.require = require @@ NoOpinion, !.own = own @@ Silent]>>)
    IN  {Delivery({}, {}, <<>>, <<>>),
         Delivery({}, FileChecks, "video" :> FALSE, <<>>),
         Delivery({"video"}, {"file.container", "video.freeze"}, "audio" :> TRUE, <<>>),
         Delivery({"subtitle"}, {"subtitle.coverage"}, "subtitle" :> TRUE, <<>>),
         Delivery({"subtitle", "audio"}, {}, "subtitle" :> TRUE,
                  "subtitle" :> FALSE @@ "audio" :> TRUE)}

\* Packages of two: rules that fit the type, rules that do not, an artifact
\* without a rule, an optional one, and the rules across artifacts.
MCPackage ==
    LET video == For("video", {"video"}, {"video.black"})
        other == For("other", {}, {"file.size", "file.extension"})
    IN  {[Request("delivery_package", <<video, [For("subtitle", {"subtitle"}, {}) EXCEPT
              !.required = FALSE]>>) EXCEPT !.durations = {1, 2}, !.dependencies = {<<2, 1>>}],
         [Request("delivery_package", <<For("video", {"audio"}, {"audio.silence"}), other>>)
              EXCEPT !.dependencies = {<<1, 2>>}],
         Request("delivery_package",
              <<[For("audio", {}, {}) EXCEPT !.ruled = FALSE], For("audio", {"video"}, {})>>)}

MCRequests == MCVideo \cup MCAudio \cup MCSubtitle \cup MCDelivery \cup MCPackage
=============================================================================
