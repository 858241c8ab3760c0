------------------------------ MODULE MCChecks ------------------------------
(***************************************************************************)
(* The verdict on a request, the three checks whose measurement is an      *)
(* algorithm of its own, and the parsing of a request document.  They      *)
(* share no state, so each behaviour is about one topic, and what belongs  *)
(* to the others stays as it was.                                          *)
(***************************************************************************)
EXTENDS MCVerdicts, MCSubtitles, MCRequestParsing, Flashes, Cuts

VARIABLE topic

MCVars == <<topic, vars, flashVars, cutVars, subVars, parseVars>>

----------------------------------------------------------------------------
(* Recordings of two cells. *)

Recording(times, lum, share, limit) ==
    [times |-> times, lum |-> lum, part |-> share, whole |-> 4, limit |-> limit]

Still == Recording(<<0>>, <<[c \in Cells |-> 0]>>, 1, 0)

\* One cell through levels of which two are too near each other for a change
\* and two too bright.
OneCell(levels, n) ==
    {Recording([f \in 1..n |-> f - 1],
               [f \in 1..n |-> [c \in Cells |-> IF c = 1 THEN l[f] ELSE 0]], 1, 1) :
        l \in [1..n -> levels]}

MCOneCell ==
    OneCell({0, 15, 30, 165, 185}, 4) \cup OneCell({0, 15, 30}, 5)
    \cup OneCell({150, 165, 185}, 5)

\* Both cells, frames close together and far apart, up to all of the screen.
MCTwoCells ==
    {Recording(t, l, rule[1], rule[2]) :
        t \in {<<0, 0, 2, 2>>, <<0, 3, 4, 5>>, <<1, 2, 2, 4>>},
        l \in [1..4 -> [Cells -> {0, 30}]], rule \in {<<1, 0>>, <<4, 0>>, <<1, 1>>}}

MCRecordings == {Still} \cup MCOneCell \cup MCTwoCells

----------------------------------------------------------------------------
(* Planned cuts. *)

Plan(e, d, w, error, extra, known) ==
    [expected |-> e, detected |-> d, window |-> w, maxError |-> error,
     allowExtra |-> extra, measured |-> known]

Uncut == Plan(<<>>, <<>>, 1, 0, TRUE, TRUE)

\* Up to three planned cuts in any order, and any detected ones.
MCPlans ==
    {Plan(e, SetToSortSeq(d, <), 1, maxError, x, TRUE) :
        e \in SeqOf(0..3, 3), d \in SUBSET (0..3), maxError \in {0, 1}, x \in BOOLEAN}
    \cup {Plan(e, SetToSortSeq(d, <), 2, 1, FALSE, TRUE) :
             e \in SeqOf(0..5, 2), d \in SUBSET (0..5)}
    \cup {Plan(<<1>>, <<1>>, 1, 1, TRUE, FALSE)}

----------------------------------------------------------------------------
Unread == MCDocument("video", Object(<<>>))
Untitled == Deck(<<>>, Null, 1, <<>>, Null, 0)

ASSUME Still \in Recordings /\ Uncut \in Plans /\ Untitled \in Decks /\ Unread \in Documents

Asked == One("video", {})

NoVerdict ==
    /\ req = Asked /\ has = <<{}>> /\ there = <<TRUE>> /\ agree = TRUE /\ tools = {}
    /\ at = 1 /\ left = FirstPasses(Asked, 1)
    /\ stream = [i \in Assets |-> [s \in Streams |-> None]]
    /\ lacks = [i \in Assets |-> {}]
    /\ facts = [i \in Assets |-> [c \in Checks |-> None]]
    /\ outcome = "running" /\ report = {}

NoFlashes == recording = Still /\ FlashStart
NoCuts == plan = Uncut /\ CutStart
NoSubtitles == deck = Untitled /\ SubStart
NoDocument == document = Unread /\ ParseStart

\* Whether durations agree matters only where they are compared.
Differing == Init /\ (req.durations = {} => agree)

Topics == {"verdict", "flashes", "cuts", "subtitles", "request"}

MCInit ==
    /\ topic \in Topics
    /\ IF topic = "verdict" THEN Differing ELSE NoVerdict
    /\ IF topic = "flashes" THEN FlashInit ELSE NoFlashes
    /\ IF topic = "cuts" THEN CutInit ELSE NoCuts
    /\ IF topic = "subtitles" THEN SubInit ELSE NoSubtitles
    /\ IF topic = "request" THEN ParseInit ELSE NoDocument

Only(t) ==
    /\ topic = t /\ UNCHANGED topic
    /\ t # "verdict" => UNCHANGED vars
    /\ t # "flashes" => UNCHANGED flashVars
    /\ t # "cuts" => UNCHANGED cutVars
    /\ t # "subtitles" => UNCHANGED subVars
    /\ t # "request" => UNCHANGED parseVars

MCNext ==
    \/ Only("verdict") /\ Stat
    \/ Only("verdict") /\ Reference
    \/ Only("verdict") /\ Probe
    \/ Only("verdict") /\ Decode
    \/ Only("verdict") /\ Temporal
    \/ Only("verdict") /\ Text
    \/ Only("verdict") /\ Compare
    \/ Only("verdict") /\ AnalyseAudio
    \/ Only("verdict") /\ Parse
    \/ Only("verdict") /\ Fail
    \/ Only("verdict") /\ NextAsset
    \/ Only("verdict") /\ Evaluate
    \/ Only("flashes") /\ Track
    \/ Only("flashes") /\ CountSeconds
    \/ Only("flashes") /\ Enter
    \/ Only("flashes") /\ Leave
    \/ Only("flashes") /\ CountWindow
    \/ Only("flashes") /\ CountSliding
    \/ Only("flashes") /\ Judge
    \/ Only("cuts") /\ CutsUnknown
    \/ Only("cuts") /\ MatchCut
    \/ Only("cuts") /\ MissCut
    \/ Only("cuts") /\ JudgeCuts
    \/ Only("subtitles") /\ SortCues
    \/ Only("subtitles") /\ CompareNeighbours
    \/ Only("subtitles") /\ JudgeOverlaps
    \/ Only("subtitles") /\ JudgeLengths
    \/ Only("subtitles") /\ LookForGap
    \/ Only("subtitles") /\ JudgeGaps
    \/ Only("subtitles") /\ CountDiffers
    \/ Only("subtitles") /\ CompareCue
    \/ Only("subtitles") /\ JudgeTimeline
    \/ Only("subtitles") /\ NoTimeline
    \/ Only("request") /\ ReadPart
    \/ Only("request") /\ RefuseDocument
    \/ Only("request") /\ BuildRequest

MCSpec == MCInit /\ [][MCNext]_MCVars
=============================================================================
