----------------------------- MODULE Subtitles -----------------------------
(***************************************************************************)
(* The timing of subtitles: measure_subtitle looks for overlaps between    *)
(* neighbours, for cues that stay too long and for gaps behind everything  *)
(* shown so far, and the rules judge what it found and compare the cues    *)
(* with those of the source, mapped through the caller's timeline of       *)
(* edits.  What is too long is said twice, by a parameter of the           *)
(* measurement and by the rule.                                            *)
(*                                                                         *)
(* A delivery tick is so short a part of a source tick that stretch, the   *)
(* delivery ticks per source tick, is whole at every speed.                *)
(***************************************************************************)
EXTENDS Integers, Sequences, FiniteSets, FiniteSetsExt, SequencesExt, Sorting

CONSTANTS Decks,   \* the parsed subtitles, with the rules for them
          Null

Span == [start : Nat, end : Nat]
Segment == [from : Nat, to : Nat, at : Nat, stretch : Nat \ {0}]

\* A cue whose timestamps could not be read is Null; a limit, or source, is
\* Null if the rule does not have it.
IsDeck(d) ==
    /\ d.cues \in Seq(Span \cup {Null})
    /\ d.video \in Nat \cup {Null}
    /\ d.params \in [gap : Nat, cue : Nat]
    /\ d.limits \in [gap : Nat \cup {Null}, cue : Nat \cup {Null}]
    /\ d.timeline \in Seq(Segment)
    /\ d.source \in Seq(Span) \cup {Null} /\ d.tolerance \in Nat

ASSUME DeckAssumption == \A d \in Decks : IsDeck(d)

ASSUME NullAssumption == Null \notin Nat

VARIABLES deck,
          step,        \* what is being measured
          valid,       \* the cues with a readable, ordered span, by start
          cueAt,       \* the next of them
          overlaps, long, gaps, shownTo,
          mismatches, unresolved,
          overlapStatus, cueStatus, gapStatus, timelineStatus

measured == <<valid, overlaps, long, gaps, shownTo>>
compared == <<mismatches, unresolved>>
statuses == <<overlapStatus, cueStatus, gapStatus, timelineStatus>>
subVars == <<deck, step, cueAt, measured, compared, statuses>>

SubStart ==
    /\ step = "sort"
    /\ valid = <<>> /\ cueAt = 1
    /\ overlaps = {} /\ long = {} /\ gaps = {} /\ shownTo = 0
    /\ mismatches = {} /\ unresolved = {}
    /\ overlapStatus = "none" /\ cueStatus = "none"
    /\ gapStatus = "none" /\ timelineStatus = "none"

SubInit == deck \in Decks /\ SubStart

----------------------------------------------------------------------------
(* measure_subtitle *)

Cue(i) == deck.cues[i]

ValidCues ==
    {i \in DOMAIN deck.cues : Cue(i) # Null /\ Cue(i).start <= Cue(i).end}

\* sorted() is stable: cues that start together stay in file order.
StartsBefore(i, j) ==
    \/ Cue(i).start < Cue(j).start
    \/ Cue(i).start = Cue(j).start /\ i < j

FileOrder == Sorted(ValidCues, {p \in ValidCues \X ValidCues : p[1] < p[2]})
ByStart == Sorted(ValidCues, {p \in ValidCues \X ValidCues : StartsBefore(p[1], p[2])})

SortCues ==
    /\ step = "sort"
    /\ valid' = ByStart
    /\ step' = "overlaps"
    /\ UNCHANGED <<deck, cueAt, overlaps, long, gaps, shownTo, compared, statuses>>

CompareNeighbours ==
    /\ step = "overlaps" /\ cueAt < Len(valid)
    /\ LET a == valid[cueAt]
           b == valid[cueAt + 1]
       IN  overlaps' = IF Cue(a).end > Cue(b).start THEN overlaps \cup {<<a, b>>} ELSE overlaps
    /\ cueAt' = cueAt + 1
    /\ UNCHANGED <<deck, step, valid, long, gaps, shownTo, compared, statuses>>

JudgeOverlaps ==
    /\ step = "overlaps" /\ cueAt >= Len(valid)
    /\ overlapStatus' = IF overlaps # {} THEN "FAIL" ELSE "PASS"
    /\ step' = "lengths"
    /\ UNCHANGED <<deck, cueAt, measured, compared, cueStatus, gapStatus, timelineStatus>>

WarnAbout(limit, offenders) ==
    IF limit = Null THEN "none" ELSE IF offenders # {} THEN "WARN" ELSE "PASS"

\* The rule's limit only says whether the check is made.
JudgeLengths ==
    /\ step = "lengths"
    /\ long' = {i \in ToSet(valid) : Cue(i).end - Cue(i).start > deck.params.cue}
    /\ cueStatus' = WarnAbout(deck.limits.cue, long')
    /\ step' = "gaps" /\ cueAt' = 1
    /\ UNCHANGED <<deck, valid, overlaps, gaps, shownTo, compared, overlapStatus, gapStatus,
                   timelineStatus>>

GapUpTo(t) ==
    IF t - shownTo > deck.params.gap
    THEN gaps \cup {[start |-> shownTo, end |-> t]} ELSE gaps

ShownToLast(i) == Cue(i).end
Shown(i) == Max({shownTo, Cue(i).end})

LookForGap ==
    /\ step = "gaps" /\ cueAt <= Len(valid)
    /\ gaps' = GapUpTo(Cue(valid[cueAt]).start)
    /\ shownTo' = Shown(valid[cueAt])
    /\ cueAt' = cueAt + 1
    /\ UNCHANGED <<deck, step, valid, overlaps, long, compared, statuses>>

\* The rest of the video, if its duration is known; then the rule's limit.
JudgeGaps ==
    /\ step = "gaps" /\ cueAt > Len(valid)
    /\ gaps' = IF deck.video = Null THEN gaps ELSE GapUpTo(deck.video)
    /\ gapStatus' = WarnAbout(deck.limits.gap, {g \in gaps' : g.end - g.start > deck.limits.gap})
    /\ step' = "timeline" /\ cueAt' = 1
    /\ UNCHANGED <<deck, valid, overlaps, long, shownTo, compared, overlapStatus, cueStatus,
                   timelineStatus>>

----------------------------------------------------------------------------
(* _evaluate_timeline_integrity *)

Place(s, t) == s.at + (t - s.from) * s.stretch

Holds(s, t) == s.from <= t /\ t <= s.to

\* The first segment that holds t says where it is; Null in a cut region.
MapAtSourceSpeed(t) ==
    LET hold == {k \in DOMAIN deck.timeline : Holds(deck.timeline[k], t)}
        s == deck.timeline[Min(hold)]
    IN  IF hold = {} THEN Null ELSE s.at + t - s.from
Map(t) ==
    LET hold == {k \in DOMAIN deck.timeline : Holds(deck.timeline[k], t)}
    IN  IF hold = {} THEN Null ELSE Place(deck.timeline[Min(hold)], t)

Near(s, t) == s - t <= deck.tolerance /\ t - s <= deck.tolerance

Comparing == step = "timeline" /\ deck.source # Null

CountDiffers ==
    /\ Comparing /\ Len(deck.cues) # Len(deck.source)
    /\ timelineStatus' = "FAIL" /\ step' = "done"
    /\ UNCHANGED <<deck, cueAt, measured, compared, overlapStatus, cueStatus, gapStatus>>

CompareCue ==
    /\ Comparing /\ Len(deck.cues) = Len(deck.source) /\ cueAt <= Len(deck.cues)
    /\ LET start == Map(deck.source[cueAt].start)
           end == Map(deck.source[cueAt].end)
           actual == Cue(cueAt)
       IN  IF start = Null \/ end = Null
           THEN unresolved' = unresolved \cup {cueAt} /\ UNCHANGED mismatches
           ELSE /\ UNCHANGED unresolved
                /\ mismatches' =
                      IF actual = Null THEN mismatches \cup {cueAt}
                      ELSE IF Near(actual.start, start) /\ Near(actual.end, end) THEN mismatches
                      ELSE mismatches \cup {cueAt}
    /\ cueAt' = cueAt + 1
    /\ UNCHANGED <<deck, step, measured, statuses>>

JudgeTimeline ==
    /\ Comparing /\ Len(deck.cues) = Len(deck.source) /\ cueAt > Len(deck.cues)
    /\ timelineStatus' = IF mismatches # {} THEN "FAIL"
                         ELSE IF unresolved # {} THEN "UNKNOWN" ELSE "PASS"
    /\ step' = "done"
    /\ UNCHANGED <<deck, cueAt, measured, compared, overlapStatus, cueStatus, gapStatus>>

NoTimeline ==
    /\ step = "timeline" /\ deck.source = Null
    /\ step' = "done"
    /\ UNCHANGED <<deck, cueAt, measured, compared, statuses>>

SubNext ==
    \/ SortCues \/ CompareNeighbours \/ JudgeOverlaps \/ JudgeLengths \/ LookForGap
    \/ JudgeGaps
    \/ CountDiffers \/ CompareCue \/ JudgeTimeline \/ NoTimeline

SubSpec == SubInit /\ [][SubNext]_subVars

----------------------------------------------------------------------------
\* Only neighbours are compared, and yet no two cues on screen together are
\* missed, wherever in the file they are (subtitle.py 217-226).
OverlapsAreFound ==
    overlapStatus # "none" =>
        (overlapStatus = "FAIL" <=>
            \E i, j \in ValidCues : StartsBefore(i, j) /\ Cue(j).start < Cue(i).end)

\* Nothing is shown between start and end, and that is as far as it goes.
Empty(start, end) ==
    /\ start = 0 \/ \E i \in ValidCues : Cue(i).end = start
    /\ \/ \E i \in ValidCues : Cue(i).start = end
       \/ end = deck.video /\ \A i \in ValidCues : Cue(i).end <= start
    /\ \A i \in ValidCues : ~(Cue(i).start < end /\ start < Cue(i).end)

\* The stretches of more than n without a cue.
Silences(n) ==
    LET instants == {0} \cup ({deck.video} \ {Null})
                    \cup UNION {{Cue(i).start, Cue(i).end} : i \in ValidCues}
    IN  {[start |-> p[1], end |-> p[2]] : p \in
            {p \in instants \X instants : p[2] - p[1] > n /\ Empty(p[1], p[2])}}

\* The gaps are exactly the longest stretches without a cue above the
\* parameter, also when a long cue outlasts those that start after it
\* (subtitle.py 271-278), and only if one of them is longer than the rule
\* allows is there a warning.
GapsAreEmpty ==
    step \in {"timeline", "done"} =>
        /\ gaps = Silences(deck.params.gap)
        /\ gapStatus = "WARN" =>
              deck.limits.gap # Null /\ Silences(deck.limits.gap) # {}

\* docs/checks.md 267-268: cue_duration_within_limit and gaps_within_limit judge
\* max_cue_duration_sec and max_gap_sec of the rule.
LimitsAreTheRules ==
    /\ cueStatus # "none" => (cueStatus = "WARN" <=>
          \E i \in ValidCues : Cue(i).end - Cue(i).start > deck.limits.cue)
    /\ gapStatus # "none" => (gapStatus = "WARN" <=> Silences(deck.limits.gap) # {})

\* Where the segments put an instant of the source, both ends of a segment
\* counted as the code does, and without its end as documented.
Places(t) == {Place(s, t) : s \in {s \in ToSet(deck.timeline) : Holds(s, t)}}

Kept(t) == {Place(s, t) : s \in {s \in ToSet(deck.timeline) : s.from <= t /\ t < s.to}}

\* Cue k of the source starts and ends in what was kept.
IsKept(k) == Kept(deck.source[k].start) # {} /\ Kept(deck.source[k].end) # {}

\* The delivered cue k is where a segment puts the start and where one puts
\* the end of the source's.
MayBeRight(k) ==
    /\ Cue(k) # Null
    /\ \E p \in Places(deck.source[k].start) : Near(Cue(k).start, p)
    /\ \E p \in Places(deck.source[k].end) : Near(Cue(k).end, p)

\* A segment puts the start of cue k, or its end, elsewhere.
MayBeWrong(k) ==
    /\ Places(deck.source[k].start) # {} /\ Places(deck.source[k].end) # {}
    /\ \/ Cue(k) = Null
       \/ \E p \in Places(deck.source[k].start) : ~Near(Cue(k).start, p)
       \/ \E p \in Places(deck.source[k].end) : ~Near(Cue(k).end, p)

TimelineJudged == timelineStatus # "none" /\ Len(deck.cues) = Len(deck.source)

\* PASS says that every cue is where segments put it, FAIL that there is one
\* that a segment puts elsewhere, UNKNOWN that there is one not wholly kept and
\* none that is kept and misplaced (rules.py 972-1008).  So only an instant
\* that two segments share, or the very end of a segment before a cut, leaves
\* the verdict open: there it depends on the order of the segments.
TimelineIsJudged ==
    TimelineJudged =>
        /\ timelineStatus \in {"PASS", "FAIL", "UNKNOWN"}
        /\ timelineStatus = "PASS" => \A k \in DOMAIN deck.source : MayBeRight(k)
        /\ timelineStatus = "FAIL" => \E k \in DOMAIN deck.source : MayBeWrong(k)
        /\ timelineStatus = "UNKNOWN" =>
              /\ \E k \in DOMAIN deck.source : ~IsKept(k)
              /\ \A k \in DOMAIN deck.source : IsKept(k) => MayBeRight(k)

\* rules.py 905-907: a segment says where source_start up to, but without,
\* source_end is in the delivery.  Cues that are all there pass.
KeptCuesPass ==
    /\ TimelineJudged
    /\ \A k \in DOMAIN deck.source :
          /\ IsKept(k) /\ Cue(k) # Null
          /\ \A p \in Kept(deck.source[k].start) : Near(Cue(k).start, p)
          /\ \A p \in Kept(deck.source[k].end) : Near(Cue(k).end, p)
    => timelineStatus = "PASS"
=============================================================================
