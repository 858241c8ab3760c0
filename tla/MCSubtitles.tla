---------------------------- MODULE MCSubtitles ----------------------------
EXTENDS Subtitles

Spans(T) == {[start |-> s, end |-> e] : <<s, e>> \in T \X T}
Ordered(T) == {c \in Spans(T) : c.start <= c.end}

\* The same limits everywhere, if there are limits.
Deck(cues, video, n, timeline, source, tolerance) ==
    [cues |-> cues, video |-> video, params |-> [gap |-> n, cue |-> n],
     limits |-> [gap |-> n, cue |-> n], timeline |-> timeline, source |-> source,
     tolerance |-> tolerance]

Limits(d, gap, cue) == [d EXCEPT !.limits = [gap |-> gap, cue |-> cue]]

Keep(from, to, at, stretch) == [from |-> from, to |-> to, at |-> at, stretch |-> stretch]

\* Three cues at any times and in any order, readable or not; and two under
\* rules that are stricter or laxer than the parameters, or have no limits.
MCTimings ==
    {Deck(c, v, 1, <<>>, Null, 0) :
        c \in SeqOf(Ordered(0..3) \cup {Null, [start |-> 3, end |-> 1]}, 3),
        v \in {Null, 4}}
MCLimits ==
    {Limits(Deck(c, 4, 1, <<>>, Null, 0), gap, cue) :
        c \in SeqOf(Ordered(0..4), 2), gap \in {Null, 0, 2}, cue \in {Null, 0, 2}}

\* Nothing kept; two pieces joined, the second at half speed; two pieces with a
\* cut between them, listed in either order; two pieces swapped.
MCTimelines ==
    {<<>>,
     <<Keep(0, 2, 0, 1), Keep(2, 3, 2, 2)>>,
     <<Keep(0, 1, 0, 2), Keep(2, 3, 2, 2)>>,
     <<Keep(2, 3, 2, 2), Keep(0, 1, 0, 2)>>,
     <<Keep(0, 2, 2, 1), Keep(2, 4, 0, 1)>>}

\* One cue, and two, of the source against those delivered.
MCEdits ==
    {Deck(c, Null, 9, t, s, tolerance) :
        c \in SeqOf(Ordered(0..4) \cup {Null}, 1), t \in MCTimelines,
        s \in SeqOf(Ordered(0..3), 1), tolerance \in {0, 1}}
    \cup {Deck(c, Null, 9, t, s, 0) :
             c \in [1..2 -> {[start |-> 0, end |-> 2], [start |-> 2, end |-> 4],
                             [start |-> 0, end |-> 1]}],
             t \in MCTimelines,
             s \in [1..2 -> {c \in Ordered(0..3) : c.end = c.start + 1 \/ c.end = 2}]}

\* One cue of a source whose two halves were swapped.
MCSwapped ==
    {Deck(c, Null, 9, <<Keep(0, 2, 2, 1), Keep(2, 4, 0, 1)>>, s, 0) :
        c \in SeqOf(Ordered(0..4), 1), s \in [1..1 -> {[start |-> 2, end |-> 3]}]}

MCDecks == MCTimings \cup MCLimits \cup MCEdits
=============================================================================
