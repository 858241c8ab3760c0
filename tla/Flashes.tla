------------------------------ MODULE Flashes ------------------------------
(***************************************************************************)
(* The photosensitivity analysis: luminance changes are tracked in every   *)
(* cell of a grid, the changes are counted in sliding one-second windows,  *)
(* and a window in which too large a part of the screen changes too often  *)
(* fails the video.                                                        *)
(*                                                                         *)
(* A frame gives the luminance of each cell, in cd/m2, and its time in     *)
(* ticks, Second of which make a second.  The tolerance of 1e-6 s is below *)
(* a tick.                                                                 *)
(***************************************************************************)
EXTENDS Integers, Sequences, FiniteSets, FiniteSetsExt, Sorting

CONSTANTS Recordings,   \* the videos, with the rule's limit
          Cells, Second,
          MinDelta, DarkerBelow

\* Frame times do not go back, and part/whole is flash_area_fraction.
IsRecording(r) ==
    /\ r.times \in Seq(Nat) /\ r.times # <<>>
    /\ \A f, g \in DOMAIN r.times : f <= g => r.times[f] <= r.times[g]
    /\ r.lum \in Seq([Cells -> Nat]) /\ Len(r.lum) = Len(r.times)
    /\ r.part \in Nat /\ r.whole \in Nat \ {0} /\ r.part <= r.whole
    /\ r.limit \in Nat

ASSUME FlashAssumption ==
    /\ Cells # {} /\ IsFiniteSet(Cells) /\ Cells \subseteq Nat
    /\ Second \in Nat \ {0} /\ MinDelta \in Nat \ {0} /\ DarkerBelow \in Nat
    /\ \A r \in Recordings : IsRecording(r)

VARIABLES recording,
          frame,       \* the next frame to track
          tracker,     \* per cell: the last direction, the running extremes
          changes,     \* per cell: the frames at which a change completed
          stage, events,
          windows, window,   \* the windows being counted, and the next one
          entered, gone,     \* how many events came in (hi_i) and left (lo_i)
          counts, hist,
          found,       \* the qualified counts of the windows so far
          perSecond, worst, flashStatus

tracking == <<frame, tracker, changes>>
sliding == <<windows, window, entered, gone, counts, hist, found>>
flashVars == <<recording, tracking, stage, events, sliding, perSecond, worst, flashStatus>>

Frames == DOMAIN recording.times
Time(f) == recording.times[f]

\* Strictly more than flash_area_fraction of the screen, or all of it.
Needed(r) ==
    Min({(r.part * Cardinality(Cells)) \div r.whole + 1, Cardinality(Cells)})

NoCounts == [c \in Cells |-> 0]
NoHist == [n \in 0..Len(recording.times) |-> IF n = 0 THEN Cardinality(Cells) ELSE 0]

FlashStart ==
    /\ frame = 2
    /\ tracker = [c \in Cells |-> [direction |-> 0, lo |-> recording.lum[1][c],
                                   hi |-> recording.lum[1][c]]]
    /\ changes = [c \in Cells |-> {}]
    /\ stage = "track"
    /\ events = <<>>
    /\ windows = <<>> /\ window = 1 /\ entered = 0 /\ gone = 0
    /\ counts = NoCounts /\ hist = NoHist /\ found = <<>>
    /\ perSecond = <<>> /\ worst = 0 /\ flashStatus = "none"

FlashInit == recording \in Recordings /\ FlashStart

----------------------------------------------------------------------------
(* _cell_change_frames: after a change, follow the running extreme in the  *)
(* same direction until the luminance has moved back far enough.           *)

Rises(low, lum) == lum - low >= MinDelta /\ low < DarkerBelow
Falls(high, lum) == high - lum >= MinDelta /\ lum < DarkerBelow

TrackedFromTheStart(t, lum) ==
    IF t.direction # 1 /\ Rises(t.lo, lum) THEN [t EXCEPT !.direction = 1, !.hi = lum]
    ELSE IF t.direction # -1 /\ Falls(t.hi, lum) THEN [t EXCEPT !.direction = -1, !.lo = lum]
    ELSE [t EXCEPT !.lo = IF t.direction = 0 /\ lum < @ THEN lum ELSE @,
                   !.hi = IF t.direction = 0 /\ lum > @ THEN lum ELSE @]
Tracked(t, lum) ==
    IF t.direction # 1 /\ Rises(t.lo, lum) THEN [t EXCEPT !.direction = 1, !.hi = lum]
    ELSE IF t.direction # -1 /\ Falls(t.hi, lum) THEN [t EXCEPT !.direction = -1, !.lo = lum]
    ELSE [t EXCEPT !.lo = IF t.direction # 1 /\ lum < @ THEN lum ELSE @,
                   !.hi = IF t.direction # -1 /\ lum > @ THEN lum ELSE @]

Track ==
    /\ stage = "track" /\ frame \in Frames
    /\ tracker' = [c \in Cells |-> Tracked(tracker[c], recording.lum[frame][c])]
    /\ changes' = [c \in Cells |-> IF tracker'[c].direction # tracker[c].direction
                                   THEN changes[c] \cup {frame} ELSE changes[c]]
    /\ frame' = frame + 1
    /\ UNCHANGED <<recording, stage, events, sliding, perSecond, worst, flashStatus>>

----------------------------------------------------------------------------
(* _window_counts: the windows are sorted, so each event comes in once and *)
(* leaves once.                                                            *)

Event == Frames \X Cells

EarlierEvent(a, b) ==
    \/ Time(a[1]) < Time(b[1])
    \/ Time(a[1]) = Time(b[1]) /\ a[2] < b[2]
    \/ Time(a[1]) = Time(b[1]) /\ a[2] = b[2] /\ a[1] < b[1]

Open(newStage, ws) ==
    /\ stage' = newStage /\ windows' = ws /\ window' = 1
    /\ entered' = 0 /\ gone' = 0
    /\ counts' = NoCounts /\ hist' = NoHist /\ found' = <<>>

\* The seconds of the video, one after the other.
CountSeconds ==
    /\ stage = "track" /\ frame \notin Frames
    /\ events' = Sorted({e \in Event : e[1] \in changes[e[2]]},
                         {p \in Event \X Event : EarlierEvent(p[1], p[2])})
    /\ Open("seconds", [k \in 1..Time(Len(recording.times)) \div Second + 1 |->
                           [start |-> (k - 1) * Second, end |-> k * Second]])
    /\ UNCHANGED <<recording, tracking, perSecond, worst, flashStatus>>

Counting == stage \in {"seconds", "sliding"} /\ window \in DOMAIN windows

\* The event after the first k is before time t.
Due(k, t) == k + 1 \in DOMAIN events /\ Time(events[k + 1][1]) < t

BumpWithoutDrop(cell, delta) ==
    /\ counts' = [counts EXCEPT ![cell] = @ + delta]
    /\ hist' = [hist EXCEPT ![counts[cell] + delta] = @ + 1]
Bump(cell, delta) ==
    /\ counts' = [counts EXCEPT ![cell] = @ + delta]
    /\ hist' = [hist EXCEPT ![counts[cell]] = @ - 1, ![counts[cell] + delta] = @ + 1]

Enter ==
    /\ Counting /\ Due(entered, windows[window].end)
    /\ Bump(events[entered + 1][2], 1)
    /\ entered' = entered + 1
    /\ UNCHANGED <<recording, tracking, stage, events, windows, window, gone, found,
                   perSecond, worst, flashStatus>>

LeaveBehind(k) == Due(k, windows[window].start + 1)
Leaving(k) == Due(k, windows[window].start)

Leave ==
    /\ Counting /\ ~Due(entered, windows[window].end)
    /\ gone < entered /\ Leaving(gone)
    /\ Bump(events[gone + 1][2], -1)
    /\ gone' = gone + 1
    /\ UNCHANGED <<recording, tracking, stage, events, windows, window, entered, found,
                   perSecond, worst, flashStatus>>

\* How many cells have n changes or more, as the histogram has it.
Cumulative(n) == MapThenSumSet(LAMBDA m : hist[m], {m \in DOMAIN hist : m >= n})

\* _qualified_count: the largest count that enough cells reach.
Qualified ==
    Max({0} \cup {n \in DOMAIN hist : n > 0 /\ Cumulative(n) >= Needed(recording)})

CountWindow ==
    /\ Counting /\ ~Due(entered, windows[window].end)
    /\ ~(gone < entered /\ Leaving(gone))
    /\ found' = Append(found, Qualified)
    /\ window' = window + 1
    /\ UNCHANGED <<recording, tracking, stage, events, windows, entered, gone, counts,
                   hist, perSecond, worst, flashStatus>>

\* A window from each frame on.
CountSliding ==
    /\ stage = "seconds" /\ window \notin DOMAIN windows
    /\ perSecond' = found
    /\ Open("sliding", [f \in Frames |-> [start |-> Time(f), end |-> Time(f) + Second]])
    /\ UNCHANGED <<recording, tracking, events, worst, flashStatus>>

\* The worst window is the first with the most changes; two are one flash.
Judge ==
    /\ stage = "sliding" /\ window \notin DOMAIN windows
    /\ worst' = CHOOSE k \in DOMAIN found :
                   /\ \A j \in DOMAIN found : found[j] <= found[k]
                   /\ \A j \in DOMAIN found : j < k => found[j] < found[k]
    /\ flashStatus' = IF found[worst'] > 2 * recording.limit THEN "FAIL" ELSE "PASS"
    /\ stage' = "done"
    /\ UNCHANGED <<recording, tracking, events, sliding, perSecond>>

FlashNext ==
    \/ Track \/ CountSeconds \/ Enter \/ Leave \/ CountWindow \/ CountSliding \/ Judge

FlashSpec == FlashInit /\ [][FlashNext]_flashVars

----------------------------------------------------------------------------
\* The histogram always says how many cells have how many changes, and these
\* are the events between the two ends of the window.
FlashTypeOK ==
    /\ IsRecording(recording)
    /\ frame \in 2..Len(recording.times) + 1
    /\ tracker \in [Cells -> [direction : {-1, 0, 1}, lo : Nat, hi : Nat]]
    /\ changes \in [Cells -> SUBSET Frames]
    /\ stage \in {"track", "seconds", "sliding", "done"}
    /\ flashStatus \in {"none", "PASS", "FAIL"}
    /\ 0 <= gone /\ gone <= entered /\ entered <= Len(events)
    /\ counts = [c \in Cells |-> Cardinality({k \in gone + 1..entered : events[k][2] = c})]
    /\ hist = [n \in 0..Len(recording.times) |-> Cardinality({c \in Cells : counts[c] = n})]

\* Frames S of cell c swing up and down by turns, each time by MinDelta or
\* more with the darker side dark enough.
Swings(c, S) ==
    LET L(f) == recording.lum[f][c]
        next(f, g) == f < g /\ \A h \in S : ~(f < h /\ h < g)
    IN  /\ \A f, g \in S : next(f, g) => Rises(L(f), L(g)) \/ Falls(L(f), L(g))
        /\ \A f, g, h \in S : next(f, g) /\ next(g, h) => (L(f) < L(g) <=> L(g) > L(h))

\* The tracker, which never looks back, finds in each cell as many changes as
\* any choice of frames can show: no flash is missed by following the wrong
\* extreme (temporal.py 92-98).
ChangesAreMost ==
    stage = "track" => \A c \in Cells :
        LET chains == {S \in SUBSET (1..frame - 1) : S # {} /\ Swings(c, S)}
        IN  Cardinality(changes[c]) = Max({Cardinality(S) - 1 : S \in chains})

\* In any second, wherever it starts, how many changes cell c completes.
ChangesIn(c, from, to) == Cardinality({f \in changes[c] : from <= Time(f) /\ Time(f) < to})

TooMany(t) ==
    LET over == {c \in Cells : ChangesIn(c, t, t + Second) > 2 * recording.limit}
    IN  \/ Cardinality(over) * recording.whole > recording.part * Cardinality(Cells)
        \/ over = Cells

\* The video fails exactly if in some second, wherever it starts, more than the
\* allowed part of the screen changes more often than the limit, although only
\* windows that start at a frame are counted; and no whole second in the
\* evidence is worse than the worst window (temporal.py 192-220, rules.py 476-508).
WorstIsWorst ==
    stage = "done" =>
        /\ flashStatus = "FAIL" <=> \E t \in 0..Time(Len(recording.times)) : TooMany(t)
        /\ \A k \in DOMAIN perSecond : perSecond[k] <= found[worst]
=============================================================================
