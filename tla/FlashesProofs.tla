---------------------------- MODULE FlashesProofs ----------------------------
(***************************************************************************)
(* Theorems about Flashes for any recordings, thresholds and grids: first  *)
(* the tracker of each cell, then the count in the windows.                *)
(***************************************************************************)
EXTENDS Flashes, TimelineProofs

(***************************************************************************)
(* What the tracker has found in a cell is a longest chain of swings, and  *)
(* more: no chain as long as it, or shorter by one and ending in the same  *)
(* direction, ends further than the extreme it follows.                    *)
(***************************************************************************)
Level(c, f) == recording.lum[f][c]

\* The luminance turns into direction d, 1 or -1, between x and y.
Turn(d, x, y) == IF d = 1 THEN Rises(x, y) ELSE Falls(x, y)
AsFar(d, x, y) == IF d = 1 THEN x >= y ELSE x <= y
Extreme(t) == IF t.direction = 1 THEN t.hi ELSE t.lo

IsLast(S, z) == z \in S /\ \A h \in S : h <= z
Follows(S, f, g) == f \in S /\ g \in S /\ f < g /\ \A h \in S : ~(f < h /\ h < g)
EndsIn(c, S, d, z) ==
    IsLast(S, z) /\ \E y \in S : Follows(S, y, z) /\ Turn(d, Level(c, y), Level(c, z))

Chain(c, n, S) == S \in SUBSET (1..n) /\ S # {} /\ Swings(c, S)

\* The first n frames, when tracker t has found k changes in them.
Undecided(c, n, t) ==
    /\ \A f \in 1..n : t.lo <= Level(c, f) /\ Level(c, f) <= t.hi
    /\ \E f \in 1..n : Level(c, f) = t.lo
    /\ \E f \in 1..n : Level(c, f) = t.hi
    /\ ~(t.hi - t.lo >= MinDelta /\ t.lo < DarkerBelow)

Bounded(c, n, k, t) ==
    \A S \in SUBSET (1..n) : Chain(c, n, S) =>
        /\ Cardinality(S) <= k + 1
        /\ \A z \in S : IsLast(S, z) =>
              /\ Cardinality(S) = k + 1 => EndsIn(c, S, t.direction, z)
              /\ Cardinality(S) >= k /\ (Cardinality(S) = 1 \/ EndsIn(c, S, t.direction, z))
                 => AsFar(t.direction, Extreme(t), Level(c, z))

Attained(c, n, k, t) ==
    \E S \in SUBSET (1..n), f \in 1..n :
        /\ Cardinality(S) = k /\ \A h \in S : h < f
        /\ Swings(c, S \cup {f}) /\ EndsIn(c, S \cup {f}, t.direction, f)
        /\ Level(c, f) = Extreme(t)

Longest(c, n, k, t) ==
    IF t.direction = 0 THEN k = 0 /\ Undecided(c, n, t)
    ELSE k > 0 /\ Bounded(c, n, k, t) /\ Attained(c, n, k, t)

TrackedSoFar ==
    /\ IsRecording(recording)
    /\ frame \in 2..Len(recording.times) + 1
    /\ tracker \in [Cells -> [direction : {-1, 0, 1}, lo : Nat, hi : Nat]]
    /\ changes \in [Cells -> SUBSET (1..frame - 1)]
    /\ \A c \in Cells : Longest(c, frame - 1, Cardinality(changes[c]), tracker[c])

----------------------------------------------------------------------------
(* Lemmas about swings.                                                    *)

Directions == {1, -1}
Opposite(d) == IF d = 1 THEN -1 ELSE 1

LEMMA OppositeFacts ==
    /\ 1 \in Directions /\ -1 \in Directions
    /\ Opposite(1) = -1 /\ Opposite(-1) = 1
    /\ \A d \in Directions :
          /\ d = 1 \/ d = -1
          /\ Opposite(d) \in Directions /\ Opposite(d) # d /\ Opposite(Opposite(d)) = d
<1>1. 1 # -1
  OBVIOUS
<1> QED
  BY <1>1 DEF Directions, Opposite

LEMMA LevelFacts ==
    ASSUME IsRecording(recording), NEW c \in Cells
    PROVE  /\ Len(recording.times) \in Nat \ {0} /\ Frames = 1..Len(recording.times)
           /\ \A f \in Frames : Level(c, f) \in Nat
<1>1. /\ recording.times \in Seq(Nat) /\ recording.times # <<>>
      /\ recording.lum \in Seq([Cells -> Nat])
      /\ Len(recording.lum) = Len(recording.times)
  BY DEF IsRecording
<1>2. Len(recording.times) \in Nat \ {0} /\ Frames = 1..Len(recording.times)
  BY <1>1 DEF Frames
<1>3. \A f \in 1..Len(recording.lum) : recording.lum[f] \in [Cells -> Nat]
  BY <1>1, ElementsFacts
<1> QED
  BY <1>1, <1>2, <1>3 DEF Level

LEMMA TurnsDiffer ==
    ASSUME NEW x \in Nat, NEW y \in Nat
    PROVE  /\ Turn(1, x, y) => x < y
           /\ Turn(-1, x, y) => x > y
BY FlashAssumption DEF Turn, Rises, Falls

LEMMA FartherTurns ==
    ASSUME NEW d \in Directions, NEW x \in Nat, NEW y \in Nat, NEW z \in Nat
    PROVE  /\ Turn(Opposite(d), x, y) /\ AsFar(d, z, x) => Turn(Opposite(d), z, y)
           /\ Turn(d, x, y) /\ AsFar(d, z, y) => Turn(d, x, z)
<1>1. MinDelta \in Nat /\ DarkerBelow \in Nat
  BY FlashAssumption
<1>2. CASE d = 1
  BY <1>1, <1>2, OppositeFacts DEF Turn, AsFar, Rises, Falls
<1>3. CASE d = -1
  <2>1. Opposite(d) = 1 /\ d # 1
    BY <1>3, OppositeFacts
  <2> QED
    BY <1>1, <2>1 DEF Turn, AsFar, Rises, Falls
<1> QED
  BY <1>2, <1>3, OppositeFacts

LEMMA SwingsFacts ==
    ASSUME NEW c \in Cells, NEW S
    PROVE  Swings(c, S) <=>
             /\ \A f, g \in S : Follows(S, f, g) =>
                   Turn(1, Level(c, f), Level(c, g)) \/ Turn(-1, Level(c, f), Level(c, g))
             /\ \A f, g, h \in S : Follows(S, f, g) /\ Follows(S, g, h) =>
                   (Level(c, f) < Level(c, g) <=> Level(c, g) > Level(c, h))
BY DEF Swings, Follows, Turn, Level

LEMMA LastExists ==
    ASSUME NEW n \in Nat, NEW S \in SUBSET (1..n), S # {}
    PROVE  \E z \in S : IsLast(S, z)
<1> DEFINE R == {p \in S \X S : p[1] > p[2]}
<1>1. IsFiniteSet(S)
  BY IndicesFacts
<1>2. \A x, y \in S : <<x, y>> \in R <=> x > y
  OBVIOUS
<1>3. \A x \in S : x \in Int
  OBVIOUS
<1> HIDE DEF R
<1>4. StrictOrder(S, R)
  BY <1>1, <1>2, <1>3 DEF StrictOrder
<1>5. PICK x \in S : \A y \in S : x = y \/ <<x, y>> \in R
  BY <1>4, LeastExists
<1>6. ASSUME NEW y \in S PROVE y <= x
  <2>1. x = y \/ x > y
    BY <1>2, <1>5
  <2> QED
    BY <1>3, <2>1
<1> QED
  BY <1>6 DEF IsLast

\* A chain and one frame more, behind it.
LEMMA OneMore ==
    ASSUME IsRecording(recording), NEW c \in Cells,
           NEW S \in SUBSET Frames, NEW z \in S, IsLast(S, z),
           NEW g \in Frames, \A h \in S : h < g
    PROVE  /\ \A a, b : Follows(S \cup {g}, a, b) <=> Follows(S, a, b) \/ (a = z /\ b = g)
           /\ IsLast(S \cup {g}, g)
           /\ IsFiniteSet(S) /\ Cardinality(S \cup {g}) = Cardinality(S) + 1
           /\ Cardinality(S) \in Nat \ {0}
<1>1. Frames \subseteq Nat /\ Len(recording.times) \in Nat /\ Frames = 1..Len(recording.times)
  BY LevelFacts
<1>2. IsFiniteSet(S)
  BY <1>1, IndicesFacts
<1>3. g \notin S
  BY <1>1
<1>4. Cardinality(S \cup {g}) = Cardinality(S) + 1 /\ Cardinality(S) \in Nat \ {0}
  BY <1>2, <1>3, FS_AddElement, FS_CardinalityType, FS_EmptySet
<1>5. IsLast(S \cup {g}, g)
  BY <1>1 DEF IsLast
<1>6. ASSUME NEW a, NEW b, Follows(S \cup {g}, a, b)
      PROVE  Follows(S, a, b) \/ (a = z /\ b = g)
  <2>1. a # g
    BY <1>1, <1>6 DEF Follows
  <2>2. CASE b = g
    <3>1. ~(a < z /\ z < g) /\ a \in S
      BY <1>6, <2>1, <2>2 DEF Follows
    <3> QED
      BY <1>1, <2>2, <3>1 DEF IsLast
  <2>3. CASE b # g
    BY <1>6, <2>1, <2>3 DEF Follows
  <2> QED
    BY <2>2, <2>3
<1>7. ASSUME NEW a, NEW b, Follows(S, a, b) PROVE Follows(S \cup {g}, a, b)
  BY <1>1, <1>7 DEF Follows
<1>8. Follows(S \cup {g}, z, g)
  BY <1>1 DEF Follows, IsLast
<1> QED
  BY <1>2, <1>4, <1>5, <1>6, <1>7, <1>8

\* In which direction it can go on.
LEMMA Extension ==
    ASSUME IsRecording(recording), NEW c \in Cells,
           NEW S \in SUBSET Frames, NEW z \in S, IsLast(S, z),
           NEW g \in Frames, \A h \in S : h < g
    PROVE  /\ Swings(c, S \cup {g}) =>
                /\ Swings(c, S)
                /\ \E d \in Directions : /\ Turn(d, Level(c, z), Level(c, g))
                                         /\ EndsIn(c, S \cup {g}, d, g)
                /\ \A d \in Directions : EndsIn(c, S, d, z) =>
                      Turn(Opposite(d), Level(c, z), Level(c, g)) /\ EndsIn(c, S \cup {g}, Opposite(d), g)
           /\ \A d \in Directions : Turn(Opposite(d), Level(c, z), Level(c, g)) =>
                /\ EndsIn(c, S \cup {g}, Opposite(d), g)
                /\ Swings(c, S) /\ (S = {z} \/ EndsIn(c, S, d, z)) => Swings(c, S \cup {g})
<1> DEFINE T == S \cup {g}
           L(f) == Level(c, f)
<1>1. /\ \A a, b : Follows(T, a, b) <=> Follows(S, a, b) \/ (a = z /\ b = g)
      /\ IsLast(T, g)
  BY OneMore
<1>2. /\ \A f \in T : L(f) \in Nat
      /\ T \subseteq Nat /\ g \notin S
  BY LevelFacts
<1>3. \A a, b : Follows(S, a, b) => a \in S /\ b \in S /\ a # g /\ b # g
  BY <1>2 DEF Follows
<1>4. z \in T /\ g \in T /\ \A a \in S : a \in T
  OBVIOUS
<1>5. \A a, b \in T : /\ Turn(1, L(a), L(b)) => L(a) < L(b)
                      /\ Turn(-1, L(a), L(b)) => L(a) > L(b)
  BY <1>2, TurnsDiffer
<1>6. /\ Swings(c, S) <=>
           /\ \A f, h \in S : Follows(S, f, h) => Turn(1, L(f), L(h)) \/ Turn(-1, L(f), L(h))
           /\ \A f, h, i \in S : Follows(S, f, h) /\ Follows(S, h, i) =>
                 (L(f) < L(h) <=> L(h) > L(i))
      /\ Swings(c, T) <=>
           /\ \A f, h \in T : Follows(T, f, h) => Turn(1, L(f), L(h)) \/ Turn(-1, L(f), L(h))
           /\ \A f, h, i \in T : Follows(T, f, h) /\ Follows(T, h, i) =>
                 (L(f) < L(h) <=> L(h) > L(i))
  BY SwingsFacts
<1>7. \A d : Turn(d, L(z), L(g)) => EndsIn(c, T, d, g)
  BY <1>1, <1>4 DEF EndsIn
<1>8. \A d : EndsIn(c, S, d, z) => \E y \in S : Follows(S, y, z) /\ Turn(d, L(y), L(z))
  BY DEF EndsIn
<1>9. \A y \in S : Follows(S, y, z) => y \in T
  OBVIOUS
<1> HIDE DEF T, L
<1>10. ASSUME Swings(c, T)
       PROVE  /\ Swings(c, S)
              /\ Turn(1, L(z), L(g)) \/ Turn(-1, L(z), L(g))
              /\ \A d \in Directions : EndsIn(c, S, d, z) => Turn(Opposite(d), L(z), L(g))
  <2>1. Swings(c, S)
    BY <1>1, <1>4, <1>6, <1>10
  <2>2. Turn(1, L(z), L(g)) \/ Turn(-1, L(z), L(g))
    BY <1>1, <1>4, <1>6, <1>10
  <2>3. ASSUME NEW d \in Directions, EndsIn(c, S, d, z) PROVE Turn(Opposite(d), L(z), L(g))
    <3>1. PICK y \in S : Follows(S, y, z) /\ Turn(d, L(y), L(z))
      BY <1>8, <2>3
    <3>2. L(y) < L(z) <=> L(z) > L(g)
      BY <1>1, <1>4, <1>6, <1>10, <3>1
    <3>3. CASE d = 1
      <4>1. L(y) < L(z)
        BY <1>4, <1>5, <3>1, <3>3
      <4>2. ~Turn(1, L(z), L(g))
        BY <1>2, <1>4, <1>5, <3>2, <4>1
      <4> QED
        BY <2>2, <3>3, <4>2, OppositeFacts
    <3>4. CASE d = -1
      <4>1. L(y) > L(z)
        BY <1>4, <1>5, <3>1, <3>4
      <4>2. ~(L(y) < L(z))
        BY <1>2, <1>4, <4>1
      <4>3. ~Turn(-1, L(z), L(g))
        BY <1>4, <1>5, <3>2, <4>2
      <4>4. Opposite(d) = 1
        BY <3>4, OppositeFacts
      <4> QED
        BY <2>2, <4>3, <4>4
    <3> QED
      BY <3>3, <3>4, OppositeFacts
  <2> QED
    BY <2>1, <2>2, <2>3
<1>11. ASSUME NEW d \in Directions, Turn(Opposite(d), L(z), L(g)), Swings(c, S),
              S = {z} \/ EndsIn(c, S, d, z)
       PROVE  Swings(c, T)
  <2>1. Opposite(d) = 1 \/ Opposite(d) = -1
    BY OppositeFacts
  <2>2. \A f, h \in T : Follows(T, f, h) => Turn(1, L(f), L(h)) \/ Turn(-1, L(f), L(h))
    BY <1>1, <1>3, <1>6, <1>11, <2>1
  <2>3. ASSUME NEW y \in S, Follows(S, y, z) PROVE L(y) < L(z) <=> L(z) > L(g)
    <3>1. S # {z}
      BY <1>2, <2>3 DEF Follows, T
    <3>2. PICK x \in S : Follows(S, x, z) /\ Turn(d, L(x), L(z))
      BY <1>8, <1>11, <3>1
    <3>3. x = y
      BY <1>2, <1>4, <2>3, <3>2 DEF Follows
    <3>4. L(x) \in Nat /\ L(z) \in Nat /\ L(g) \in Nat
      BY <1>2, <1>4
    <3>5. CASE d = 1
      <4>1. L(x) < L(z) /\ L(z) > L(g)
        BY <1>4, <1>5, <1>11, <3>2, <3>5, OppositeFacts
      <4> QED
        BY <3>3, <4>1
    <3>6. CASE d = -1
      <4>1. Opposite(d) = 1
        BY <3>6, OppositeFacts
      <4>2. L(x) > L(z) /\ L(z) < L(g)
        BY <1>4, <1>5, <1>11, <3>2, <3>6, <4>1
      <4> QED
        BY <3>3, <3>4, <4>2
    <3> QED
      BY <3>5, <3>6, OppositeFacts
  <2>4. \A f, h, i \in T : Follows(T, f, h) /\ Follows(T, h, i) =>
           (L(f) < L(h) <=> L(h) > L(i))
    <3>1. SUFFICES ASSUME NEW f \in T, NEW h \in T, NEW i \in T,
                          Follows(T, f, h), Follows(T, h, i)
                   PROVE  L(f) < L(h) <=> L(h) > L(i)
      OBVIOUS
    <3>2. h # g
      BY <1>1, <1>2, <1>3, <3>1
    <3>3. Follows(S, f, h) /\ f \in S /\ h \in S
      BY <1>1, <1>3, <3>1, <3>2
    <3>4. CASE Follows(S, h, i)
      BY <1>3, <1>6, <1>11, <3>3, <3>4
    <3>5. CASE h = z /\ i = g
      BY <2>3, <3>3, <3>5
    <3> QED
      BY <1>1, <3>1, <3>4, <3>5
  <2> QED
    BY <1>6, <2>2, <2>4
<1>12. 1 \in Directions /\ -1 \in Directions /\ \A d \in Directions : Opposite(d) \in Directions
  BY OppositeFacts
<1>13. /\ Swings(c, T) =>
            /\ Swings(c, S)
            /\ \E d \in Directions : Turn(d, L(z), L(g)) /\ EndsIn(c, T, d, g)
            /\ \A d \in Directions : EndsIn(c, S, d, z) =>
                  Turn(Opposite(d), L(z), L(g)) /\ EndsIn(c, T, Opposite(d), g)
       /\ \A d \in Directions : Turn(Opposite(d), L(z), L(g)) =>
            /\ EndsIn(c, T, Opposite(d), g)
            /\ Swings(c, S) /\ (S = {z} \/ EndsIn(c, S, d, z)) => Swings(c, T)
  BY <1>7, <1>10, <1>11, <1>12
<1> QED
  BY <1>13 DEF T, L

LEMMA OneDirection ==
    ASSUME IsRecording(recording), NEW c \in Cells, NEW S \in SUBSET Frames, NEW z,
           NEW d \in Directions, NEW e \in Directions,
           EndsIn(c, S, d, z), EndsIn(c, S, e, z)
    PROVE  d = e
<1>1. PICK x \in S : Follows(S, x, z) /\ Turn(d, Level(c, x), Level(c, z))
  BY DEF EndsIn
<1>2. PICK y \in S : Follows(S, y, z) /\ Turn(e, Level(c, y), Level(c, z))
  BY DEF EndsIn
<1>3. S \subseteq Nat /\ \A f \in S : Level(c, f) \in Nat
  BY LevelFacts
<1>4. x = y /\ z \in S
  BY <1>1, <1>2, <1>3 DEF Follows
<1>5. Level(c, x) \in Nat /\ Level(c, z) \in Nat
  BY <1>3, <1>4
<1>6. ~(Turn(1, Level(c, x), Level(c, z)) /\ Turn(-1, Level(c, x), Level(c, z)))
  BY <1>5, TurnsDiffer
<1> QED
  BY <1>1, <1>2, <1>4, <1>6, OppositeFacts

\* A chain of two frames or more ends in some direction.
LEMMA Ends ==
    ASSUME IsRecording(recording), NEW c \in Cells, NEW S \in SUBSET Frames,
           NEW z \in S, IsLast(S, z), Swings(c, S), S # {z}
    PROVE  \E d \in Directions : EndsIn(c, S, d, z)
<1> DEFINE P == S \ {z}
<1>1. S \subseteq Nat /\ Frames \subseteq Nat /\ Len(recording.times) \in Nat
      /\ Frames = 1..Len(recording.times)
  BY LevelFacts
<1>2. P # {} /\ P \in SUBSET Frames /\ P \cup {z} = S /\ z \in Frames
  OBVIOUS
<1>3. PICK y \in P : IsLast(P, y)
  BY <1>1, <1>2, LastExists
<1>4. \A h \in P : h < z
  BY <1>1 DEF IsLast
<1> HIDE DEF P
<1> QED
  BY <1>2, <1>3, <1>4, Extension

\* Its last frame may be a later one that goes further.
LEMMA Replacement ==
    ASSUME IsRecording(recording), NEW c \in Cells, NEW S \in SUBSET Frames,
           NEW f \in Frames, \A h \in S : h < f,
           NEW g \in Frames, f < g,
           NEW d \in Directions,
           Swings(c, S \cup {f}), EndsIn(c, S \cup {f}, d, f),
           AsFar(d, Level(c, g), Level(c, f))
    PROVE  Swings(c, S \cup {g}) /\ EndsIn(c, S \cup {g}, d, g) /\ \A h \in S : h < g
<1>1. /\ S \subseteq Nat /\ Frames \subseteq Nat /\ Len(recording.times) \in Nat
      /\ Frames = 1..Len(recording.times) /\ \A h \in Frames : Level(c, h) \in Nat
  BY LevelFacts
<1>2. S # {} /\ \A h \in S : h < g
  <2>1. PICK y \in S \cup {f} : y < f
    BY DEF EndsIn, Follows
  <2>2. y \in S
    BY <1>1, <2>1
  <2> QED
    BY <1>1, <2>2
<1>3. PICK z \in S : IsLast(S, z)
  BY <1>1, <1>2, LastExists
<1>4. Swings(c, S)
  BY <1>3, Extension
<1>5. Turn(d, Level(c, z), Level(c, f))
  <2>1. PICK e \in Directions : /\ Turn(e, Level(c, z), Level(c, f))
                                /\ EndsIn(c, S \cup {f}, e, f)
    BY <1>3, Extension
  <2>2. S \cup {f} \in SUBSET Frames
    OBVIOUS
  <2>3. d = e
    BY <2>1, <2>2, OneDirection
  <2> QED
    BY <2>1, <2>3
<1>6. Turn(d, Level(c, z), Level(c, g))
  BY <1>1, <1>3, <1>5, FartherTurns
<1> DEFINE o == Opposite(d)
<1>7. o \in Directions /\ Opposite(o) = d
  BY OppositeFacts
<1>8. S = {z} \/ EndsIn(c, S, o, z)
  <2>1. SUFFICES ASSUME S # {z} PROVE EndsIn(c, S, o, z)
    OBVIOUS
  <2>2. PICK e \in Directions : EndsIn(c, S, e, z)
    BY <1>3, <1>4, <2>1, Ends
  <2>3. EndsIn(c, S \cup {f}, Opposite(e), f) /\ Opposite(e) \in Directions
    BY <1>3, <2>2, Extension, OppositeFacts
  <2>4. S \cup {f} \in SUBSET Frames
    OBVIOUS
  <2>5. Opposite(e) = d
    BY <2>3, <2>4, OneDirection
  <2> QED
    BY <2>2, <2>5, OppositeFacts
<1> HIDE DEF o
<1> QED
  BY <1>2, <1>3, <1>4, <1>6, <1>7, <1>8, Extension

----------------------------------------------------------------------------
(* The tracker.                                                            *)

Tracker == [direction : {-1, 0, 1}, lo : Nat, hi : Nat]

LEMMA TrackedType ==
    ASSUME NEW t \in Tracker, NEW l \in Nat
    PROVE  Tracked(t, l) \in Tracker
BY DEF Tracked, Tracker

\* With a direction it turns, or follows the extreme.
LEMMA TrackedTurns ==
    ASSUME NEW t \in Tracker, NEW l \in Nat, NEW d \in Directions, t.direction = d
    PROVE  /\ Turn(Opposite(d), Extreme(t), l) =>
                Tracked(t, l).direction = Opposite(d) /\ Extreme(Tracked(t, l)) = l
           /\ ~Turn(Opposite(d), Extreme(t), l) =>
                /\ Tracked(t, l).direction = d
                /\ \/ Extreme(Tracked(t, l)) = Extreme(t) /\ AsFar(d, Extreme(t), l)
                   \/ Extreme(Tracked(t, l)) = l /\ AsFar(d, l, Extreme(t))
<1>1. t.lo \in Nat /\ t.hi \in Nat /\ 1 # -1
  BY DEF Tracker
<1> DEFINE u == Tracked(t, l)
<1>2. CASE d = 1
  <2>1. Opposite(d) = -1 /\ Extreme(t) = t.hi
    BY <1>2, OppositeFacts DEF Extreme
  <2>2. Turn(Opposite(d), Extreme(t), l) <=> Falls(t.hi, l)
    BY <1>1, <2>1 DEF Turn
  <2>3. CASE Falls(t.hi, l)
    <3>1. u = [t EXCEPT !.direction = -1, !.lo = l]
      BY <1>1, <1>2, <2>3 DEF Tracked
    <3>2. u.direction = -1 /\ u.lo = l
      BY <3>1 DEF Tracker
    <3> QED
      BY <1>1, <2>1, <2>2, <2>3, <3>2 DEF Extreme
  <2>4. CASE ~Falls(t.hi, l)
    <3>1. u = [t EXCEPT !.hi = IF l > @ THEN l ELSE @]
      BY <1>1, <1>2, <2>4 DEF Tracked, Tracker
    <3>2. u.direction = 1 /\ u.hi = IF l > t.hi THEN l ELSE t.hi
      BY <1>2, <3>1 DEF Tracker
    <3>3. Extreme(u) = IF l > t.hi THEN l ELSE t.hi
      BY <3>2 DEF Extreme
    <3> QED
      BY <1>1, <1>2, <2>1, <2>2, <2>4, <3>2, <3>3 DEF AsFar
  <2> QED
    BY <2>3, <2>4
<1>3. CASE d = -1
  <2>1. Opposite(d) = 1 /\ Extreme(t) = t.lo
    BY <1>1, <1>3, OppositeFacts DEF Extreme
  <2>2. Turn(Opposite(d), Extreme(t), l) <=> Rises(t.lo, l)
    BY <1>1, <2>1 DEF Turn
  <2>3. CASE Rises(t.lo, l)
    <3>1. u = [t EXCEPT !.direction = 1, !.hi = l]
      BY <1>1, <1>3, <2>3 DEF Tracked
    <3>2. u.direction = 1 /\ u.hi = l
      BY <3>1 DEF Tracker
    <3> QED
      BY <1>1, <2>1, <2>2, <2>3, <3>2 DEF Extreme
  <2>4. CASE ~Rises(t.lo, l)
    <3>1. u = [t EXCEPT !.lo = IF l < @ THEN l ELSE @]
      BY <1>1, <1>3, <2>4 DEF Tracked, Tracker
    <3>2. u.direction = -1 /\ u.lo = IF l < t.lo THEN l ELSE t.lo
      BY <1>3, <3>1 DEF Tracker
    <3>3. Extreme(u) = IF l < t.lo THEN l ELSE t.lo
      BY <1>1, <3>2 DEF Extreme
    <3> QED
      BY <1>1, <1>3, <2>1, <2>2, <2>4, <3>2, <3>3 DEF AsFar
  <2> QED
    BY <2>3, <2>4
<1> QED
  BY <1>2, <1>3, OppositeFacts

\* Without one it does, or remembers both extremes.
LEMMA TrackedStarts ==
    ASSUME NEW t \in Tracker, NEW l \in Nat, t.direction = 0
    PROVE  LET u == Tracked(t, l)
           IN  /\ Rises(t.lo, l) => u.direction = 1 /\ u.hi = l
               /\ ~Rises(t.lo, l) /\ Falls(t.hi, l) => u.direction = -1 /\ u.lo = l
               /\ ~Rises(t.lo, l) /\ ~Falls(t.hi, l) =>
                    /\ u.direction = 0
                    /\ u.lo = IF l < t.lo THEN l ELSE t.lo
                    /\ u.hi = IF l > t.hi THEN l ELSE t.hi
<1> DEFINE u == Tracked(t, l)
<1>1. t.lo \in Nat /\ t.hi \in Nat /\ 0 # 1 /\ 0 # -1
  BY DEF Tracker
<1>2. CASE Rises(t.lo, l)
  <2>1. u = [t EXCEPT !.direction = 1, !.hi = l]
    BY <1>1, <1>2 DEF Tracked
  <2>2. u.direction = 1 /\ u.hi = l
    BY <2>1 DEF Tracker
  <2> QED
    BY <1>2, <2>2
<1>3. CASE ~Rises(t.lo, l) /\ Falls(t.hi, l)
  <2>1. u = [t EXCEPT !.direction = -1, !.lo = l]
    BY <1>1, <1>3 DEF Tracked
  <2>2. u.direction = -1 /\ u.lo = l
    BY <2>1 DEF Tracker
  <2> QED
    BY <1>3, <2>2
<1>4. CASE ~Rises(t.lo, l) /\ ~Falls(t.hi, l)
  <2>1. u = [t EXCEPT !.lo = IF l < @ THEN l ELSE @, !.hi = IF l > @ THEN l ELSE @]
    BY <1>1, <1>4 DEF Tracked, Tracker
  <2>2. /\ u.direction = 0
        /\ u.lo = IF l < t.lo THEN l ELSE t.lo
        /\ u.hi = IF l > t.hi THEN l ELSE t.hi
    BY <2>1 DEF Tracker
  <2> QED
    BY <1>4, <2>2
<1> QED
  BY <1>2, <1>3, <1>4

LEMMA OneFrame == \A x : IsFiniteSet({x}) /\ Cardinality({x}) = 1
BY FS_Singleton

\* The chains of the first n + 1 frames are those of the first n, the frame
\* alone, and longer ones by it.
LEMMA NewChains ==
    ASSUME IsRecording(recording), NEW c \in Cells, NEW n \in Nat, n + 1 \in Frames,
           NEW T \in SUBSET (1..n + 1), Chain(c, n + 1, T)
    PROVE  \/ Chain(c, n, T)
           \/ T = {n + 1}
           \/ \E S \in SUBSET (1..n) : \E z \in S :
                 /\ Chain(c, n, S) /\ IsLast(S, z) /\ T = S \cup {n + 1}
<1> DEFINE g == n + 1
           S == T \ {g}
<1>1. /\ Frames \subseteq Nat /\ Len(recording.times) \in Nat
      /\ Frames = 1..Len(recording.times) /\ \A h \in 1..n : h \in Frames /\ h < g
  BY LevelFacts
<1>2. \A h \in 1..n + 1 : h \in 1..n \/ h = g
  OBVIOUS
<1>3. CASE g \notin T
  <2>1. T \in SUBSET (1..n)
    BY <1>2, <1>3
  <2> QED
    BY <2>1 DEF Chain
<1>4. CASE g \in T /\ S = {}
  BY <1>4
<1>5. CASE g \in T /\ S # {}
  <2>1. S \in SUBSET (1..n) /\ T = S \cup {g}
    BY <1>2, <1>5
  <2> HIDE DEF S
  <2>2. PICK z \in S : IsLast(S, z)
    BY <1>5, <2>1, LastExists
  <2>3. S \in SUBSET Frames /\ g \in Frames /\ \A h \in S : h < g
    BY <1>1, <2>1
  <2>4. Swings(c, T)
    BY DEF Chain
  <2> HIDE DEF g
  <2>5. Swings(c, S)
    BY <2>1, <2>2, <2>3, <2>4, Extension
  <2>6. Chain(c, n, S)
    BY <1>5, <2>1, <2>5 DEF Chain
  <2> QED
    BY <2>1, <2>2, <2>6 DEF g
<1> QED
  BY <1>3, <1>4, <1>5

\* Of such a longer one.
LEMMA LongerChain ==
    ASSUME IsRecording(recording), NEW c \in Cells, NEW n \in Nat, n + 1 \in Frames,
           NEW S \in SUBSET (1..n), NEW z \in S, Chain(c, n, S), IsLast(S, z)
    PROVE  /\ S \in SUBSET Frames /\ z \in Frames /\ \A h \in S : h < n + 1
           /\ IsLast(S \cup {n + 1}, n + 1)
           /\ \A y \in S \cup {n + 1} : IsLast(S \cup {n + 1}, y) => y = n + 1
           /\ Cardinality(S) \in Nat \ {0}
           /\ Cardinality(S \cup {n + 1}) = Cardinality(S) + 1
           /\ Cardinality(S) = 1 => S = {z}
           /\ Cardinality(S) # 1 => \E d \in Directions : EndsIn(c, S, d, z)
           /\ Swings(c, S)
<1> DEFINE g == n + 1
<1>1. /\ Frames \subseteq Nat /\ Len(recording.times) \in Nat
      /\ Frames = 1..Len(recording.times) /\ \A h \in 1..n : h \in Frames /\ h < g
  BY LevelFacts
<1>2. S \in SUBSET Frames /\ z \in Frames /\ \A h \in S : h < g
  BY <1>1
<1>3. g \in Frames /\ g \in Nat
  OBVIOUS
<1> HIDE DEF g
<1>4. /\ IsLast(S \cup {g}, g)
      /\ IsFiniteSet(S) /\ Cardinality(S \cup {g}) = Cardinality(S) + 1
      /\ Cardinality(S) \in Nat \ {0}
  BY <1>2, <1>3, OneMore
<1>5. \A y \in S \cup {g} : IsLast(S \cup {g}, y) => y = g
  BY <1>1, <1>2, <1>3 DEF IsLast
<1>6. Cardinality(S) = 1 => S = {z}
  BY <1>4, FS_Singleton
<1>7. Swings(c, S)
  BY DEF Chain
<1>8. Cardinality(S) # 1 => \E d \in Directions : EndsIn(c, S, d, z)
  <2>1. S = {z} => Cardinality(S) = 1
    BY OneFrame
  <2> QED
    BY <1>2, <1>7, <2>1, Ends
<1> QED
  BY <1>2, <1>4, <1>5, <1>6, <1>7, <1>8 DEF g

LEMMA TurnedIsLongest ==
    ASSUME IsRecording(recording), NEW c \in Cells, NEW n \in Nat \ {0}, n + 1 \in Frames,
           NEW k \in Nat \ {0}, NEW t \in Tracker, NEW d \in Directions, t.direction = d,
           NEW u \in Tracker, u.direction = Opposite(d), Extreme(u) = Level(c, n + 1),
           Bounded(c, n, k, t), Attained(c, n, k, t),
           Turn(Opposite(d), Extreme(t), Level(c, n + 1))
    PROVE  Bounded(c, n + 1, k + 1, u) /\ Attained(c, n + 1, k + 1, u)
<1> DEFINE g == n + 1
           o == Opposite(d)
<1>1. /\ Frames \subseteq Nat /\ Len(recording.times) \in Nat
      /\ Frames = 1..Len(recording.times)
      /\ \A h \in 1..n : h \in Frames /\ h < g /\ h \in 1..g
      /\ g \in 1..g /\ g \in Frames /\ g \in Nat
      /\ \A h \in Frames : Level(c, h) \in Nat
  BY LevelFacts
<1>2. o \in Directions /\ o # d /\ Opposite(o) = d /\ u.direction = o
  BY OppositeFacts
<1>3. AsFar(o, Level(c, g), Level(c, g))
  BY <1>1 DEF AsFar
<1>4. ASSUME NEW T \in SUBSET (1..g), Chain(c, g, T), NEW y \in T, IsLast(T, y)
      PROVE  /\ Cardinality(T) <= (k + 1) + 1
             /\ Cardinality(T) = (k + 1) + 1 => EndsIn(c, T, o, y)
             /\ Cardinality(T) >= k + 1 /\ (Cardinality(T) = 1 \/ EndsIn(c, T, o, y))
                => AsFar(o, Extreme(u), Level(c, y))
  <2>1. CASE Chain(c, n, T)
    <3>1. T \in SUBSET (1..n) /\ T \in SUBSET Frames /\ Cardinality(T) \in Nat
      <4>1. T \in SUBSET (1..n)
        BY <2>1 DEF Chain
      <4>2. IsFiniteSet(T)
        BY <4>1, IndicesFacts
      <4> QED
        BY <1>1, <4>1, <4>2, FS_CardinalityType
    <3>2. Cardinality(T) <= k + 1 /\ (Cardinality(T) = k + 1 => EndsIn(c, T, d, y))
      BY <1>4, <2>1, <3>1 DEF Bounded
    <3>3. ASSUME Cardinality(T) >= k + 1, Cardinality(T) = 1 \/ EndsIn(c, T, o, y) PROVE FALSE
      <4>1. Cardinality(T) = k + 1 /\ Cardinality(T) # 1
        BY <3>1, <3>2, <3>3
      <4>2. EndsIn(c, T, d, y) /\ EndsIn(c, T, o, y)
        BY <3>2, <3>3, <4>1
      <4> HIDE DEF o
      <4> QED
        BY <1>2, <3>1, <4>2, OneDirection
    <3> QED
      BY <3>1, <3>2, <3>3
  <2>2. CASE T = {g}
    <3>1. Cardinality(T) = 1 /\ y = g
      BY <2>2, OneFrame
    <3> QED
      BY <1>3, <3>1
  <2>3. ASSUME NEW S \in SUBSET (1..n), NEW z \in S,
               Chain(c, n, S), IsLast(S, z), T = S \cup {g}
        PROVE  /\ Cardinality(T) <= (k + 1) + 1
               /\ Cardinality(T) = (k + 1) + 1 => EndsIn(c, T, o, y)
               /\ Cardinality(T) >= k + 1 /\ (Cardinality(T) = 1 \/ EndsIn(c, T, o, y))
                  => AsFar(o, Extreme(u), Level(c, y))
    <3>1. /\ S \in SUBSET Frames /\ z \in Frames /\ \A h \in S : h < g
          /\ y = g /\ Cardinality(S) \in Nat \ {0} /\ Cardinality(T) = Cardinality(S) + 1
      BY <1>4, <2>3, LongerChain
    <3>2. Cardinality(S) <= k + 1 /\ (Cardinality(S) = k + 1 => EndsIn(c, S, d, z))
      BY <2>3 DEF Bounded
    <3>3. Swings(c, T)
      BY <1>4 DEF Chain
    <3>4. EndsIn(c, S, d, z) => EndsIn(c, T, o, g)
      <4> HIDE DEF g
      <4> QED
        BY <1>1, <2>3, <3>1, <3>3, Extension
    <3> QED
      BY <1>3, <3>1, <3>2, <3>4
  <2> QED
    BY <1>1, <1>4, <2>1, <2>2, <2>3, NewChains
<1>5. Bounded(c, g, k + 1, u)
  <2>1. ASSUME NEW T \in SUBSET (1..g), Chain(c, g, T) PROVE \E y \in T : IsLast(T, y)
    <3>1. T # {}
      BY <2>1 DEF Chain
    <3> HIDE DEF g
    <3> QED
      BY <1>1, <3>1, LastExists
  <2> HIDE DEF g, o
  <2> QED
    BY <1>2, <1>4, <2>1 DEF Bounded
<1>6. Attained(c, g, k + 1, u)
  <2>1. PICK S \in SUBSET (1..n), f \in 1..n :
           /\ Cardinality(S) = k /\ \A h \in S : h < f
           /\ Swings(c, S \cup {f}) /\ EndsIn(c, S \cup {f}, d, f)
           /\ Level(c, f) = Extreme(t)
    BY DEF Attained
  <2> DEFINE R == S \cup {f}
  <2>2. R \in SUBSET Frames /\ R \in SUBSET (1..g) /\ f \in R /\ \A h \in R : h < g
    BY <1>1, <2>1
  <2>3. Cardinality(R) = k + 1
    <3>1. IsFiniteSet(S)
      BY IndicesFacts
    <3>2. f \notin S
      BY <2>1
    <3> QED
      BY <2>1, <3>1, <3>2, FS_AddElement
  <2>4. IsLast(R, f) /\ Swings(c, R) /\ EndsIn(c, R, d, f)
    BY <2>1 DEF EndsIn
  <2> HIDE DEF R, g, o
  <2>5. Turn(Opposite(d), Level(c, f), Level(c, g))
    BY <2>1 DEF g
  <2>6. EndsIn(c, R \cup {g}, o, g) /\ Swings(c, R \cup {g})
    BY <1>1, <2>2, <2>4, <2>5, Extension DEF o
  <2>7. Level(c, g) = Extreme(u)
    BY DEF g
  <2> QED
    BY <1>1, <1>2, <2>2, <2>3, <2>6, <2>7 DEF Attained
<1> QED
  BY <1>5, <1>6

LEMMA FollowedIsLongest ==
    ASSUME IsRecording(recording), NEW c \in Cells, NEW n \in Nat \ {0}, n + 1 \in Frames,
           NEW k \in Nat \ {0}, NEW t \in Tracker, NEW d \in Directions, t.direction = d,
           NEW u \in Tracker, u.direction = d,
           Bounded(c, n, k, t), Attained(c, n, k, t),
           ~Turn(Opposite(d), Extreme(t), Level(c, n + 1)),
           \/ Extreme(u) = Extreme(t) /\ AsFar(d, Extreme(t), Level(c, n + 1))
           \/ Extreme(u) = Level(c, n + 1) /\ AsFar(d, Level(c, n + 1), Extreme(t))
    PROVE  Bounded(c, n + 1, k, u) /\ Attained(c, n + 1, k, u)
<1> DEFINE g == n + 1
           o == Opposite(d)
<1>1. /\ Frames \subseteq Nat /\ Len(recording.times) \in Nat
      /\ Frames = 1..Len(recording.times)
      /\ \A h \in 1..n : h \in Frames /\ h < g /\ h \in 1..g
      /\ g \in 1..g /\ g \in Frames /\ g \in Nat
      /\ \A h \in Frames : Level(c, h) \in Nat
  BY LevelFacts
<1>2. o \in Directions /\ o # d /\ Opposite(o) = d /\ \A e \in Directions : e = d \/ e = o
  BY OppositeFacts DEF Directions
<1>3. Extreme(t) \in Nat /\ Extreme(u) \in Nat
  BY DEF Extreme, Tracker
<1>4. AsFar(d, Extreme(u), Extreme(t)) /\ AsFar(d, Extreme(u), Level(c, g))
  BY <1>1, <1>3 DEF AsFar
<1>5. ASSUME NEW x \in Nat, AsFar(d, Extreme(t), x)
      PROVE  AsFar(d, Extreme(u), x) /\ ~Turn(o, x, Level(c, g))
  <2>1. AsFar(d, Extreme(u), x)
    BY <1>3, <1>4, <1>5 DEF AsFar
  <2>2. Level(c, g) \in Nat
    BY <1>1
  <2> HIDE DEF g
  <2>3. Turn(Opposite(d), x, Level(c, g)) => Turn(Opposite(d), Extreme(t), Level(c, g))
    BY <1>3, <1>5, <2>2, FartherTurns
  <2> QED
    BY <2>1, <2>3 DEF g
<1>6. ASSUME NEW T \in SUBSET (1..g), Chain(c, g, T), NEW y \in T, IsLast(T, y)
      PROVE  /\ Cardinality(T) <= k + 1
             /\ Cardinality(T) = k + 1 => EndsIn(c, T, d, y)
             /\ Cardinality(T) >= k /\ (Cardinality(T) = 1 \/ EndsIn(c, T, d, y))
                => AsFar(d, Extreme(u), Level(c, y))
  <2>1. CASE Chain(c, n, T)
    <3>1. T \in SUBSET (1..n) /\ Level(c, y) \in Nat
      <4>1. T \in SUBSET (1..n)
        BY <2>1 DEF Chain
      <4> QED
        BY <1>1, <4>1
    <3>2. /\ Cardinality(T) <= k + 1 /\ (Cardinality(T) = k + 1 => EndsIn(c, T, d, y))
          /\ Cardinality(T) >= k /\ (Cardinality(T) = 1 \/ EndsIn(c, T, d, y))
                => AsFar(d, Extreme(t), Level(c, y))
      BY <1>6, <2>1, <3>1 DEF Bounded
    <3> QED
      BY <1>5, <3>1, <3>2
  <2>2. CASE T = {g}
    <3>1. Cardinality(T) = 1 /\ y = g
      BY <2>2, OneFrame
    <3> QED
      BY <1>4, <3>1
  <2>3. ASSUME NEW S \in SUBSET (1..n), NEW z \in S,
               Chain(c, n, S), IsLast(S, z), T = S \cup {g}
        PROVE  /\ Cardinality(T) <= k + 1
               /\ Cardinality(T) = k + 1 => EndsIn(c, T, d, y)
               /\ Cardinality(T) >= k /\ (Cardinality(T) = 1 \/ EndsIn(c, T, d, y))
                  => AsFar(d, Extreme(u), Level(c, y))
    <3>1. /\ S \in SUBSET Frames /\ z \in Frames /\ \A h \in S : h < g
          /\ y = g /\ Cardinality(S) \in Nat \ {0} /\ Cardinality(T) = Cardinality(S) + 1
          /\ Cardinality(S) # 1 => \E e \in Directions : EndsIn(c, S, e, z)
      BY <1>6, <2>3, LongerChain
    <3>2. /\ Cardinality(S) <= k + 1 /\ (Cardinality(S) = k + 1 => EndsIn(c, S, d, z))
          /\ Cardinality(S) >= k /\ (Cardinality(S) = 1 \/ EndsIn(c, S, d, z))
                => AsFar(d, Extreme(t), Level(c, z))
      BY <2>3 DEF Bounded
    <3>3. Swings(c, T)
      BY <1>6 DEF Chain
    <3>4. /\ \E e \in Directions : Turn(e, Level(c, z), Level(c, g)) /\ EndsIn(c, T, e, g)
          /\ \A e \in Directions : EndsIn(c, S, e, z) =>
                Turn(Opposite(e), Level(c, z), Level(c, g)) /\ EndsIn(c, T, Opposite(e), g)
      <4> HIDE DEF g
      <4> QED
        BY <1>1, <2>3, <3>1, <3>3, Extension
    <3>5. Level(c, z) \in Nat
      BY <1>1, <3>1
    <3>6. Cardinality(S) # k + 1
      BY <1>5, <3>2, <3>4, <3>5
    <3>7. ASSUME Cardinality(S) = k PROVE EndsIn(c, T, d, g)
      <4>1. PICK e \in Directions : Turn(e, Level(c, z), Level(c, g)) /\ EndsIn(c, T, e, g)
        BY <3>4
      <4>2. ASSUME e = o PROVE FALSE
        <5>1. Cardinality(S) = 1 \/ EndsIn(c, S, d, z)
          <6>1. SUFFICES ASSUME Cardinality(S) # 1 PROVE EndsIn(c, S, d, z)
            OBVIOUS
          <6>2. PICK b \in Directions : EndsIn(c, S, b, z)
            BY <3>1, <6>1
          <6>3. EndsIn(c, T, Opposite(b), g) /\ Opposite(b) \in Directions
            BY <3>4, <6>2, OppositeFacts
          <6>4. T \in SUBSET Frames
            BY <1>1, <2>3, <3>1
          <6> HIDE DEF g, o
          <6>5. Opposite(b) = o
            BY <4>1, <4>2, <6>3, <6>4, OneDirection
          <6> QED
            BY <1>2, <6>2, <6>5, OppositeFacts
        <5>2. AsFar(d, Extreme(t), Level(c, z))
          BY <3>2, <3>7, <5>1
        <5> QED
          BY <1>5, <3>5, <4>1, <4>2, <5>2
      <4> QED
        BY <1>2, <4>1, <4>2
    <3> QED
      BY <1>4, <3>1, <3>2, <3>6, <3>7
  <2> QED
    BY <1>1, <1>6, <2>1, <2>2, <2>3, NewChains
<1>7. Bounded(c, g, k, u)
  <2>1. ASSUME NEW T \in SUBSET (1..g), Chain(c, g, T) PROVE \E y \in T : IsLast(T, y)
    <3>1. T # {}
      BY <2>1 DEF Chain
    <3> HIDE DEF g
    <3> QED
      BY <1>1, <3>1, LastExists
  <2> HIDE DEF g, o
  <2> QED
    BY <1>6, <2>1 DEF Bounded
<1>8. Attained(c, g, k, u)
  <2>1. PICK S \in SUBSET (1..n), f \in 1..n :
           /\ Cardinality(S) = k /\ \A h \in S : h < f
           /\ Swings(c, S \cup {f}) /\ EndsIn(c, S \cup {f}, d, f)
           /\ Level(c, f) = Extreme(t)
    BY DEF Attained
  <2>2. S \in SUBSET (1..g) /\ f \in 1..g /\ S \in SUBSET Frames /\ f \in Frames /\ f < g
    BY <1>1
  <2>3. CASE Extreme(u) = Extreme(t)
    <3> HIDE DEF g
    <3> QED
      BY <2>1, <2>2, <2>3 DEF Attained
  <2>4. CASE Extreme(u) = Level(c, g) /\ AsFar(d, Level(c, g), Extreme(t))
    <3> HIDE DEF g
    <3>1. AsFar(d, Level(c, g), Level(c, f))
      BY <2>1, <2>4
    <3>2. Swings(c, S \cup {g}) /\ EndsIn(c, S \cup {g}, d, g) /\ \A h \in S : h < g
      BY <1>1, <2>1, <2>2, <3>1, Replacement
    <3> QED
      BY <1>1, <2>1, <2>2, <2>4, <3>2 DEF Attained
  <2> QED
    BY <2>3, <2>4
<1> QED
  BY <1>7, <1>8

\* While no change is found there is none.
LEMMA NoChange ==
    ASSUME IsRecording(recording), NEW c \in Cells, NEW n \in Nat \ {0}, n \in Frames,
           NEW t \in Tracker, Undecided(c, n, t), NEW S, Chain(c, n, S)
    PROVE  \E z \in 1..n : S = {z}
<1>1. /\ Frames \subseteq Nat /\ Len(recording.times) \in Nat
      /\ Frames = 1..Len(recording.times)
      /\ \A h \in 1..n : h \in Frames /\ Level(c, h) \in Nat
  BY LevelFacts
<1>2. S \in SUBSET (1..n) /\ S # {} /\ Swings(c, S) /\ S \in SUBSET Frames
  BY <1>1 DEF Chain
<1>3. PICK z \in S : IsLast(S, z)
  BY <1>2, LastExists
<1>4. ASSUME S # {z} PROVE FALSE
  <2>1. PICK d \in Directions : EndsIn(c, S, d, z)
    BY <1>2, <1>3, <1>4, Ends
  <2>2. PICK y \in S : Turn(d, Level(c, y), Level(c, z))
    BY <2>1 DEF EndsIn
  <2>3. /\ Level(c, y) \in Nat /\ t.lo <= Level(c, y) /\ Level(c, y) <= t.hi
        /\ Level(c, z) \in Nat /\ t.lo <= Level(c, z) /\ Level(c, z) <= t.hi
    BY <1>1, <1>2 DEF Undecided
  <2>4. /\ t.lo \in Nat /\ t.hi \in Nat /\ MinDelta \in Nat /\ DarkerBelow \in Nat
        /\ ~(t.hi - t.lo >= MinDelta /\ t.lo < DarkerBelow)
    BY FlashAssumption DEF Undecided, Tracker
  <2> QED
    BY <2>2, <2>3, <2>4 DEF Turn, Rises, Falls
<1> QED
  BY <1>2, <1>4

\* The first one.
LEMMA FirstChange ==
    ASSUME IsRecording(recording), NEW c \in Cells, NEW n \in Nat \ {0}, n + 1 \in Frames,
           NEW t \in Tracker, Undecided(c, n, t), NEW d \in Directions,
           NEW u \in Tracker, u.direction = d, Extreme(u) = Level(c, n + 1),
           Turn(d, IF d = 1 THEN t.lo ELSE t.hi, Level(c, n + 1))
    PROVE  Bounded(c, n + 1, 1, u) /\ Attained(c, n + 1, 1, u)
<1> DEFINE g == n + 1
           o == Opposite(d)
<1>1. /\ Frames \subseteq Nat /\ Len(recording.times) \in Nat
      /\ Frames = 1..Len(recording.times)
      /\ \A h \in 1..n : h \in Frames /\ h < g /\ h \in 1..g
      /\ g \in 1..g /\ g \in Frames /\ g \in Nat /\ n \in Frames
      /\ \A h \in Frames : Level(c, h) \in Nat
  BY LevelFacts
<1>2. o \in Directions /\ o # d /\ Opposite(o) = d /\ \A e \in Directions : e = d \/ e = o
  BY OppositeFacts DEF Directions
<1>3. PICK f \in 1..n : Level(c, f) = IF d = 1 THEN t.lo ELSE t.hi
  BY DEF Undecided
<1>4. ASSUME NEW h \in 1..n
      PROVE  AsFar(d, Level(c, g), Level(c, h)) /\ ~Turn(o, Level(c, h), Level(c, g))
  <2>1. Level(c, h) \in Nat /\ Level(c, g) \in Nat
    BY <1>1
  <2>2. /\ t.lo \in Nat /\ t.hi \in Nat /\ MinDelta \in Nat \ {0} /\ DarkerBelow \in Nat
        /\ t.lo <= Level(c, h) /\ Level(c, h) <= t.hi
        /\ ~(t.hi - t.lo >= MinDelta /\ t.lo < DarkerBelow)
    BY FlashAssumption DEF Undecided, Tracker
  <2>3. CASE d = 1
    <3>1. o = -1 /\ o # 1 /\ Rises(t.lo, Level(c, g))
      BY <2>3, OppositeFacts DEF Turn
    <3> HIDE DEF g, o
    <3> QED
      BY <2>1, <2>2, <2>3, <3>1 DEF AsFar, Turn, Rises, Falls
  <2>4. CASE d = -1
    <3>1. o = 1 /\ d # 1 /\ Falls(t.hi, Level(c, g))
      BY <2>4, OppositeFacts DEF Turn
    <3> HIDE DEF g, o
    <3> QED
      BY <2>1, <2>2, <2>4, <3>1 DEF AsFar, Turn, Rises, Falls
  <2> QED
    BY <2>3, <2>4, OppositeFacts
<1>5. AsFar(d, Level(c, g), Level(c, g))
  BY <1>1 DEF AsFar
<1>6. ASSUME NEW T \in SUBSET (1..g), Chain(c, g, T), NEW y \in T, IsLast(T, y)
      PROVE  /\ Cardinality(T) <= 1 + 1
             /\ Cardinality(T) = 1 + 1 => EndsIn(c, T, d, y)
             /\ AsFar(d, Extreme(u), Level(c, y))
  <2>1. CASE Chain(c, n, T)
    <3>1. PICK z \in 1..n : T = {z}
      BY <1>1, <2>1, NoChange
    <3>2. y = z /\ Cardinality(T) = 1
      BY <3>1, OneFrame
    <3> QED
      BY <1>4, <3>2
  <2>2. CASE T = {g}
    <3>1. Cardinality(T) = 1 /\ y = g
      BY <2>2, OneFrame
    <3> QED
      BY <1>5, <3>1
  <2>3. ASSUME NEW S \in SUBSET (1..n), NEW z \in S,
               Chain(c, n, S), IsLast(S, z), T = S \cup {g}
        PROVE  /\ Cardinality(T) <= 1 + 1
               /\ Cardinality(T) = 1 + 1 => EndsIn(c, T, d, y)
               /\ AsFar(d, Extreme(u), Level(c, y))
    <3>1. /\ S \in SUBSET Frames /\ z \in Frames /\ z \in 1..n /\ \A h \in S : h < g
          /\ y = g /\ Cardinality(S) \in Nat \ {0} /\ Cardinality(T) = Cardinality(S) + 1
      BY <1>6, <2>3, LongerChain
    <3>2. Cardinality(S) = 1
      <4>1. \E w \in 1..n : S = {w}
        BY <1>1, <2>3, NoChange
      <4> QED
        BY <4>1, OneFrame
    <3>3. Swings(c, T)
      BY <1>6 DEF Chain
    <3>4. \E e \in Directions : Turn(e, Level(c, z), Level(c, g)) /\ EndsIn(c, T, e, g)
      <4> HIDE DEF g
      <4> QED
        BY <1>1, <2>3, <3>1, <3>3, Extension
    <3>5. EndsIn(c, T, d, g)
      BY <1>2, <1>4, <3>1, <3>4
    <3> QED
      BY <1>5, <3>1, <3>2, <3>5
  <2> QED
    BY <1>1, <1>6, <2>1, <2>2, <2>3, NewChains
<1>7. Bounded(c, g, 1, u)
  <2>1. ASSUME NEW T \in SUBSET (1..g), Chain(c, g, T) PROVE \E y \in T : IsLast(T, y)
    <3>1. T # {}
      BY <2>1 DEF Chain
    <3> HIDE DEF g
    <3> QED
      BY <1>1, <3>1, LastExists
  <2> HIDE DEF g, o
  <2> QED
    BY <1>6, <2>1 DEF Bounded
<1>8. Attained(c, g, 1, u)
  <2> HIDE DEF g
  <2>1. /\ {f} \in SUBSET Frames /\ f \in {f} /\ IsLast({f}, f) /\ \A h \in {f} : h < g
        /\ {f} \in SUBSET (1..g) /\ Cardinality({f}) = 1
    <3>1. f \in Frames /\ f \in Nat /\ f < g /\ f \in 1..g
      BY <1>1
    <3>2. Cardinality({f}) = 1
      BY OneFrame
    <3> QED
      BY <3>1, <3>2 DEF IsLast
  <2>2. Turn(Opposite(o), Level(c, f), Level(c, g))
    BY <1>2, <1>3 DEF g
  <2>3. Swings(c, {f})
    BY <2>1, <1>1 DEF Swings
  <2> HIDE DEF o
  <2>4. Swings(c, {f} \cup {g}) /\ EndsIn(c, {f} \cup {g}, d, g)
    BY <1>1, <1>2, <2>1, <2>2, <2>3, Extension
  <2>5. Level(c, g) = Extreme(u)
    BY DEF g
  <2> QED
    BY <1>1, <2>1, <2>4, <2>5 DEF Attained
<1> QED
  BY <1>7, <1>8

\* Or none still.
LEMMA StillUndecided ==
    ASSUME IsRecording(recording), NEW c \in Cells, NEW n \in Nat \ {0}, n + 1 \in Frames,
           NEW t \in Tracker, Undecided(c, n, t), NEW u \in Tracker,
           ~Rises(t.lo, Level(c, n + 1)), ~Falls(t.hi, Level(c, n + 1)),
           u.lo = IF Level(c, n + 1) < t.lo THEN Level(c, n + 1) ELSE t.lo,
           u.hi = IF Level(c, n + 1) > t.hi THEN Level(c, n + 1) ELSE t.hi
    PROVE  Undecided(c, n + 1, u)
<1> DEFINE g == n + 1
           l == Level(c, g)
<1>1. /\ \A h \in 1..n : h \in 1..g /\ Level(c, h) \in Nat
      /\ \A h \in 1..g : h \in 1..n \/ h = g
      /\ g \in 1..g /\ l \in Nat /\ 1 \in 1..n
  BY LevelFacts
<1>2. /\ t.lo \in Nat /\ t.hi \in Nat /\ MinDelta \in Nat /\ DarkerBelow \in Nat
      /\ ~(t.hi - t.lo >= MinDelta /\ t.lo < DarkerBelow)
      /\ \A f \in 1..n : t.lo <= Level(c, f) /\ Level(c, f) <= t.hi
  BY FlashAssumption DEF Undecided, Tracker
<1>3. t.lo <= t.hi
  BY <1>1, <1>2
<1>4. u.lo = (IF l < t.lo THEN l ELSE t.lo) /\ u.hi = (IF l > t.hi THEN l ELSE t.hi)
  OBVIOUS
<1>5. ~Rises(t.lo, l) /\ ~Falls(t.hi, l)
  OBVIOUS
<1>6. Level(c, g) = l
  OBVIOUS
<1> HIDE DEF g, l
<1>7. ~(u.hi - u.lo >= MinDelta /\ u.lo < DarkerBelow)
  BY <1>1, <1>2, <1>3, <1>4, <1>5 DEF Rises, Falls
<1>8. \A f \in 1..g : u.lo <= Level(c, f) /\ Level(c, f) <= u.hi
  <2>1. ASSUME NEW f \in 1..n PROVE u.lo <= Level(c, f) /\ Level(c, f) <= u.hi
    BY <1>1, <1>2, <1>4
  <2>2. u.lo <= l /\ l <= u.hi
    BY <1>1, <1>2, <1>4
  <2> QED
    BY <1>1, <1>6, <2>1, <2>2
<1>9. \E f \in 1..g : Level(c, f) = u.lo
  BY <1>1, <1>4, <1>6 DEF Undecided
<1>10. \E f \in 1..g : Level(c, f) = u.hi
  BY <1>1, <1>4, <1>6 DEF Undecided
<1>11. Undecided(c, g, u)
  BY <1>7, <1>8, <1>9, <1>10 DEF Undecided
<1> QED
  BY <1>11 DEF g

\* So one frame more keeps the chain a longest one.
LEMMA OneStep ==
    ASSUME IsRecording(recording), NEW c \in Cells, NEW n \in Nat \ {0}, n + 1 \in Frames,
           NEW k \in Nat, NEW t \in Tracker, Longest(c, n, k, t)
    PROVE  LET u == Tracked(t, Level(c, n + 1))
           IN  Longest(c, n + 1, IF u.direction # t.direction THEN k + 1 ELSE k, u)
<1> DEFINE l == Level(c, n + 1)
           u == Tracked(t, l)
<1>1. l \in Nat
  BY LevelFacts
<1>2. u \in Tracker /\ t.direction \in {-1, 0, 1} /\ 0 # 1 /\ 0 # -1
  <2> HIDE DEF l
  <2>1. u \in Tracker
    BY <1>1, TrackedType
  <2> QED
    BY <2>1 DEF Tracker
<1>3. CASE t.direction = 0
  <2>1. k = 0 /\ Undecided(c, n, t)
    BY <1>3 DEF Longest
  <2>2. /\ Rises(t.lo, l) => u.direction = 1 /\ u.hi = l
        /\ ~Rises(t.lo, l) /\ Falls(t.hi, l) => u.direction = -1 /\ u.lo = l
        /\ ~Rises(t.lo, l) /\ ~Falls(t.hi, l) =>
             /\ u.direction = 0
             /\ u.lo = IF l < t.lo THEN l ELSE t.lo
             /\ u.hi = IF l > t.hi THEN l ELSE t.hi
    <3> HIDE DEF l
    <3> QED
      BY <1>1, <1>3, TrackedStarts
  <2>3. CASE Rises(t.lo, l)
    <3>1. u.direction = 1 /\ Extreme(u) = l
      BY <2>2, <2>3 DEF Extreme
    <3>2. Turn(1, t.lo, l)
      BY <2>3 DEF Turn
    <3> HIDE DEF u
    <3>3. Bounded(c, n + 1, 1, u) /\ Attained(c, n + 1, 1, u)
      BY <1>2, <2>1, <3>1, <3>2, FirstChange, OppositeFacts
    <3> QED
      BY <1>2, <1>3, <2>1, <3>1, <3>3 DEF Longest, u
  <2>4. CASE ~Rises(t.lo, l) /\ Falls(t.hi, l)
    <3>1. u.direction = -1 /\ Extreme(u) = l /\ 1 # -1
      BY <2>2, <2>4 DEF Extreme
    <3>2. Turn(-1, t.hi, l)
      BY <2>4 DEF Turn
    <3> HIDE DEF u
    <3>3. Turn(-1, IF -1 = 1 THEN t.lo ELSE t.hi, l)
      BY <3>1, <3>2
    <3>4. Bounded(c, n + 1, 1, u) /\ Attained(c, n + 1, 1, u)
      BY <1>2, <2>1, <3>1, <3>3, FirstChange, OppositeFacts
    <3> QED
      BY <1>2, <1>3, <2>1, <3>1, <3>4 DEF Longest, u
  <2>5. CASE ~Rises(t.lo, l) /\ ~Falls(t.hi, l)
    <3>1. /\ u.direction = 0
          /\ u.lo = IF l < t.lo THEN l ELSE t.lo
          /\ u.hi = IF l > t.hi THEN l ELSE t.hi
      BY <2>2, <2>5
    <3> HIDE DEF u
    <3>2. Undecided(c, n + 1, u)
      BY <1>2, <2>1, <2>5, <3>1, StillUndecided
    <3> QED
      BY <1>3, <2>1, <3>1, <3>2 DEF Longest, u
  <2> QED
    BY <2>3, <2>4, <2>5
<1>4. CASE t.direction # 0
  <2>1. PICK d \in Directions : t.direction = d
    BY <1>2, <1>4 DEF Directions
  <2>2. /\ k \in Nat \ {0} /\ Bounded(c, n, k, t) /\ Attained(c, n, k, t)
    BY <1>4 DEF Longest
  <2>3. /\ Turn(Opposite(d), Extreme(t), l) =>
             u.direction = Opposite(d) /\ Extreme(u) = l
        /\ ~Turn(Opposite(d), Extreme(t), l) =>
             /\ u.direction = d
             /\ \/ Extreme(u) = Extreme(t) /\ AsFar(d, Extreme(t), l)
                \/ Extreme(u) = l /\ AsFar(d, l, Extreme(t))
    <3> HIDE DEF l
    <3> QED
      BY <1>1, <2>1, TrackedTurns
  <2>4. d # 0 /\ Opposite(d) # 0 /\ Opposite(d) # d
    BY <1>2, OppositeFacts
  <2> HIDE DEF u
  <2>5. CASE Turn(Opposite(d), Extreme(t), l)
    <3>1. Bounded(c, n + 1, k + 1, u) /\ Attained(c, n + 1, k + 1, u)
      BY <1>2, <2>1, <2>2, <2>3, <2>5, TurnedIsLongest
    <3>2. u.direction # t.direction /\ u.direction # 0
      BY <2>1, <2>3, <2>4, <2>5
    <3> QED
      BY <2>2, <3>1, <3>2 DEF Longest, u
  <2>6. CASE ~Turn(Opposite(d), Extreme(t), l)
    <3>1. Bounded(c, n + 1, k, u) /\ Attained(c, n + 1, k, u)
      BY <1>2, <2>1, <2>2, <2>3, <2>6, FollowedIsLongest
    <3>2. u.direction = t.direction /\ u.direction # 0
      BY <2>1, <2>3, <2>4, <2>6
    <3> QED
      BY <2>2, <3>1, <3>2 DEF Longest, u
  <2> QED
    BY <2>5, <2>6
<1> QED
  BY <1>3, <1>4

\* And a longest chain is what the definition of a change asks for.
LEMMA LongestIsMost ==
    ASSUME IsRecording(recording), NEW c \in Cells, NEW n \in Nat \ {0}, n \in Frames,
           NEW k \in Nat, NEW t \in Tracker, Longest(c, n, k, t)
    PROVE  LET chains == {S \in SUBSET (1..n) : S # {} /\ Swings(c, S)}
           IN  k = Max({Cardinality(S) - 1 : S \in chains})
<1> DEFINE chains == {S \in SUBSET (1..n) : S # {} /\ Swings(c, S)}
           sizes == {Cardinality(S) - 1 : S \in chains}
<1>1. /\ Frames \subseteq Nat /\ Len(recording.times) \in Nat
      /\ Frames = 1..Len(recording.times)
      /\ \A h \in 1..n : h \in Frames /\ 1 \in 1..n
  BY LevelFacts
<1>2. \A S \in chains : /\ Chain(c, n, S) /\ S \in SUBSET (1..n)
                        /\ Cardinality(S) \in Nat \ {0}
  <2>1. SUFFICES ASSUME NEW S \in chains
                 PROVE  Cardinality(S) \in Nat \ {0}
    BY DEF Chain
  <2>2. IsFiniteSet(S) /\ S # {}
    BY IndicesFacts
  <2> QED
    BY <2>2, FS_CardinalityType, FS_EmptySet
<1>3. k \in sizes /\ \A S \in chains : Cardinality(S) <= k + 1
  <2>1. CASE t.direction = 0
    <3>1. k = 0 /\ Undecided(c, n, t)
      BY <2>1 DEF Longest
    <3>2. \A S \in chains : Cardinality(S) = 1
      <4>1. SUFFICES ASSUME NEW S \in chains PROVE Cardinality(S) = 1
        OBVIOUS
      <4>2. Chain(c, n, S)
        BY <1>2
      <4>3. \E z \in 1..n : S = {z}
        BY <3>1, <4>2, NoChange
      <4> QED
        BY <4>3, OneFrame
    <3>3. {1} \in chains
      <4>1. Swings(c, {1})
        BY DEF Swings
      <4> QED
        BY <1>1, <4>1
    <3>4. Cardinality({1}) - 1 = 0
      BY OneFrame
    <3> QED
      BY <3>1, <3>2, <3>3, <3>4
  <2>2. CASE t.direction # 0
    <3>1. Bounded(c, n, k, t) /\ Attained(c, n, k, t)
      BY <2>2 DEF Longest
    <3>2. PICK S \in SUBSET (1..n), f \in 1..n :
             /\ Cardinality(S) = k /\ \A h \in S : h < f
             /\ Swings(c, S \cup {f})
      BY <3>1 DEF Attained
    <3>3. Cardinality(S \cup {f}) = k + 1
      <4>1. IsFiniteSet(S)
        BY IndicesFacts
      <4>2. f \notin S
        BY <3>2
      <4> QED
        BY <3>2, <4>1, <4>2, FS_AddElement
    <3>4. S \cup {f} \in chains /\ Cardinality(S \cup {f}) - 1 = k
      BY <3>2, <3>3
    <3>5. \A R \in chains : Cardinality(R) <= k + 1
      BY <1>2, <3>1 DEF Bounded
    <3> QED
      BY <3>4, <3>5
  <2> QED
    BY <2>1, <2>2
<1>4. \A x \in sizes : x \in Nat /\ x <= k
  BY <1>2, <1>3
<1> HIDE DEF sizes
<1>5. k = Max(sizes)
  <2>1. \A y \in sizes : k >= y
    BY <1>4
  <2>2. Max(sizes) \in sizes /\ Max(sizes) >= k
    BY <1>3, <2>1, Zenon DEF Max
  <2> QED
    BY <1>4, <2>2
<1> QED
  BY <1>5 DEF sizes

----------------------------------------------------------------------------
(* The invariant.                                                          *)

\* It reads the recording, which never changes.
LEMMA SameLongest ==
    ASSUME recording' = recording, NEW c, NEW n, NEW k, NEW t, Longest(c, n, k, t)
    PROVE  Longest(c, n, k, t)'
<1>1. \A S, z, d : /\ Swings(c, S)' <=> Swings(c, S)
                   /\ EndsIn(c, S, d, z)' <=> EndsIn(c, S, d, z)
  BY DEF Swings, EndsIn, Level
<1>2. \A f : Level(c, f)' = Level(c, f)
  BY DEF Level
<1>3. Undecided(c, n, t) => Undecided(c, n, t)'
  BY <1>2 DEF Undecided
<1>4. Bounded(c, n, k, t) => Bounded(c, n, k, t)'
  BY <1>1, <1>2 DEF Bounded, Chain
<1>5. Attained(c, n, k, t) => Attained(c, n, k, t)'
  BY <1>1, <1>2 DEF Attained
<1> QED
  BY <1>3, <1>4, <1>5 DEF Longest

LEMMA InitTracked == FlashInit => TrackedSoFar
<1> SUFFICES ASSUME FlashInit PROVE TrackedSoFar
  OBVIOUS
<1>1. IsRecording(recording)
  BY FlashAssumption DEF FlashInit
<1>2. /\ frame = 2
      /\ tracker = [c \in Cells |-> [direction |-> 0, lo |-> recording.lum[1][c],
                                     hi |-> recording.lum[1][c]]]
      /\ changes = [c \in Cells |-> {}]
  BY DEF FlashInit, FlashStart
<1>3. Cells # {}
  BY FlashAssumption
<1>4. /\ Len(recording.times) \in Nat \ {0}
      /\ \A c \in Cells : Level(c, 1) \in Nat
  BY <1>1, <1>3, LevelFacts
<1>5. frame \in 2..Len(recording.times) + 1 /\ frame - 1 = 1
  BY <1>2, <1>4
<1>6. tracker \in [Cells -> [direction : {-1, 0, 1}, lo : Nat, hi : Nat]]
  BY <1>2, <1>4 DEF Level
<1>7. changes \in [Cells -> SUBSET (1..frame - 1)]
  BY <1>2
<1>8. ASSUME NEW c \in Cells
      PROVE  Longest(c, 1, Cardinality(changes[c]), tracker[c])
  <2>1. Cardinality(changes[c]) = 0
    BY <1>2, FS_EmptySet
  <2>2. /\ tracker[c].direction = 0 /\ tracker[c].lo = Level(c, 1)
        /\ tracker[c].hi = Level(c, 1) /\ Level(c, 1) \in Nat
    BY <1>2, <1>4 DEF Level
  <2>3. \A f \in 1..1 : f = 1
    OBVIOUS
  <2>4. MinDelta \in Nat \ {0}
    BY FlashAssumption
  <2>5. Undecided(c, 1, tracker[c])
    BY <2>2, <2>3, <2>4 DEF Undecided
  <2> QED
    BY <2>1, <2>2, <2>5 DEF Longest
<1> QED
  BY <1>1, <1>5, <1>6, <1>7, <1>8 DEF TrackedSoFar

LEMMA NextTracked == TrackedSoFar /\ [FlashNext]_flashVars => TrackedSoFar'
<1> SUFFICES ASSUME TrackedSoFar, [FlashNext]_flashVars PROVE TrackedSoFar'
  OBVIOUS
<1>1. CASE UNCHANGED <<recording, tracking>>
  <2>1. /\ recording' = recording /\ frame' = frame /\ tracker' = tracker
        /\ changes' = changes
    BY <1>1 DEF tracking
  <2>2. ASSUME NEW c \in Cells
        PROVE  Longest(c, frame - 1, Cardinality(changes[c]), tracker[c])'
    BY <2>1, SameLongest DEF TrackedSoFar
  <2> QED
    BY <2>1, <2>2 DEF TrackedSoFar
<1>2. CASE Track
  <2>1. /\ IsRecording(recording) /\ recording' = recording
        /\ frame \in 2..Len(recording.times) + 1 /\ frame \in Frames /\ frame' = frame + 1
        /\ tracker \in [Cells -> Tracker]
        /\ changes \in [Cells -> SUBSET (1..frame - 1)]
        /\ tracker' = [c \in Cells |-> Tracked(tracker[c], recording.lum[frame][c])]
        /\ changes' = [c \in Cells |-> IF tracker'[c].direction # tracker[c].direction
                                       THEN changes[c] \cup {frame} ELSE changes[c]]
        /\ \A c \in Cells : Longest(c, frame - 1, Cardinality(changes[c]), tracker[c])
    BY <1>2 DEF TrackedSoFar, Track, Tracker
  <2>2. Cells # {}
    BY FlashAssumption
  <2>3. /\ Len(recording.times) \in Nat /\ Frames = 1..Len(recording.times)
        /\ \A c \in Cells : recording.lum[frame][c] \in Nat
    BY <2>1, <2>2, LevelFacts DEF Level
  <2>4. /\ frame' \in 2..Len(recording.times) + 1 /\ frame \in Nat
        /\ frame - 1 \in Nat \ {0} /\ (frame - 1) + 1 = frame /\ frame' - 1 = frame
        /\ \A h \in 1..frame - 1 : h \in 1..frame /\ h # frame
        /\ frame \in 1..frame
    BY <2>1, <2>3
  <2>5. tracker' \in [Cells -> Tracker]
    BY <2>1, <2>3, TrackedType
  <2>6. changes' \in [Cells -> SUBSET (1..frame)]
    BY <2>1, <2>4
  <2>7. ASSUME NEW c \in Cells
        PROVE  Longest(c, frame, Cardinality(changes'[c]), tracker'[c])
    <3> DEFINE k == Cardinality(changes[c])
               u == tracker'[c]
    <3>1. changes[c] \in SUBSET (1..frame - 1) /\ frame \notin changes[c]
      BY <2>1, <2>4
    <3>2. IsFiniteSet(changes[c])
      BY <2>4, <3>1, IndicesFacts
    <3>3. k \in Nat /\ Cardinality(changes[c] \cup {frame}) = k + 1
      BY <3>1, <3>2, FS_AddElement, FS_CardinalityType
    <3>4. Cardinality(changes'[c]) =
             IF u.direction # tracker[c].direction THEN k + 1 ELSE k
      BY <2>1, <3>3
    <3>5. u = Tracked(tracker[c], Level(c, frame)) /\ tracker[c] \in Tracker
      BY <2>1 DEF Level
    <3>6. Longest(c, frame - 1, k, tracker[c])
      BY <2>1
    <3> HIDE DEF k, u
    <3>7. Longest(c, frame, IF u.direction # tracker[c].direction THEN k + 1 ELSE k, u)
      BY <2>1, <2>4, <3>3, <3>5, <3>6, OneStep
    <3> QED
      BY <3>4, <3>7 DEF u
  <2>8. \A c \in Cells : Longest(c, frame - 1, Cardinality(changes[c]), tracker[c])'
    <3>1. SUFFICES ASSUME NEW c \in Cells
                   PROVE  Longest(c, frame - 1, Cardinality(changes[c]), tracker[c])'
      OBVIOUS
    <3>2. Longest(c, frame, Cardinality(changes'[c]), tracker'[c])
      BY <2>7
    <3> QED
      BY <2>1, <2>4, <3>2, SameLongest
  <2> QED
    BY <2>1, <2>4, <2>5, <2>6, <2>8 DEF TrackedSoFar, Tracker
<1> QED
  BY <1>1, <1>2
  DEF FlashNext, CountSeconds, Enter, Leave, CountWindow, CountSliding, Judge,
      flashVars, tracking

\* However the luminance of a cell goes, the tracker never misses a change by
\* following the wrong extreme (temporal.py 92-98).
THEOREM NoChangeIsMissed == FlashSpec => []ChangesAreMost
<1>1. TrackedSoFar => ChangesAreMost
  <2> SUFFICES ASSUME TrackedSoFar, stage = "track", NEW c \in Cells
               PROVE  LET chains == {S \in SUBSET (1..frame - 1) : S # {} /\ Swings(c, S)}
                      IN  Cardinality(changes[c]) = Max({Cardinality(S) - 1 : S \in chains})
    BY DEF ChangesAreMost
  <2>1. /\ IsRecording(recording) /\ frame \in 2..Len(recording.times) + 1
        /\ tracker[c] \in Tracker /\ changes[c] \in SUBSET (1..frame - 1)
        /\ Longest(c, frame - 1, Cardinality(changes[c]), tracker[c])
    BY DEF TrackedSoFar, Tracker
  <2>2. frame - 1 \in Nat \ {0} /\ frame - 1 \in Frames
    BY <2>1, LevelFacts
  <2>3. Cardinality(changes[c]) \in Nat
    <3>1. IsFiniteSet(changes[c])
      BY <2>1, <2>2, IndicesFacts
    <3> QED
      BY <3>1, FS_CardinalityType
  <2> QED
    BY <2>1, <2>2, <2>3, LongestIsMost
<1> QED
  BY InitTracked, NextTracked, <1>1, PTL DEF FlashSpec


----------------------------------------------------------------------------
(***************************************************************************)
(* The counting.  The events are the changes in order, each once; the      *)
(* windows move on and never back; the histogram is that of the events     *)
(* between the two ends of a window, so that what was found in one is what *)
(* its changes ask for.                                                    *)
(***************************************************************************)
EventTime(k) == Time(events[k][1])

EventsSoFar ==
    IF stage = "track" THEN events = <<>>
    ELSE /\ events \in Seq(Event)
         /\ \A j, k \in 1..Len(events) : j <= k => EventTime(j) <= EventTime(k)
         /\ \A j, k \in 1..Len(events) : events[j] = events[k] => j = k
         /\ \A e \in Event :
               (\E k \in 1..Len(events) : events[k] = e) <=> e[1] \in changes[e[2]]

WindowsSoFar ==
    /\ Len(windows) \in Nat /\ DOMAIN windows = 1..Len(windows)
    /\ \A k \in 1..Len(windows) :
          windows[k].start \in Nat /\ windows[k].end = windows[k].start + Second
    /\ \A j, k \in 1..Len(windows) : j <= k => windows[j].start <= windows[k].start
    /\ stage = "track" => Len(windows) = 0
    /\ stage \in {"sliding", "done"} =>
          Len(windows) = Len(recording.times) /\ \A f \in Frames : windows[f].start = Time(f)

\* What the count in a window must be, from the changes themselves.
Reaching(n, from, to) == {c \in Cells : ChangesIn(c, from, to) >= n}
QualifiedIn(from, to) ==
    Max({0} \cup {n \in 1..Len(recording.times) :
                     Cardinality(Reaching(n, from, to)) >= Needed(recording)})

HistogramSoFar ==
    /\ entered \in Nat /\ gone \in Nat /\ gone <= entered /\ entered <= Len(events)
    /\ counts = [c \in Cells |-> Cardinality({k \in gone + 1..entered : events[k][2] = c})]
    /\ hist = [n \in 0..Len(recording.times) |-> Cardinality({c \in Cells : counts[c] = n})]

CountedSoFar ==
    /\ window \in 1..Len(windows) + 1
    /\ window <= Len(windows) =>
          /\ \A k \in 1..entered : EventTime(k) < windows[window].end
          /\ \A k \in 1..gone : EventTime(k) < windows[window].start
    /\ found \in Seq(Nat) /\ Len(found) = window - 1
    /\ \A w \in 1..window - 1 : found[w] = QualifiedIn(windows[w].start, windows[w].end)

JudgedSoFar ==
    /\ stage \in {"track", "seconds", "sliding", "done"}
    /\ perSecond \in Seq(Nat) /\ (stage = "track" => Len(perSecond) = 0)
    /\ \A k \in 1..Len(perSecond) : \E t \in Nat : perSecond[k] = QualifiedIn(t, t + Second)
    /\ stage # "done" => flashStatus = "none"
    /\ stage = "done" =>
          /\ window = Len(windows) + 1 /\ worst \in DOMAIN found
          /\ \A j \in DOMAIN found : found[j] <= found[worst]
          /\ flashStatus = IF found[worst] > 2 * recording.limit THEN "FAIL" ELSE "PASS"

CountingInv ==
    TrackedSoFar /\ EventsSoFar /\ WindowsSoFar /\ HistogramSoFar /\ CountedSoFar /\ JudgedSoFar

\* The sum of a histogram over some of its columns is how many were counted
\* there.
LEMMA CumulativeFacts ==
    ASSUME NEW n, IsFiniteSet({m \in DOMAIN hist : m >= n}),
           \A m \in DOMAIN hist : hist[m] = Cardinality({c \in Cells : counts[c] = m})
    PROVE  Cumulative(n)
             = Cardinality({c \in Cells : counts[c] \in {m \in DOMAIN hist : m >= n}})
<1> DEFINE S == {m \in DOMAIN hist : m >= n}
           In(s) == {c \in Cells : counts[c] \in s}
           Some(s) == CHOOSE x \in s : TRUE
           Rest(g, s) == IF s = {} THEN 0 ELSE hist[Some(s)] + g[s \ {Some(s)}]
           iter == CHOOSE g : g = [s \in SUBSET S |-> Rest(g, s)]
           w == [s \in SUBSET S |-> Cardinality(In(s))]
<1>0. IsFiniteSet(S) /\ \A m \in S : hist[m] = Cardinality({c \in Cells : counts[c] = m})
  OBVIOUS
<1>1. Cumulative(n) = iter[S]
  BY DEF Cumulative, MapThenSumSet, MapThenFoldSet
<1> HIDE DEF S
<1>2. ASSUME NEW s \in SUBSET S PROVE w[s] = Rest(w, s)
  <2>1. CASE s = {}
    <3>1. In(s) = {}
      BY <2>1
    <3> QED
      BY <2>1, <3>1, FS_EmptySet
  <2>2. CASE s # {}
    <3> DEFINE x == Some(s)
               A == {c \in Cells : counts[c] = x}
               B == In(s \ {x})
    <3>1. x \in s
      BY <2>2
    <3> HIDE DEF x
    <3>2. In(s) = A \cup B /\ A \cap B = {} /\ A \in SUBSET Cells /\ B \in SUBSET Cells
      BY <3>1
    <3>3. IsFiniteSet(A) /\ IsFiniteSet(B)
      BY <3>2, FlashAssumption, FS_Subset
    <3> HIDE DEF A, B, In
    <3>4. Cardinality(In(s)) = Cardinality(A) + Cardinality(B)
      <4>1. Cardinality(A \cup B) = Cardinality(A) + Cardinality(B) - Cardinality(A \cap B)
        BY <3>3, FS_Union
      <4>2. Cardinality(A \cap B) = 0
        BY <3>2, FS_EmptySet
      <4>3. Cardinality(A) \in Nat /\ Cardinality(B) \in Nat
        BY <3>3, FS_CardinalityType
      <4> QED
        BY <3>2, <4>1, <4>2, <4>3
    <3>5. hist[x] = Cardinality(A)
      BY <1>0, <3>1 DEF A
    <3>6. w[s] = Cardinality(In(s)) /\ w[s \ {x}] = Cardinality(B)
      BY DEF B
    <3> HIDE DEF w
    <3> QED
      BY <2>2, <3>4, <3>5, <3>6 DEF x
  <2> QED
    BY <2>1, <2>2
<1>3. iter = [s \in SUBSET S |-> Rest(iter, s)]
  <2>1. w = [s \in SUBSET S |-> Rest(w, s)]
    <3> HIDE DEF Rest
    <3> QED
      BY <1>2, Zenon
  <2> HIDE DEF w, Rest
  <2> QED
    BY <2>1, Zenon
<1> HIDE DEF iter
<1>4. \A s \in SUBSET S : iter[s] = Rest(iter, s)
  <2> HIDE DEF Rest
  <2> QED
    BY <1>3, Zenon
<1> DEFINE N == Cardinality(S)
           Bad == {k \in 1..N + 1 : \E s \in SUBSET S : Cardinality(s) + 1 = k /\ iter[s] # w[s]}
<1>5. N \in Nat /\ \A s \in SUBSET S : IsFiniteSet(s) /\ Cardinality(s) \in 0..N
  BY <1>0, FS_CardinalityType, FS_Subset
<1>6. Bad = {}
  <2>1. SUFFICES ASSUME Bad # {} PROVE FALSE
    OBVIOUS
  <2>2. Bad \in SUBSET (1..N + 1) /\ N + 1 \in Nat
    BY <1>5
  <2>3. PICK b \in Bad : \A k \in Bad : b <= k
    <3> HIDE DEF Bad, N
    <3> QED
      BY <2>1, <2>2, LeastIndex
  <2>4. PICK s \in SUBSET S : Cardinality(s) + 1 = b /\ iter[s] # w[s]
    BY <2>3
  <2> DEFINE x == Some(s)
  <2>5. s # {}
    BY <1>2, <1>4, <2>4
  <2>6. x \in s
    BY <2>5
  <2> HIDE DEF x
  <2>7. Cardinality(s \ {x}) = Cardinality(s) - 1 /\ s \ {x} \in SUBSET S
    BY <1>5, <2>6, FS_RemoveElement
  <2>8. iter[s \ {x}] = w[s \ {x}]
    <3> HIDE DEF w, N
    <3>1. SUFFICES ASSUME iter[s \ {x}] # w[s \ {x}] PROVE FALSE
      OBVIOUS
    <3>2. Cardinality(s \ {x}) + 1 \in 1..N + 1 /\ Cardinality(s) \in Nat
      BY <1>5, <2>7
    <3>3. Cardinality(s \ {x}) + 1 \in Bad
      BY <2>7, <3>1, <3>2
    <3>4. b <= Cardinality(s \ {x}) + 1
      BY <2>3, <3>3
    <3> QED
      BY <2>4, <2>7, <3>2, <3>4
  <2>9. Rest(iter, s) = Rest(w, s)
    <3> HIDE DEF w
    <3> QED
      BY <2>8 DEF x
  <2> HIDE DEF Rest, w
  <2> QED
    BY <1>2, <1>4, <2>4, <2>9
<1>7. iter[S] = w[S]
  <2> HIDE DEF w, N
  <2>1. S \in SUBSET S /\ Cardinality(S) + 1 \in 1..N + 1
    BY <1>5 DEF N
  <2> QED
    BY <1>6, <2>1
<1> QED
  BY <1>1, <1>7 DEF S

LEMMA MaxFacts ==
    ASSUME NEW n \in Nat, NEW S \in SUBSET (0..n), S # {}
    PROVE  Max(S) \in S /\ \A y \in S : Max(S) >= y
<1> DEFINE T == {x + 1 : x \in S}
<1>1. T \in SUBSET (1..n + 1) /\ n + 1 \in Nat /\ T # {}
  <2>1. PICK x \in S : x + 1 \in T
    OBVIOUS
  <2>2. T # {}
    BY <2>1
  <2> QED
    BY <2>2
<1>2. \A x \in S : x + 1 \in T /\ x \in Int
  OBVIOUS
<1>3. \A z \in T : \E x \in S : z = x + 1
  OBVIOUS
<1> HIDE DEF T
<1>4. PICK z \in T : IsLast(T, z)
  BY <1>1, LastExists
<1>5. PICK x \in S : z = x + 1
  BY <1>3
<1>6. \A y \in S : x >= y
  <2>1. SUFFICES ASSUME NEW y \in S PROVE x >= y
    OBVIOUS
  <2>2. y + 1 <= z
    BY <1>2, <1>4 DEF IsLast
  <2> QED
    BY <1>2, <1>5, <2>2
<1> QED
  BY <1>6, Zenon DEF Max

LEMMA RecordingFacts ==
    ASSUME IsRecording(recording)
    PROVE  /\ Len(recording.times) \in Nat \ {0} /\ Frames = 1..Len(recording.times)
           /\ \A f \in Frames : Time(f) \in Nat
           /\ \A f, g \in Frames : f <= g => Time(f) <= Time(g)
           /\ recording.part \in Nat /\ recording.whole \in Nat \ {0}
           /\ recording.part <= recording.whole /\ recording.limit \in Nat
           /\ IsFiniteSet(Cells) /\ Cells # {} /\ Cells \subseteq Nat
           /\ Cardinality(Cells) \in Nat \ {0}
           /\ Second \in Nat \ {0}
<1>1. PICK c \in Cells : TRUE
  BY FlashAssumption
<1>2. Len(recording.times) \in Nat \ {0} /\ Frames = 1..Len(recording.times)
  BY <1>1, LevelFacts
<1>3. \A f \in Frames : Time(f) \in Nat
  <2>1. recording.times \in Seq(Nat)
    BY DEF IsRecording
  <2>2. \A f \in 1..Len(recording.times) : recording.times[f] \in Nat
    BY <2>1, ElementsFacts
  <2> QED
    BY <1>2, <2>2 DEF Time
<1>4. \A f, g \in Frames : f <= g => Time(f) <= Time(g)
  BY DEF IsRecording, Frames, Time
<1>5. /\ recording.part \in Nat /\ recording.whole \in Nat \ {0}
      /\ recording.part <= recording.whole /\ recording.limit \in Nat
  BY DEF IsRecording
<1>6. IsFiniteSet(Cells) /\ Cells # {} /\ Cells \subseteq Nat /\ Second \in Nat \ {0}
  BY FlashAssumption
<1>7. Cardinality(Cells) \in Nat \ {0}
  BY <1>6, FS_CardinalityType, FS_EmptySet
<1> QED
  BY <1>2, <1>3, <1>4, <1>5, <1>6, <1>7

\* Enough cells are more than the allowed part of the screen, or all of it.
LEMMA NeededFacts ==
    ASSUME IsRecording(recording)
    PROVE  /\ Needed(recording) \in Nat \ {0}
           /\ \A n \in 0..Cardinality(Cells) :
                 n >= Needed(recording) <=>
                    \/ n * recording.whole > recording.part * Cardinality(Cells)
                    \/ n = Cardinality(Cells)
<1> DEFINE all == Cardinality(Cells)
           p == recording.part * all
           w == recording.whole
           d == p \div w
<1>1. all \in Nat \ {0} /\ recording.part \in Nat /\ w \in Nat \ {0}
  BY RecordingFacts
<1>2. p \in Nat
  BY <1>1
<1> HIDE DEF p, w, all
<1>3. d \in Nat /\ d * w <= p /\ p < (d + 1) * w
  BY <1>1, <1>2
<1>4. Needed(recording) = Min({d + 1, all})
  BY DEF Needed, p, w, all
<1> HIDE DEF d
<1>5. Needed(recording) = IF d + 1 <= all THEN d + 1 ELSE all
  <2> DEFINE least == IF d + 1 <= all THEN d + 1 ELSE all
  <2>1. least \in {d + 1, all} /\ \A y \in {d + 1, all} : least <= y
    BY <1>1, <1>3
  <2>2. Min({d + 1, all}) \in {d + 1, all} /\ \A y \in {d + 1, all} : Min({d + 1, all}) <= y
    <3> HIDE DEF least
    <3> QED
      BY <2>1, Zenon DEF Min
  <2> QED
    BY <1>1, <1>3, <1>4, <2>2
<1>6. ASSUME NEW n \in Nat PROVE n >= d + 1 <=> n * w > p
  <2>1. CASE n >= d + 1
    <3>1. n * w >= (d + 1) * w
      BY <1>1, <1>3, <2>1
    <3> QED
      BY <1>1, <1>2, <1>3, <2>1, <3>1
  <2>2. CASE n <= d
    <3>1. n * w <= d * w
      BY <1>1, <1>3, <2>2
    <3> QED
      BY <1>1, <1>2, <1>3, <2>2, <3>1
  <2> QED
    BY <1>3, <2>1, <2>2
<1>7. Needed(recording) \in Nat \ {0}
  BY <1>1, <1>3, <1>5
<1>8. ASSUME NEW n \in 0..all PROVE n >= Needed(recording) <=> (n * w > p \/ n = all)
  BY <1>1, <1>3, <1>5, <1>6
<1> QED
  BY <1>7, <1>8 DEF p, w, all

Changing == IsRecording(recording) /\ changes \in [Cells -> SUBSET Frames]

LEMMA ChangesInFacts ==
    ASSUME Changing, NEW c \in Cells, NEW from, NEW to
    PROVE  /\ ChangesIn(c, from, to) \in 0..Len(recording.times)
           /\ IsFiniteSet({f \in changes[c] : from <= Time(f) /\ Time(f) < to})
<1> DEFINE S == {f \in changes[c] : from <= Time(f) /\ Time(f) < to}
<1>1. Len(recording.times) \in Nat /\ Frames = 1..Len(recording.times)
  BY RecordingFacts DEF Changing
<1>2. S \in SUBSET Frames
  BY DEF Changing
<1> HIDE DEF S
<1>3. IsFiniteSet(Frames) /\ Cardinality(Frames) = Len(recording.times)
  BY <1>1, IndicesFacts
<1>4. IsFiniteSet(S) /\ Cardinality(S) <= Len(recording.times) /\ Cardinality(S) \in Nat
  BY <1>2, <1>3, FS_Subset, FS_CardinalityType
<1>5. ChangesIn(c, from, to) = Cardinality(S)
  BY DEF ChangesIn, S
<1> QED
  BY <1>1, <1>4, <1>5 DEF S

\* A window over more frames has as many changes or more.
LEMMA WiderWindow ==
    ASSUME Changing, NEW c \in Cells, NEW a, NEW b, NEW from, NEW to,
           \A f \in Frames : a <= Time(f) /\ Time(f) < b => from <= Time(f) /\ Time(f) < to
    PROVE  ChangesIn(c, a, b) <= ChangesIn(c, from, to)
<1> DEFINE S == {f \in changes[c] : from <= Time(f) /\ Time(f) < to}
           T == {f \in changes[c] : a <= Time(f) /\ Time(f) < b}
<1>1. T \in SUBSET S
  BY DEF Changing
<1>2. IsFiniteSet(S)
  BY ChangesInFacts
<1> HIDE DEF S, T
<1>3. Cardinality(T) <= Cardinality(S)
  BY <1>1, <1>2, FS_Subset
<1> QED
  BY <1>3 DEF ChangesIn, S, T

LEMMA ReachingFacts ==
    ASSUME NEW n, NEW from, NEW to
    PROVE  /\ Reaching(n, from, to) \in SUBSET Cells
           /\ Cardinality(Reaching(n, from, to)) \in 0..Cardinality(Cells)
           /\ IsFiniteSet(Reaching(n, from, to))
<1>1. Reaching(n, from, to) \in SUBSET Cells
  BY DEF Reaching
<1>2. IsFiniteSet(Cells)
  BY FlashAssumption
<1> QED
  BY <1>1, <1>2, FS_Subset, FS_CardinalityType

\* The count of a window exceeds a limit if enough cells do.
LEMMA QualifiedFacts ==
    ASSUME Changing, NEW from, NEW to
    PROVE  /\ QualifiedIn(from, to) \in Nat
           /\ \A n \in Nat : QualifiedIn(from, to) > n <=>
                 Cardinality(Reaching(n + 1, from, to)) >= Needed(recording)
<1> DEFINE S == {n \in 1..Len(recording.times) :
                     Cardinality(Reaching(n, from, to)) >= Needed(recording)}
           q == Max({0} \cup S)
<1>1. Len(recording.times) \in Nat /\ Needed(recording) \in Nat \ {0}
  BY RecordingFacts, NeededFacts DEF Changing
<1>2. {0} \cup S \in SUBSET (0..Len(recording.times)) /\ {0} \cup S # {}
  BY <1>1
<1>3. q \in {0} \cup S /\ \A y \in {0} \cup S : q >= y
  <2> HIDE DEF S
  <2> QED
    BY <1>1, <1>2, MaxFacts
<1>4. QualifiedIn(from, to) = q
  BY DEF QualifiedIn
<1>5. q \in Nat
  BY <1>2, <1>3
<1> HIDE DEF q
<1>6. ASSUME NEW n \in Nat, q > n
      PROVE  Cardinality(Reaching(n + 1, from, to)) >= Needed(recording)
  <2>1. q \in 1..Len(recording.times) /\ Cardinality(Reaching(q, from, to)) >= Needed(recording)
    BY <1>3, <1>5, <1>6
  <2>2. Reaching(q, from, to) \in SUBSET Reaching(n + 1, from, to)
    <3>1. SUFFICES ASSUME NEW c \in Cells, ChangesIn(c, from, to) >= q
                   PROVE  ChangesIn(c, from, to) >= n + 1
      BY DEF Reaching
    <3>2. ChangesIn(c, from, to) \in 0..Len(recording.times)
      BY ChangesInFacts
    <3> QED
      BY <1>1, <1>5, <1>6, <3>1, <3>2
  <2>3. Cardinality(Reaching(q, from, to)) <= Cardinality(Reaching(n + 1, from, to))
    BY <2>2, ReachingFacts, FS_Subset
  <2>4. /\ Cardinality(Reaching(q, from, to)) \in Nat
        /\ Cardinality(Reaching(n + 1, from, to)) \in Nat
    BY ReachingFacts, FS_CardinalityType
  <2> QED
    BY <1>1, <2>1, <2>3, <2>4
<1>7. ASSUME NEW n \in Nat, Cardinality(Reaching(n + 1, from, to)) >= Needed(recording)
      PROVE  q > n
  <2>1. Reaching(n + 1, from, to) # {}
    <3>1. Reaching(n + 1, from, to) = {} => Cardinality(Reaching(n + 1, from, to)) = 0
      BY FS_EmptySet
    <3> QED
      BY <1>1, <1>7, <3>1
  <2>2. PICK c \in Cells : ChangesIn(c, from, to) >= n + 1
    BY <2>1 DEF Reaching
  <2>3. ChangesIn(c, from, to) \in 0..Len(recording.times)
    BY ChangesInFacts
  <2>4. n + 1 \in S
    BY <1>1, <1>7, <2>2, <2>3
  <2> HIDE DEF S
  <2> QED
    BY <1>3, <1>5, <2>4
<1> QED
  BY <1>4, <1>5, <1>6, <1>7

\* More changes in every cell do not make it less.
LEMMA QualifiedGrows ==
    ASSUME Changing, NEW a, NEW b, NEW from, NEW to,
           \A c \in Cells : ChangesIn(c, a, b) <= ChangesIn(c, from, to)
    PROVE  QualifiedIn(a, b) <= QualifiedIn(from, to)
<1>1. QualifiedIn(a, b) \in Nat /\ QualifiedIn(from, to) \in Nat
  BY QualifiedFacts
<1>2. SUFFICES ASSUME QualifiedIn(from, to) < QualifiedIn(a, b) PROVE FALSE
  BY <1>1
<1> DEFINE n == QualifiedIn(from, to)
<1>3. Cardinality(Reaching(n + 1, a, b)) >= Needed(recording)
  BY <1>1, <1>2, QualifiedFacts
<1>4. ~(Cardinality(Reaching(n + 1, from, to)) >= Needed(recording))
  BY <1>1, QualifiedFacts
<1> HIDE DEF n
<1>5. Reaching(n + 1, a, b) \in SUBSET Reaching(n + 1, from, to)
  <2>1. SUFFICES ASSUME NEW c \in Cells, ChangesIn(c, a, b) >= n + 1
                 PROVE  ChangesIn(c, from, to) >= n + 1
    BY DEF Reaching
  <2>2. /\ ChangesIn(c, a, b) \in 0..Len(recording.times)
        /\ ChangesIn(c, from, to) \in 0..Len(recording.times)
    BY ChangesInFacts
  <2>3. Len(recording.times) \in Nat /\ n \in Nat
    BY <1>1, RecordingFacts DEF Changing, n
  <2> QED
    BY <2>1, <2>2, <2>3
<1>6. Cardinality(Reaching(n + 1, a, b)) <= Cardinality(Reaching(n + 1, from, to))
  BY <1>5, ReachingFacts, FS_Subset
<1>7. /\ Cardinality(Reaching(n + 1, a, b)) \in Nat
      /\ Cardinality(Reaching(n + 1, from, to)) \in Nat
      /\ Needed(recording) \in Nat
  BY ReachingFacts, NeededFacts, FS_CardinalityType DEF Changing
<1> QED
  BY <1>3, <1>4, <1>6, <1>7

LEMMA EventFacts ==
    ASSUME NEW e \in Event
    PROVE  e[1] \in Frames /\ e[2] \in Cells /\ e = <<e[1], e[2]>>
BY DEF Event

Listed == events \in Seq(Event) /\ \A j, k \in 1..Len(events) : events[j] = events[k] => j = k

LEMMA ListedFacts ==
    ASSUME Listed, IsRecording(recording)
    PROVE  /\ Len(events) \in Nat /\ DOMAIN events = 1..Len(events)
           /\ \A k \in 1..Len(events) : /\ events[k] \in Event
                                        /\ events[k] = <<events[k][1], events[k][2]>>
                                        /\ events[k][1] \in Frames /\ events[k][2] \in Cells
                                        /\ EventTime(k) \in Nat
<1>1. Len(events) \in Nat /\ DOMAIN events = 1..Len(events)
      /\ \A k \in 1..Len(events) : events[k] \in Event
  BY ElementsFacts DEF Listed
<1>2. \A k \in 1..Len(events) : /\ events[k] = <<events[k][1], events[k][2]>>
                                /\ events[k][1] \in Frames /\ events[k][2] \in Cells
  BY <1>1, EventFacts
<1>3. \A f \in Frames : Time(f) \in Nat
  BY RecordingFacts
<1> QED
  BY <1>1, <1>2, <1>3 DEF EventTime

\* A cell has at most one event in every frame.
LEMMA EventsOfCell ==
    ASSUME Listed, IsRecording(recording), NEW c, NEW K \in SUBSET (1..Len(events))
    PROVE  /\ IsFiniteSet({k \in K : events[k][2] = c})
           /\ Cardinality({k \in K : events[k][2] = c}) \in 0..Len(recording.times)
<1> DEFINE S == {k \in K : events[k][2] = c}
           f == [k \in S |-> events[k][1]]
<1>1. Len(recording.times) \in Nat /\ Frames = 1..Len(recording.times)
  BY RecordingFacts
<1>2. IsFiniteSet(Frames) /\ Cardinality(Frames) = Len(recording.times)
  BY <1>1, IndicesFacts
<1>3. f \in [S -> Frames]
  BY ListedFacts
<1>4. ASSUME NEW j \in S, NEW k \in S, f[j] = f[k] PROVE j = k
  <2>1. events[j] = events[k]
    BY <1>4, ListedFacts
  <2> QED
    BY <2>1 DEF Listed
<1> HIDE DEF S
<1>5. f \in Injection(S, Frames)
  BY <1>3, <1>4 DEF Injection, IsInjective
<1> HIDE DEF f
<1>6. IsFiniteSet(S) /\ Cardinality(S) <= Len(recording.times) /\ Cardinality(S) \in Nat
  BY <1>2, <1>5, FS_Injection, FS_CardinalityType
<1> QED
  BY <1>1, <1>6 DEF S

\* When no event is due, those counted are those of the window.
LEMMA WindowIsExact ==
    ASSUME TrackedSoFar, EventsSoFar, stage # "track", HistogramSoFar,
           NEW c \in Cells, NEW from \in Nat, NEW to \in Nat,
           \A k \in 1..entered : EventTime(k) < to,
           \A k \in 1..gone : EventTime(k) < from,
           ~Due(entered, to), ~(gone < entered /\ Due(gone, from))
    PROVE  counts[c] = ChangesIn(c, from, to)
<1> DEFINE K == {k \in gone + 1..entered : events[k][2] = c}
           S == {f \in changes[c] : from <= Time(f) /\ Time(f) < to}
           g == [k \in K |-> events[k][1]]
<1>1. /\ Listed /\ IsRecording(recording) /\ changes[c] \in SUBSET Frames
      /\ \A j, k \in 1..Len(events) : j <= k => EventTime(j) <= EventTime(k)
      /\ \A e \in Event : (\E k \in 1..Len(events) : events[k] = e) <=> e[1] \in changes[e[2]]
  <2>1. IsRecording(recording) /\ changes[c] \in SUBSET (1..frame - 1)
        /\ frame \in 2..Len(recording.times) + 1
    BY DEF TrackedSoFar
  <2>2. changes[c] \in SUBSET Frames
    BY <2>1, RecordingFacts
  <2> QED
    BY <2>1, <2>2 DEF EventsSoFar, Listed
<1>2. /\ Len(events) \in Nat /\ DOMAIN events = 1..Len(events)
      /\ \A k \in 1..Len(events) : /\ events[k] \in Event
                                   /\ events[k] = <<events[k][1], events[k][2]>>
                                   /\ events[k][1] \in Frames /\ events[k][2] \in Cells
                                   /\ EventTime(k) \in Nat
  BY <1>1, ListedFacts
<1>3. /\ entered \in Nat /\ gone \in Nat /\ gone <= entered /\ entered <= Len(events)
      /\ counts[c] = Cardinality(K)
  BY DEF HistogramSoFar
<1>4. ASSUME NEW k \in 1..Len(events)
      PROVE  k \in gone + 1..entered <=> (from <= EventTime(k) /\ EventTime(k) < to)
  <2>1. ASSUME k \in gone + 1..entered PROVE from <= EventTime(k) /\ EventTime(k) < to
    <3>1. k \in 1..entered /\ gone < entered /\ gone + 1 \in 1..Len(events) /\ gone + 1 <= k
      BY <1>3, <2>1
    <3>2. ~(EventTime(gone + 1) < from) /\ EventTime(gone + 1) <= EventTime(k)
      BY <1>1, <1>2, <3>1 DEF Due, EventTime
    <3> QED
      BY <1>2, <3>1, <3>2
  <2>2. ASSUME from <= EventTime(k), EventTime(k) < to PROVE k \in gone + 1..entered
    <3>1. ~(k \in 1..gone)
      BY <1>2, <2>2
    <3>2. ASSUME k > entered PROVE FALSE
      <4>1. entered + 1 \in 1..Len(events) /\ entered + 1 <= k
        BY <1>2, <1>3, <3>2
      <4>2. ~(EventTime(entered + 1) < to) /\ EventTime(entered + 1) <= EventTime(k)
        BY <1>1, <1>2, <4>1 DEF Due, EventTime
      <4> QED
        BY <1>2, <2>2, <4>1, <4>2
    <3> QED
      BY <1>2, <1>3, <3>1, <3>2
  <2> QED
    BY <2>1, <2>2
<1>5. K \in SUBSET (1..Len(events)) /\ IsFiniteSet(K)
  <2>1. gone + 1..entered \in SUBSET (1..Len(events))
    BY <1>2, <1>3
  <2> QED
    BY <1>1, <2>1, EventsOfCell
<1>6. g \in [K -> S]
  <2>1. SUFFICES ASSUME NEW k \in K PROVE events[k][1] \in S
    OBVIOUS
  <2>2. k \in 1..Len(events) /\ k \in gone + 1..entered /\ events[k][2] = c
    BY <1>5
  <2>3. from <= Time(events[k][1]) /\ Time(events[k][1]) < to
    BY <1>4, <2>2 DEF EventTime
  <2>4. events[k][1] \in changes[c]
    BY <1>1, <1>2, <2>2
  <2> QED
    BY <2>3, <2>4
<1>7. ASSUME NEW j \in K, NEW k \in K, g[j] = g[k] PROVE j = k
  <2>1. j \in 1..Len(events) /\ k \in 1..Len(events) /\ events[j] = events[k]
    BY <1>2, <1>5, <1>7
  <2> QED
    BY <1>1, <2>1 DEF Listed
<1>8. ASSUME NEW f \in S PROVE \E k \in K : g[k] = f
  <2>1. <<f, c>> \in Event /\ f \in changes[c] /\ from <= Time(f) /\ Time(f) < to
    BY <1>1 DEF Event
  <2>2. PICK k \in 1..Len(events) : events[k] = <<f, c>>
    BY <1>1, <2>1
  <2>3. events[k][1] = f /\ events[k][2] = c
    BY <2>2
  <2>4. k \in gone + 1..entered
    BY <1>4, <2>1, <2>3 DEF EventTime
  <2> QED
    BY <2>3, <2>4
<1> HIDE DEF K, S, g
<1>9. g \in Bijection(K, S)
  BY <1>6, <1>7, <1>8 DEF Bijection, Injection, Surjection, IsInjective
<1>10. Cardinality(S) = Cardinality(K)
  <2>1. ExistsBijection(K, S)
    BY <1>9 DEF ExistsBijection
  <2> QED
    BY <1>5, <2>1, FS_Bijection
<1> QED
  BY <1>3, <1>10 DEF ChangesIn, S

\* Then the count that the histogram gives is that of the window.
LEMMA QualifiedIsExact ==
    ASSUME TrackedSoFar, HistogramSoFar, Listed, NEW from, NEW to,
           \A c \in Cells : counts[c] = ChangesIn(c, from, to)
    PROVE  Qualified = QualifiedIn(from, to)
<1> DEFINE last == Len(recording.times)
<1>1. /\ IsRecording(recording) /\ last \in Nat /\ DOMAIN hist = 0..last
      /\ \A n \in 0..last : hist[n] = Cardinality({c \in Cells : counts[c] = n})
      /\ IsFiniteSet(Cells) /\ Changing
  <2>1. IsRecording(recording) /\ changes \in [Cells -> SUBSET (1..frame - 1)]
        /\ frame \in 2..Len(recording.times) + 1
    BY DEF TrackedSoFar
  <2>2. last \in Nat /\ Frames = 1..last /\ IsFiniteSet(Cells)
    BY <2>1, RecordingFacts
  <2>3. Changing
    BY <2>1, <2>2 DEF Changing
  <2> QED
    BY <2>1, <2>2, <2>3 DEF HistogramSoFar
<1>2. \A c \in Cells : counts[c] \in 0..last
  BY <1>1, ChangesInFacts
<1> HIDE DEF last
<1>3. ASSUME NEW n \in 1..last PROVE Cumulative(n) = Cardinality(Reaching(n, from, to))
  <2> DEFINE S == {m \in DOMAIN hist : m >= n}
  <2>1. S \in SUBSET (0..last) /\ \A m \in S : hist[m] = Cardinality({c \in Cells : counts[c] = m})
    BY <1>1
  <2>2. IsFiniteSet(S)
    <3> HIDE DEF S
    <3>1. IsFiniteSet(0..last)
      BY <1>1, FS_Interval
    <3> QED
      BY <2>1, <3>1, FS_Subset
  <2>3. {c \in Cells : counts[c] \in S} = Reaching(n, from, to)
    BY <1>1, <1>2 DEF Reaching
  <2>4. Cumulative(n) = Cardinality({c \in Cells : counts[c] \in S})
    BY <1>1, <2>2, CumulativeFacts
  <2> QED
    BY <2>3, <2>4
<1>4. {n \in DOMAIN hist : n > 0 /\ Cumulative(n) >= Needed(recording)}
        = {n \in 1..last : Cardinality(Reaching(n, from, to)) >= Needed(recording)}
  <2>1. \A n : n \in 1..last <=> n \in DOMAIN hist /\ n > 0
    BY <1>1
  <2> QED
    BY <1>3, <2>1
<1> QED
  BY <1>4 DEF Qualified, QualifiedIn, last

\* One change more or less in a cell.
LEMMA BumpFacts ==
    ASSUME IsRecording(recording), NEW cell \in Cells, NEW delta \in Int, delta # 0,
           counts \in [Cells -> Nat], counts[cell] \in 0..Len(recording.times),
           counts[cell] + delta \in 0..Len(recording.times),
           hist = [n \in 0..Len(recording.times) |-> Cardinality({c \in Cells : counts[c] = n})],
           Bump(cell, delta)
    PROVE  /\ counts' = [counts EXCEPT ![cell] = @ + delta]
           /\ hist' = [n \in 0..Len(recording.times) |->
                          Cardinality({c \in Cells : counts'[c] = n})]
<1> DEFINE old == counts[cell]
           new == counts[cell] + delta
           last == Len(recording.times)
           With1(n) == {c \in Cells : counts[c] = n}
           With2(n) == {c \in Cells : counts'[c] = n}
<1>1. /\ counts' = [counts EXCEPT ![cell] = @ + delta]
      /\ hist' = [hist EXCEPT ![old] = @ - 1, ![new] = @ + 1]
  BY DEF Bump
<1>2. IsFiniteSet(Cells) /\ last \in Nat
  BY RecordingFacts
<1>3. old \in 0..last /\ new \in 0..last /\ old # new /\ old \in Int
  BY <1>2
<1>4. \A c \in Cells : counts'[c] = IF c = cell THEN new ELSE counts[c]
  BY <1>1
<1>5. \A n : IsFiniteSet(With1(n)) /\ Cardinality(With1(n)) \in Nat
  <2>1. \A n : With1(n) \in SUBSET Cells
    OBVIOUS
  <2> HIDE DEF With1
  <2> QED
    BY <1>2, <2>1, FS_Subset, FS_CardinalityType
<1>6. With2(old) = With1(old) \ {cell} /\ cell \in With1(old)
      /\ With2(new) = With1(new) \cup {cell} /\ cell \notin With1(new)
      /\ \A n : n # old /\ n # new => With2(n) = With1(n)
  BY <1>3, <1>4
<1>7. \A n \in 0..last : hist[n] = Cardinality(With1(n))
  OBVIOUS
<1> HIDE DEF With1, With2, last, new, old
<1>8. Cardinality(With2(old)) = Cardinality(With1(old)) - 1
      /\ Cardinality(With2(new)) = Cardinality(With1(new)) + 1
  <2>1. Cardinality(With1(old) \ {cell}) = Cardinality(With1(old)) - 1
    BY <1>5, <1>6, FS_RemoveElement
  <2>2. Cardinality(With1(new) \cup {cell}) = Cardinality(With1(new)) + 1
    BY <1>5, <1>6, FS_AddElement
  <2> QED
    BY <1>6, <2>1, <2>2
<1>9. hist' = [n \in 0..last |-> Cardinality(With2(n))]
  <2>1. DOMAIN hist = 0..last /\ hist = [n \in 0..last |-> hist[n]]
    BY DEF last
  <2>2. DOMAIN hist' = 0..last /\ hist' = [n \in 0..last |-> hist'[n]]
    BY <1>1, <2>1
  <2>3. ASSUME NEW n \in 0..last PROVE hist'[n] = Cardinality(With2(n))
    <3>1. CASE n = old
      BY <1>1, <1>3, <1>7, <1>8, <2>1, <3>1
    <3>2. CASE n = new
      BY <1>1, <1>3, <1>7, <1>8, <2>1, <3>2
    <3>3. CASE n # old /\ n # new
      BY <1>1, <1>3, <1>6, <1>7, <2>1, <3>3
    <3> QED
      BY <3>1, <3>2, <3>3
  <2> QED
    BY <2>2, <2>3
<1> QED
  BY <1>1, <1>9 DEF With2, last

LEMMA SortedEvents ==
    ASSUME TrackedSoFar
    PROVE  LET S == {e \in Event : e[1] \in changes[e[2]]}
               R == {p \in Event \X Event : EarlierEvent(p[1], p[2])}
               s == Sorted(S, R)
           IN  /\ s \in Seq(Event) /\ Len(s) \in Nat
               /\ \A k \in 1..Len(s) : s[k] \in Event
               /\ \A j, k \in 1..Len(s) : j <= k => Time(s[j][1]) <= Time(s[k][1])
               /\ \A j, k \in 1..Len(s) : s[j] = s[k] => j = k
               /\ \A e \in Event : (\E k \in 1..Len(s) : s[k] = e) <=> e[1] \in changes[e[2]]
<1> DEFINE S == {e \in Event : e[1] \in changes[e[2]]}
           R == {p \in Event \X Event : EarlierEvent(p[1], p[2])}
           s == Sorted(S, R)
<1>1. /\ IsRecording(recording) /\ Len(recording.times) \in Nat
      /\ Frames = 1..Len(recording.times)
      /\ IsFiniteSet(Cells) /\ Cells \subseteq Nat /\ \A f \in Frames : Time(f) \in Nat
  BY RecordingFacts DEF TrackedSoFar
<1>2. \A e \in Event : /\ e = <<e[1], e[2]>> /\ Time(e[1]) \in Nat
                       /\ e[1] \in Nat /\ e[2] \in Nat
  BY <1>1, EventFacts
<1>3. IsFiniteSet(S) /\ S \in SUBSET Event
  <2>1. IsFiniteSet(Frames)
    BY <1>1, IndicesFacts
  <2>2. IsFiniteSet(Event)
    BY <1>1, <2>1, FS_Product DEF Event
  <2> QED
    BY <2>2, FS_Subset
<1>4. \A a, b \in Event : <<a, b>> \in R <=> EarlierEvent(a, b)
  OBVIOUS
<1>5. \A e \in Event : e \in S <=> e[1] \in changes[e[2]]
  OBVIOUS
<1> HIDE DEF S, R
<1>6. StrictOrder(S, R)
  <2>1. \A a \in Event : ~EarlierEvent(a, a)
    BY <1>2 DEF EarlierEvent
  <2>2. \A a, b, c \in Event : EarlierEvent(a, b) /\ EarlierEvent(b, c) => EarlierEvent(a, c)
    BY <1>2 DEF EarlierEvent
  <2>3. \A a, b \in Event : a = b \/ EarlierEvent(a, b) \/ EarlierEvent(b, a)
    <3>1. SUFFICES ASSUME NEW a \in Event, NEW b \in Event,
                          ~EarlierEvent(a, b), ~EarlierEvent(b, a)
                   PROVE  a = b
      OBVIOUS
    <3>2. a[1] = b[1] /\ a[2] = b[2]
      BY <1>2, <3>1 DEF EarlierEvent
    <3> QED
      BY <1>2, <3>2
  <2> QED
    BY <1>3, <1>4, <2>1, <2>2, <2>3 DEF StrictOrder
<1>7. /\ Cardinality(S) \in Nat /\ s \in Seq(S) /\ Len(s) = Cardinality(S)
      /\ \A k \in 1..Cardinality(S) : s[k] \in S
      /\ \A x \in S : \E k \in 1..Cardinality(S) : s[k] = x
      /\ \A j, k \in 1..Cardinality(S) : j < k <=> <<s[j], s[k]>> \in R
      /\ \A j, k \in 1..Cardinality(S) : s[j] = s[k] => j = k
  BY <1>6, SortedFacts
<1> HIDE DEF s
<1>8. s \in Seq(Event) /\ \A k \in 1..Len(s) : s[k] \in Event
  BY <1>3, <1>7
<1>9. ASSUME NEW j \in 1..Len(s), NEW k \in 1..Len(s), j <= k
      PROVE  Time(s[j][1]) <= Time(s[k][1])
  <2>1. s[j] \in Event /\ s[k] \in Event
    BY <1>8
  <2>2. CASE j = k
    BY <1>2, <2>1, <2>2
  <2>3. CASE j < k
    <3>1. EarlierEvent(s[j], s[k])
      BY <1>4, <1>7, <2>1, <2>3
    <3> QED
      BY <1>2, <2>1, <3>1 DEF EarlierEvent
  <2> QED
    BY <1>7, <1>9, <2>2, <2>3
<1>10. \A e \in Event : (\E k \in 1..Len(s) : s[k] = e) <=> e[1] \in changes[e[2]]
  BY <1>5, <1>7
<1> QED
  BY <1>7, <1>8, <1>9, <1>10 DEF s, S, R

\* Before anything is counted.
LEMMA NothingCounted ==
    ASSUME IsRecording(recording)
    PROVE  /\ NoCounts = [c \in Cells |-> Cardinality({k \in 0 + 1..0 : events[k][2] = c})]
           /\ NoHist = [n \in 0..Len(recording.times) |->
                           Cardinality({c \in Cells : NoCounts[c] = n})]
<1>1. \A c : Cardinality({k \in 0 + 1..0 : events[k][2] = c}) = 0
  <2>1. \A c : {k \in 0 + 1..0 : events[k][2] = c} = {}
    OBVIOUS
  <2> QED
    BY <2>1, FS_EmptySet
<1>2. \A c \in Cells : NoCounts[c] = 0
  BY DEF NoCounts
<1>3. ASSUME NEW n \in 0..Len(recording.times)
      PROVE  Cardinality({c \in Cells : NoCounts[c] = n})
               = IF n = 0 THEN Cardinality(Cells) ELSE 0
  <2>1. CASE n = 0
    <3>1. {c \in Cells : NoCounts[c] = n} = Cells
      BY <1>2, <2>1
    <3> QED
      BY <2>1, <3>1
  <2>2. CASE n # 0
    <3>1. {c \in Cells : NoCounts[c] = n} = {}
      BY <1>2, <2>2
    <3> QED
      BY <2>2, <3>1, FS_EmptySet
  <2> QED
    BY <2>1, <2>2
<1> QED
  BY <1>1, <1>3 DEF NoCounts, NoHist

LEMMA OpenedFacts ==
    ASSUME IsRecording(recording), recording' = recording, Len(events') \in Nat,
           NEW newStage, NEW ws, Len(ws) \in Nat, Open(newStage, ws)
    PROVE  /\ HistogramSoFar' /\ entered' = 0 /\ gone' = 0
           /\ window' = 1 /\ found' = <<>> /\ windows' = ws /\ stage' = newStage
           /\ window' \in 1..Len(windows') + 1
<1>1. /\ counts' = NoCounts /\ hist' = NoHist /\ entered' = 0 /\ gone' = 0
      /\ window' = 1 /\ found' = <<>> /\ windows' = ws /\ stage' = newStage
  BY DEF Open
<1>2. /\ counts' = [c \in Cells |-> Cardinality({k \in 0 + 1..0 : events'[k][2] = c})]
      /\ hist' = [n \in 0..Len(recording.times) |-> Cardinality({c \in Cells : counts'[c] = n})]
  <2>1. \A c : {k \in 0 + 1..0 : events'[k][2] = c} = {k \in 0 + 1..0 : events[k][2] = c}
    OBVIOUS
  <2> QED
    BY <1>1, <2>1, NothingCounted
<1>3. HistogramSoFar'
  BY <1>1, <1>2 DEF HistogramSoFar
<1> QED
  BY <1>1, <1>3

\* What a window asks for depends on the changes only.
LEMMA SameQualified ==
    ASSUME recording' = recording, changes' = changes, NEW from, NEW to
    PROVE  QualifiedIn(from, to)' = QualifiedIn(from, to)
BY DEF QualifiedIn, Reaching, ChangesIn, Time

LEMMA InitCounting == FlashInit => CountingInv
<1> SUFFICES ASSUME FlashInit PROVE CountingInv
  OBVIOUS
<1>1. TrackedSoFar /\ IsRecording(recording)
  BY InitTracked DEF TrackedSoFar
<1>2. /\ stage = "track" /\ events = <<>> /\ windows = <<>> /\ window = 1
      /\ entered = 0 /\ gone = 0 /\ counts = NoCounts /\ hist = NoHist /\ found = <<>>
      /\ perSecond = <<>> /\ flashStatus = "none"
  BY DEF FlashInit, FlashStart
<1>3. EventsSoFar /\ WindowsSoFar /\ CountedSoFar /\ JudgedSoFar
  BY <1>2 DEF EventsSoFar, WindowsSoFar, CountedSoFar, JudgedSoFar
<1>4. HistogramSoFar
  BY <1>1, <1>2, NothingCounted DEF HistogramSoFar
<1> QED
  BY <1>1, <1>3, <1>4 DEF CountingInv

----------------------------------------------------------------------------
(* The steps.                                                              *)

LEMMA CountingFacts ==
    ASSUME CountingInv
    PROVE  /\ IsRecording(recording) /\ Changing
           /\ stage # "track" => Listed
           /\ Len(windows) \in Nat /\ DOMAIN windows = 1..Len(windows)
           /\ window \in Nat \ {0} /\ entered \in Nat /\ gone \in Nat
           /\ Len(events) \in Nat /\ DOMAIN events = 1..Len(events)
           /\ \A k \in 1..Len(windows) : windows[k].start \in Nat /\ windows[k].end \in Nat
           /\ \A k \in 1..Len(events) : EventTime(k) \in Nat
<1> USE DEF CountingInv
<1>1. /\ IsRecording(recording) /\ changes \in [Cells -> SUBSET (1..frame - 1)]
      /\ frame \in 2..Len(recording.times) + 1
  BY DEF TrackedSoFar
<1>2. Frames = 1..Len(recording.times) /\ Len(recording.times) \in Nat /\ Second \in Nat
  BY <1>1, RecordingFacts
<1>3. Changing
  BY <1>1, <1>2 DEF Changing
<1>4. /\ Len(windows) \in Nat /\ DOMAIN windows = 1..Len(windows)
      /\ \A k \in 1..Len(windows) : windows[k].start \in Nat /\ windows[k].end \in Nat
  BY <1>2 DEF WindowsSoFar
<1>5. window \in Nat \ {0} /\ entered \in Nat /\ gone \in Nat
  BY <1>4 DEF CountedSoFar, HistogramSoFar
<1>6. stage # "track" => Listed
  BY DEF EventsSoFar, Listed
<1>7. /\ Len(events) \in Nat /\ DOMAIN events = 1..Len(events)
      /\ \A k \in 1..Len(events) : EventTime(k) \in Nat
  <2>1. CASE stage = "track"
    BY <2>1 DEF EventsSoFar
  <2>2. CASE stage # "track"
    BY <1>1, <1>6, <2>2, ListedFacts
  <2> QED
    BY <2>1, <2>2
<1> QED
  BY <1>1, <1>3, <1>4, <1>5, <1>6, <1>7

LEMMA StutterKeepsCounting == CountingInv /\ UNCHANGED flashVars => CountingInv'
<1> SUFFICES ASSUME CountingInv, UNCHANGED flashVars PROVE CountingInv'
  OBVIOUS
<1> USE DEF CountingInv
<1>1. TrackedSoFar'
  BY NextTracked
<1>2. /\ recording' = recording /\ changes' = changes /\ stage' = stage /\ events' = events
      /\ windows' = windows /\ window' = window /\ entered' = entered /\ gone' = gone
      /\ counts' = counts /\ hist' = hist /\ found' = found /\ perSecond' = perSecond
      /\ worst' = worst /\ flashStatus' = flashStatus
  BY DEF flashVars, tracking, sliding
<1>3. EventsSoFar' /\ WindowsSoFar' /\ HistogramSoFar'
  BY <1>2 DEF EventsSoFar, WindowsSoFar, HistogramSoFar, Event, Frames, EventTime, Time
<1>4. CountedSoFar'
  BY <1>2, SameQualified DEF CountedSoFar, EventTime, Time
<1>5. JudgedSoFar'
  BY <1>2, SameQualified DEF JudgedSoFar
<1> QED
  BY <1>1, <1>3, <1>4, <1>5

LEMMA TrackKeepsCounting == CountingInv /\ Track => CountingInv'
<1> SUFFICES ASSUME CountingInv, Track PROVE CountingInv'
  OBVIOUS
<1> USE DEF CountingInv
<1>1. TrackedSoFar'
  BY NextTracked DEF FlashNext
<1>2. /\ stage = "track" /\ recording' = recording /\ stage' = stage /\ events' = events
      /\ windows' = windows /\ window' = window /\ entered' = entered /\ gone' = gone
      /\ counts' = counts /\ hist' = hist /\ found' = found /\ perSecond' = perSecond
      /\ flashStatus' = flashStatus
  BY DEF Track, sliding
<1>3. EventsSoFar' /\ WindowsSoFar' /\ HistogramSoFar'
  BY <1>2 DEF EventsSoFar, WindowsSoFar, HistogramSoFar, Frames, Time
<1>4. window = 1 /\ Len(windows) = 0 /\ Len(perSecond) = 0
  BY <1>2 DEF WindowsSoFar, CountedSoFar, JudgedSoFar
<1>5. CountedSoFar'
  BY <1>2, <1>4 DEF CountedSoFar
<1>6. JudgedSoFar'
  BY <1>2, <1>4 DEF JudgedSoFar
<1> QED
  BY <1>1, <1>3, <1>5, <1>6

LEMMA SecondsKeepsCounting == CountingInv /\ CountSeconds => CountingInv'
<1> SUFFICES ASSUME CountingInv, CountSeconds PROVE CountingInv'
  OBVIOUS
<1> USE DEF CountingInv
<1> DEFINE n == Time(Len(recording.times)) \div Second + 1
           ws == [k \in 1..n |-> [start |-> (k - 1) * Second, end |-> k * Second]]
<1>1. TrackedSoFar'
  BY NextTracked DEF FlashNext
<1>2. /\ recording' = recording /\ changes' = changes /\ stage = "track"
      /\ perSecond' = perSecond /\ flashStatus' = flashStatus
      /\ Open("seconds", ws)
      /\ events' = Sorted({e \in Event : e[1] \in changes[e[2]]},
                           {p \in Event \X Event : EarlierEvent(p[1], p[2])})
  BY DEF CountSeconds, tracking
<1>3. IsRecording(recording) /\ Second \in Nat \ {0} /\ n \in Nat
  <2>1. IsRecording(recording) /\ Second \in Nat \ {0}
        /\ Len(recording.times) \in Frames
    BY RecordingFacts DEF TrackedSoFar
  <2>2. Time(Len(recording.times)) \in Nat
    BY <2>1, RecordingFacts
  <2> QED
    BY <2>1, <2>2
<1>4. /\ events' \in Seq(Event) /\ Len(events') \in Nat
      /\ \A k \in 1..Len(events') : events'[k] \in Event
      /\ \A j, k \in 1..Len(events') : j <= k => Time(events'[j][1]) <= Time(events'[k][1])
      /\ \A j, k \in 1..Len(events') : events'[j] = events'[k] => j = k
      /\ \A e \in Event :
            (\E k \in 1..Len(events') : events'[k] = e) <=> e[1] \in changes[e[2]]
  BY <1>2, SortedEvents
<1> HIDE DEF n
<1>5. /\ Len(ws) = n /\ DOMAIN ws = 1..n
      /\ \A k \in 1..n : ws[k].start = (k - 1) * Second /\ ws[k].end = k * Second
  BY <1>3
<1> HIDE DEF ws
<1>6. /\ HistogramSoFar' /\ entered' = 0 /\ gone' = 0
      /\ window' = 1 /\ found' = <<>> /\ windows' = ws /\ stage' = "seconds"
      /\ window' \in 1..Len(windows') + 1
  BY <1>2, <1>3, <1>4, <1>5, OpenedFacts
<1>7. EventsSoFar'
  <2>1. Event' = Event
    BY <1>2 DEF Event, Frames
  <2>2. \A k : EventTime(k)' = Time(events'[k][1])
    BY <1>2 DEF EventTime, Time
  <2> HIDE DEF CountingInv
  <2>3. \A j, k \in 1..Len(events') : j <= k => EventTime(j)' <= EventTime(k)'
    BY <1>4, <2>2
  <2> QED
    BY <1>2, <1>4, <1>6, <2>1, <2>3 DEF EventsSoFar
<1>8. \A k \in 1..n : ws[k].start \in Nat /\ ws[k].end = ws[k].start + Second
  <2>1. SUFFICES ASSUME NEW k \in 1..n
                 PROVE  (k - 1) * Second \in Nat /\ k * Second = (k - 1) * Second + Second
    BY <1>5
  <2> QED
    BY <1>3
<1>9. \A j, k \in 1..n : j <= k => ws[j].start <= ws[k].start
  <2>1. SUFFICES ASSUME NEW j \in 1..n, NEW k \in 1..n, j <= k
                 PROVE  (j - 1) * Second <= (k - 1) * Second
    BY <1>5
  <2> QED
    BY <1>3, <2>1
<1>10. WindowsSoFar'
  BY <1>3, <1>5, <1>6, <1>8, <1>9 DEF WindowsSoFar
<1>11. CountedSoFar'
  BY <1>3, <1>5, <1>6 DEF CountedSoFar
<1>12. JudgedSoFar'
  BY <1>2, <1>6 DEF JudgedSoFar
<1> QED
  BY <1>1, <1>6, <1>7, <1>10, <1>11, <1>12

LEMMA SlidingKeepsCounting == CountingInv /\ CountSliding => CountingInv'
<1> SUFFICES ASSUME CountingInv, CountSliding PROVE CountingInv'
  OBVIOUS
<1> USE DEF CountingInv
<1> DEFINE n == Len(recording.times)
           ws == [f \in Frames |-> [start |-> Time(f), end |-> Time(f) + Second]]
<1>1. TrackedSoFar'
  BY NextTracked DEF FlashNext
<1>2. /\ recording' = recording /\ changes' = changes /\ stage = "seconds"
      /\ perSecond' = found /\ flashStatus' = flashStatus /\ events' = events
      /\ window \notin DOMAIN windows
      /\ Open("sliding", ws)
  BY DEF CountSliding, tracking
<1>3. /\ IsRecording(recording) /\ Second \in Nat \ {0} /\ n \in Nat /\ Frames = 1..n
      /\ \A f \in Frames : Time(f) \in Nat
      /\ \A f, g \in Frames : f <= g => Time(f) <= Time(g)
  BY RecordingFacts DEF TrackedSoFar
<1>4. Len(events) \in Nat
  BY CountingFacts
<1>5. /\ Len(ws) = n /\ DOMAIN ws = 1..n
      /\ \A k \in 1..n : ws[k].start = Time(k) /\ ws[k].end = Time(k) + Second
  BY <1>3
<1> HIDE DEF ws
<1>6. /\ HistogramSoFar' /\ entered' = 0 /\ gone' = 0
      /\ window' = 1 /\ found' = <<>> /\ windows' = ws /\ stage' = "sliding"
      /\ window' \in 1..Len(windows') + 1
  BY <1>2, <1>3, <1>4, <1>5, OpenedFacts
<1>7. EventsSoFar'
  BY <1>2, <1>6 DEF EventsSoFar, EventTime, Time, Event, Frames
<1>8. WindowsSoFar'
  <2>1. Frames' = Frames /\ \A f : Time(f)' = Time(f)
    BY <1>2 DEF Frames, Time
  <2> HIDE DEF CountingInv
  <2>2. \A k \in 1..n : ws[k].start \in Nat /\ ws[k].end = ws[k].start + Second
    BY <1>3, <1>5
  <2>3. \A j, k \in 1..n : j <= k => ws[j].start <= ws[k].start
    BY <1>3, <1>5
  <2>4. Len(ws) = Len(recording'.times) /\ \A f \in Frames' : ws[f].start = Time(f)'
    BY <1>2, <1>3, <1>5, <2>1
  <2>5. windows' = ws /\ stage' = "sliding"
    BY <1>6
  <2> QED
    BY <1>3, <1>5, <2>2, <2>3, <2>4, <2>5 DEF WindowsSoFar
<1>9. CountedSoFar'
  BY <1>3, <1>5, <1>6 DEF CountedSoFar
<1>10. \A k \in 1..Len(found) : \E t \in Nat : found[k] = QualifiedIn(t, t + Second)
  <2>1. SUFFICES ASSUME NEW k \in 1..Len(found)
                 PROVE  \E t \in Nat : found[k] = QualifiedIn(t, t + Second)
    OBVIOUS
  <2>2. k \in 1..window - 1 /\ k \in 1..Len(windows)
    <3>1. window \in 1..Len(windows) + 1 /\ Len(windows) \in Nat /\ Len(found) = window - 1
      BY DEF CountedSoFar, WindowsSoFar
    <3> QED
      BY <2>1, <3>1
  <2>3. found[k] = QualifiedIn(windows[k].start, windows[k].end)
    BY <2>2 DEF CountedSoFar
  <2> QED
    BY <2>2, <2>3 DEF WindowsSoFar
<1>11. \A k \in 1..Len(found) : \E t \in Nat : found[k] = QualifiedIn(t, t + Second)'
  BY <1>2, <1>10, SameQualified
<1>12. JudgedSoFar'
  BY <1>2, <1>6, <1>11 DEF JudgedSoFar, CountedSoFar
<1> QED
  BY <1>1, <1>6, <1>7, <1>8, <1>9, <1>12

LEMMA EnterKeepsCounting == CountingInv /\ Enter => CountingInv'
<1> SUFFICES ASSUME CountingInv, Enter PROVE CountingInv'
  OBVIOUS
<1> DEFINE cell == events[entered + 1][2]
           last == Len(recording.times)
           In(e, c) == {k \in gone + 1..e : events[k][2] = c}
<1>1. TrackedSoFar'
  BY NextTracked DEF FlashNext, CountingInv
<1>2. /\ recording' = recording /\ changes' = changes /\ stage' = stage /\ events' = events
      /\ windows' = windows /\ window' = window /\ gone' = gone
      /\ found' = found /\ perSecond' = perSecond
      /\ worst' = worst /\ flashStatus' = flashStatus /\ entered' = entered + 1
      /\ stage \in {"seconds", "sliding"} /\ window \in DOMAIN windows
      /\ Due(entered, windows[window].end) /\ Bump(cell, 1)
  BY DEF Enter, Counting, tracking
<1>3. /\ IsRecording(recording) /\ Listed /\ Len(events) \in Nat /\ DOMAIN events = 1..Len(events)
      /\ entered \in Nat /\ gone \in Nat /\ DOMAIN windows = 1..Len(windows)
      /\ last \in Nat
  BY <1>2, CountingFacts, RecordingFacts
<1>4. /\ gone <= entered /\ entered + 1 \in 1..Len(events)
      /\ EventTime(entered + 1) < windows[window].end
      /\ cell \in Cells
  <2>1. gone <= entered
    BY DEF CountingInv, HistogramSoFar
  <2>2. entered + 1 \in 1..Len(events) /\ EventTime(entered + 1) < windows[window].end
    BY <1>2, <1>3 DEF Due, EventTime
  <2>3. cell \in Cells
    BY <1>3, <2>2, ListedFacts
  <2> QED
    BY <2>1, <2>2, <2>3
<1>5. \A e \in 0..Len(events) : \A c :
         IsFiniteSet(In(e, c)) /\ Cardinality(In(e, c)) \in 0..last
  <2>1. SUFFICES ASSUME NEW e \in 0..Len(events), NEW c
                 PROVE  IsFiniteSet(In(e, c)) /\ Cardinality(In(e, c)) \in 0..last
    OBVIOUS
  <2>2. gone + 1..e \in SUBSET (1..Len(events))
    BY <1>3
  <2> QED
    BY <1>3, <2>2, EventsOfCell
<1>6. entered \in 0..Len(events) /\ entered + 1 \in 0..Len(events)
  BY <1>3, <1>4
<1>7. /\ \A c : c # cell => In(entered + 1, c) = In(entered, c)
      /\ In(entered + 1, cell) = In(entered, cell) \cup {entered + 1}
      /\ entered + 1 \notin In(entered, cell)
  <2>1. \A k : k \in gone + 1..entered + 1 <=> (k \in gone + 1..entered \/ k = entered + 1)
    BY <1>3, <1>4
  <2>2. ~(entered + 1 \in gone + 1..entered)
    BY <1>3
  <2> QED
    BY <2>1, <2>2
<1>8. /\ counts = [c \in Cells |-> Cardinality(In(entered, c))]
      /\ hist = [n \in 0..last |-> Cardinality({c \in Cells : counts[c] = n})]
  BY DEF CountingInv, HistogramSoFar
<1> HIDE DEF In
<1>9. Cardinality(In(entered + 1, cell)) = Cardinality(In(entered, cell)) + 1
  BY <1>5, <1>6, <1>7, FS_AddElement
<1>10. /\ counts \in [Cells -> Nat] /\ counts[cell] \in 0..last
       /\ counts[cell] + 1 \in 0..last
  BY <1>3, <1>4, <1>5, <1>6, <1>8, <1>9
<1> HIDE DEF cell
<1>11. /\ counts' = [counts EXCEPT ![cell] = @ + 1]
       /\ hist' = [n \in 0..last |-> Cardinality({c \in Cells : counts'[c] = n})]
  <2>1. 1 \in Int /\ 1 # 0
    OBVIOUS
  <2> QED
    BY <1>2, <1>3, <1>4, <1>8, <1>10, <2>1, BumpFacts
<1>12. counts' = [c \in Cells |-> Cardinality(In(entered + 1, c))]
  <2>1. \A c \in Cells : counts'[c] = Cardinality(In(entered + 1, c))
    BY <1>4, <1>7, <1>8, <1>9, <1>11
  <2> QED
    BY <1>8, <1>11, <2>1
<1>13. HistogramSoFar'
  <2>1. entered' = entered + 1 /\ gone' = gone /\ events' = events /\ recording' = recording
    BY <1>2
  <2>2. entered' \in Nat /\ gone' \in Nat /\ gone' <= entered' /\ entered' <= Len(events')
    BY <1>3, <1>4, <2>1
  <2>3. counts' = [c \in Cells |->
                     Cardinality({k \in gone' + 1..entered' : events'[k][2] = c})]
    BY <1>12, <2>1 DEF In
  <2>4. hist' = [n \in 0..Len(recording'.times) |->
                   Cardinality({c \in Cells : counts'[c] = n})]
    BY <1>11, <2>1
  <2> QED
    BY <2>2, <2>3, <2>4 DEF HistogramSoFar
<1>14. CountedSoFar'
  <2>1. \A k : EventTime(k)' = EventTime(k)
    BY <1>2 DEF EventTime, Time
  <2>2. \A k \in 1..entered + 1 : k \in 1..entered \/ k = entered + 1
    BY <1>3
  <2>3. window <= Len(windows)
    BY <1>2, <1>3
  <2>4. CountedSoFar
    BY DEF CountingInv
  <2> QED
    BY <1>2, <1>4, <2>1, <2>2, <2>3, <2>4, SameQualified DEF CountedSoFar
<1>15. EventsSoFar' /\ WindowsSoFar'
  <2>1. EventsSoFar /\ WindowsSoFar
    BY DEF CountingInv
  <2> QED
    BY <1>2, <2>1 DEF EventsSoFar, WindowsSoFar, Event, Frames, EventTime, Time
<1>16. JudgedSoFar'
  <2>1. JudgedSoFar
    BY DEF CountingInv
  <2> QED
    BY <1>2, <2>1, SameQualified DEF JudgedSoFar
<1> QED
  BY <1>1, <1>13, <1>14, <1>15, <1>16 DEF CountingInv

LEMMA LeaveKeepsCounting == CountingInv /\ Leave => CountingInv'
<1> SUFFICES ASSUME CountingInv, Leave PROVE CountingInv'
  OBVIOUS
<1> DEFINE cell == events[gone + 1][2]
           last == Len(recording.times)
           In(g, c) == {k \in g + 1..entered : events[k][2] = c}
<1>1. TrackedSoFar'
  BY NextTracked DEF FlashNext, CountingInv
<1>2. /\ recording' = recording /\ changes' = changes /\ stage' = stage /\ events' = events
      /\ windows' = windows /\ window' = window /\ entered' = entered
      /\ found' = found /\ perSecond' = perSecond
      /\ worst' = worst /\ flashStatus' = flashStatus /\ gone' = gone + 1
      /\ stage \in {"seconds", "sliding"} /\ window \in DOMAIN windows
      /\ gone < entered /\ Due(gone, windows[window].start) /\ Bump(cell, -1)
  BY DEF Leave, Leaving, Counting, tracking
<1>3. /\ IsRecording(recording) /\ Listed /\ Len(events) \in Nat /\ DOMAIN events = 1..Len(events)
      /\ entered \in Nat /\ gone \in Nat /\ DOMAIN windows = 1..Len(windows)
      /\ last \in Nat
  BY <1>2, CountingFacts, RecordingFacts
<1>4. /\ gone + 1 <= entered /\ gone + 1 \in 1..Len(events) /\ entered <= Len(events)
      /\ EventTime(gone + 1) < windows[window].start
      /\ cell \in Cells
  <2>1. gone + 1 <= entered /\ entered <= Len(events)
    BY <1>2, <1>3 DEF CountingInv, HistogramSoFar
  <2>2. gone + 1 \in 1..Len(events) /\ EventTime(gone + 1) < windows[window].start
    BY <1>2, <1>3 DEF Due, EventTime
  <2>3. cell \in Cells
    BY <1>3, <2>2, ListedFacts
  <2> QED
    BY <2>1, <2>2, <2>3
<1>5. \A g \in Nat : \A c : IsFiniteSet(In(g, c)) /\ Cardinality(In(g, c)) \in 0..last
  <2>1. SUFFICES ASSUME NEW g \in Nat, NEW c
                 PROVE  IsFiniteSet(In(g, c)) /\ Cardinality(In(g, c)) \in 0..last
    OBVIOUS
  <2>2. g + 1..entered \in SUBSET (1..Len(events))
    BY <1>3, <1>4
  <2> QED
    BY <1>3, <2>2, EventsOfCell
<1>6. gone \in Nat /\ gone + 1 \in Nat
  BY <1>3
<1>7. /\ \A c : c # cell => In(gone + 1, c) = In(gone, c)
      /\ In(gone + 1, cell) = In(gone, cell) \ {gone + 1}
      /\ gone + 1 \in In(gone, cell)
  <2>1. \A k : k \in gone + 1..entered <=> (k \in (gone + 1) + 1..entered \/ k = gone + 1)
    BY <1>3, <1>4
  <2>2. ~(gone + 1 \in (gone + 1) + 1..entered)
    BY <1>3
  <2> QED
    BY <2>1, <2>2
<1>8. /\ counts = [c \in Cells |-> Cardinality(In(gone, c))]
      /\ hist = [n \in 0..last |-> Cardinality({c \in Cells : counts[c] = n})]
  BY DEF CountingInv, HistogramSoFar
<1> HIDE DEF In
<1>9. Cardinality(In(gone + 1, cell)) = Cardinality(In(gone, cell)) - 1
  BY <1>5, <1>6, <1>7, FS_RemoveElement
<1>10. /\ counts \in [Cells -> Nat] /\ counts[cell] \in 0..last
       /\ counts[cell] + (-1) \in 0..last
       /\ counts[cell] + (-1) = Cardinality(In(gone + 1, cell))
  BY <1>3, <1>4, <1>5, <1>6, <1>8, <1>9
<1> HIDE DEF cell
<1>11. /\ counts' = [counts EXCEPT ![cell] = @ + (-1)]
       /\ hist' = [n \in 0..last |-> Cardinality({c \in Cells : counts'[c] = n})]
  <2>1. -1 \in Int /\ -1 # 0
    OBVIOUS
  <2> QED
    BY <1>2, <1>3, <1>4, <1>8, <1>10, <2>1, BumpFacts
<1>12. counts' = [c \in Cells |-> Cardinality(In(gone + 1, c))]
  <2>1. \A c \in Cells : counts'[c] = Cardinality(In(gone + 1, c))
    BY <1>4, <1>7, <1>8, <1>10, <1>11
  <2> QED
    BY <1>8, <1>11, <2>1
<1>13. HistogramSoFar'
  <2>1. entered' = entered /\ gone' = gone + 1 /\ events' = events /\ recording' = recording
    BY <1>2
  <2>2. entered' \in Nat /\ gone' \in Nat /\ gone' <= entered' /\ entered' <= Len(events')
    BY <1>3, <1>4, <2>1
  <2>3. counts' = [c \in Cells |->
                     Cardinality({k \in gone' + 1..entered' : events'[k][2] = c})]
    BY <1>12, <2>1 DEF In
  <2>4. hist' = [n \in 0..Len(recording'.times) |->
                   Cardinality({c \in Cells : counts'[c] = n})]
    BY <1>11, <2>1
  <2> QED
    BY <2>2, <2>3, <2>4 DEF HistogramSoFar
<1>14. CountedSoFar'
  <2>1. \A k : EventTime(k)' = EventTime(k)
    BY <1>2 DEF EventTime, Time
  <2>2. \A k \in 1..gone + 1 : k \in 1..gone \/ k = gone + 1
    BY <1>3
  <2>3. window <= Len(windows)
    BY <1>2, <1>3
  <2>4. CountedSoFar
    BY DEF CountingInv
  <2> QED
    BY <1>2, <1>4, <2>1, <2>2, <2>3, <2>4, SameQualified DEF CountedSoFar
<1>15. EventsSoFar' /\ WindowsSoFar'
  <2>1. EventsSoFar /\ WindowsSoFar
    BY DEF CountingInv
  <2> QED
    BY <1>2, <2>1 DEF EventsSoFar, WindowsSoFar, Event, Frames, EventTime, Time
<1>16. JudgedSoFar'
  <2>1. JudgedSoFar
    BY DEF CountingInv
  <2> QED
    BY <1>2, <2>1, SameQualified DEF JudgedSoFar
<1> QED
  BY <1>1, <1>13, <1>14, <1>15, <1>16 DEF CountingInv

LEMMA WindowKeepsCounting == CountingInv /\ CountWindow => CountingInv'
<1> SUFFICES ASSUME CountingInv, CountWindow PROVE CountingInv'
  OBVIOUS
<1> DEFINE from == windows[window].start
           to == windows[window].end
<1>1. TrackedSoFar'
  BY NextTracked DEF FlashNext, CountingInv
<1>2. /\ recording' = recording /\ changes' = changes /\ stage' = stage /\ events' = events
      /\ windows' = windows /\ window' = window + 1 /\ entered' = entered /\ gone' = gone
      /\ counts' = counts /\ hist' = hist
      /\ found' = Append(found, Qualified) /\ perSecond' = perSecond
      /\ worst' = worst /\ flashStatus' = flashStatus
      /\ stage \in {"seconds", "sliding"} /\ window \in DOMAIN windows
      /\ ~Due(entered, to) /\ ~(gone < entered /\ Due(gone, from))
  BY DEF CountWindow, Leaving, Counting, tracking
<1>3. /\ IsRecording(recording) /\ Listed /\ Changing /\ Len(windows) \in Nat
      /\ DOMAIN windows = 1..Len(windows) /\ window \in 1..Len(windows)
      /\ entered \in Nat /\ gone \in Nat /\ entered <= Len(events) /\ gone <= entered
      /\ \A k \in 1..Len(windows) : windows[k].start \in Nat /\ windows[k].end \in Nat
      /\ \A k \in 1..Len(events) : EventTime(k) \in Nat
      /\ Len(events) \in Nat
  BY <1>2, CountingFacts DEF CountingInv, HistogramSoFar
<1>4. from \in Nat /\ to \in Nat
  BY <1>3
<1>5. /\ found \in Seq(Nat) /\ Len(found) = window - 1
      /\ \A k \in 1..entered : EventTime(k) < to
      /\ \A k \in 1..gone : EventTime(k) < from
      /\ \A w \in 1..window - 1 : found[w] = QualifiedIn(windows[w].start, windows[w].end)
  BY <1>3 DEF CountingInv, CountedSoFar
<1>6. Qualified = QualifiedIn(from, to) /\ Qualified \in Nat
  <2>1. TrackedSoFar /\ EventsSoFar /\ stage # "track" /\ HistogramSoFar
    BY <1>2 DEF CountingInv
  <2> HIDE DEF from, to
  <2>2. \A c \in Cells : counts[c] = ChangesIn(c, from, to)
    BY <1>2, <1>4, <1>5, <2>1, WindowIsExact
  <2>3. Qualified = QualifiedIn(from, to)
    BY <1>3, <2>1, <2>2, QualifiedIsExact
  <2>4. QualifiedIn(from, to) \in Nat
    BY <1>3, QualifiedFacts
  <2> QED
    BY <2>3, <2>4
<1>7. found' \in Seq(Nat) /\ Len(found') = window' - 1
      /\ \A w \in 1..window : found'[w] = QualifiedIn(windows[w].start, windows[w].end)
  <2>1. /\ found' \in Seq(Nat) /\ Len(found') = window /\ found'[window] = Qualified
        /\ \A w \in 1..window - 1 : found'[w] = found[w]
    BY <1>2, <1>3, <1>5, <1>6
  <2>2. \A w \in 1..window : w \in 1..window - 1 \/ w = window
    BY <1>3
  <2>3. window' - 1 = window
    BY <1>2, <1>3
  <2> QED
    BY <1>5, <1>6, <2>1, <2>2, <2>3
<1>8. ASSUME window + 1 <= Len(windows)
      PROVE  /\ \A k \in 1..entered : EventTime(k) < windows[window + 1].end
             /\ \A k \in 1..gone : EventTime(k) < windows[window + 1].start
  <2>1. window + 1 \in 1..Len(windows) /\ window <= window + 1
    BY <1>3, <1>8
  <2>2. from <= windows[window + 1].start /\ to <= windows[window + 1].end
    <3>1. /\ from <= windows[window + 1].start
          /\ to = from + Second /\ windows[window + 1].end = windows[window + 1].start + Second
      BY <1>3, <2>1 DEF CountingInv, WindowsSoFar
    <3>2. Second \in Nat
      BY FlashAssumption
    <3> QED
      BY <1>3, <1>4, <2>1, <3>1, <3>2
  <2>3. windows[window + 1].start \in Nat /\ windows[window + 1].end \in Nat
    BY <1>3, <2>1
  <2> HIDE DEF from, to
  <2>4. \A k \in 1..entered : k \in 1..Len(events)
    BY <1>3
  <2>5. \A k \in 1..gone : k \in 1..Len(events)
    BY <1>3
  <2>6. \A x, a, b \in Nat : x < a /\ a <= b => x < b
    OBVIOUS
  <2>7. \A k \in 1..entered : EventTime(k) < windows[window + 1].end
    BY <1>3, <1>4, <1>5, <2>2, <2>3, <2>4, <2>6
  <2>8. \A k \in 1..gone : EventTime(k) < windows[window + 1].start
    BY <1>3, <1>4, <1>5, <2>2, <2>3, <2>5, <2>6
  <2> QED
    BY <2>7, <2>8
<1>9. CountedSoFar'
  <2>1. \A k : EventTime(k)' = EventTime(k)
    BY <1>2 DEF EventTime, Time
  <2>2. window' \in 1..Len(windows') + 1
    BY <1>2, <1>3
  <2>3. window' = window + 1 /\ window' - 1 = window
    BY <1>2, <1>3
  <2> QED
    BY <1>2, <1>7, <1>8, <2>1, <2>2, <2>3, SameQualified DEF CountedSoFar
<1>10. EventsSoFar' /\ WindowsSoFar' /\ HistogramSoFar'
  <2>1. EventsSoFar /\ WindowsSoFar /\ HistogramSoFar
    BY DEF CountingInv
  <2> QED
    BY <1>2, <2>1 DEF EventsSoFar, WindowsSoFar, HistogramSoFar, Event, Frames, EventTime, Time
<1>11. JudgedSoFar'
  <2>1. JudgedSoFar
    BY DEF CountingInv
  <2> QED
    BY <1>2, <2>1, SameQualified DEF JudgedSoFar
<1> QED
  BY <1>1, <1>9, <1>10, <1>11 DEF CountingInv

\* There is a worst window, and a first of them.
LEMMA FirstWorst ==
    ASSUME NEW s \in Seq(Nat), Len(s) # 0
    PROVE  \E k \in DOMAIN s : /\ \A j \in DOMAIN s : s[j] <= s[k]
                               /\ \A j \in DOMAIN s : j < k => s[j] < s[k]
<1> DEFINE D == 1..Len(s)
           R == {p \in D \X D : s[p[1]] > s[p[2]] \/ (s[p[1]] = s[p[2]] /\ p[1] < p[2])}
<1>1. Len(s) \in Nat /\ DOMAIN s = 1..Len(s) /\ \A k \in 1..Len(s) : s[k] \in Nat
  BY ElementsFacts
<1>2. IsFiniteSet(D) /\ D # {} /\ D \subseteq Nat
  <2>1. 1 \in D
    BY <1>1
  <2> QED
    BY <1>1, <2>1, IndicesFacts
<1>3. \A j, k \in D : <<j, k>> \in R <=> (s[j] > s[k] \/ (s[j] = s[k] /\ j < k))
  OBVIOUS
<1>4. DOMAIN s = D /\ \A k \in D : s[k] \in Nat
  BY <1>1
<1> HIDE DEF R, D
<1>5. StrictOrder(D, R)
  BY <1>2, <1>3, <1>4 DEF StrictOrder
<1>6. PICK k \in D : \A j \in D : k = j \/ <<k, j>> \in R
  BY <1>2, <1>5, LeastExists
<1>7. \A j \in D : k = j \/ s[k] > s[j] \/ (s[k] = s[j] /\ k < j)
  BY <1>3, <1>6
<1>8. \A j \in D : s[j] <= s[k] /\ (j < k => s[j] < s[k])
  BY <1>2, <1>4, <1>7
<1> QED
  BY <1>4, <1>8

LEMMA JudgeKeepsCounting == CountingInv /\ Judge => CountingInv'
<1> SUFFICES ASSUME CountingInv, Judge PROVE CountingInv'
  OBVIOUS
<1>1. TrackedSoFar'
  BY NextTracked DEF FlashNext, CountingInv
<1>2. /\ recording' = recording /\ changes' = changes /\ stage' = "done" /\ events' = events
      /\ windows' = windows /\ window' = window /\ entered' = entered /\ gone' = gone
      /\ counts' = counts /\ hist' = hist /\ found' = found /\ perSecond' = perSecond
      /\ stage = "sliding" /\ window \notin DOMAIN windows
      /\ worst' = CHOOSE k \in DOMAIN found :
                     /\ \A j \in DOMAIN found : found[j] <= found[k]
                     /\ \A j \in DOMAIN found : j < k => found[j] < found[k]
      /\ flashStatus' = IF found[worst'] > 2 * recording.limit THEN "FAIL" ELSE "PASS"
  BY DEF Judge, tracking, sliding
<1>3. /\ Len(windows) \in Nat /\ DOMAIN windows = 1..Len(windows) /\ window \in Nat \ {0}
      /\ Len(windows) # 0
  <2>1. IsRecording(recording) /\ Len(windows) \in Nat /\ DOMAIN windows = 1..Len(windows)
        /\ window \in Nat \ {0}
    BY CountingFacts
  <2>2. Len(windows) = Len(recording.times)
    BY <1>2 DEF CountingInv, WindowsSoFar
  <2> QED
    BY <2>1, <2>2, RecordingFacts
<1>4. found \in Seq(Nat) /\ Len(found) = window - 1 /\ window \in 1..Len(windows) + 1
  BY DEF CountingInv, CountedSoFar
<1>5. window = Len(windows) + 1 /\ Len(found) # 0
  BY <1>2, <1>3, <1>4
<1>6. worst' \in DOMAIN found /\ \A j \in DOMAIN found : found[j] <= found[worst']
  <2>1. \E k \in DOMAIN found : /\ \A j \in DOMAIN found : found[j] <= found[k]
                                /\ \A j \in DOMAIN found : j < k => found[j] < found[k]
    BY <1>4, <1>5, FirstWorst
  <2> QED
    BY <1>2, <2>1, Zenon
<1>7. EventsSoFar' /\ WindowsSoFar' /\ HistogramSoFar'
  <2>1. EventsSoFar /\ WindowsSoFar /\ HistogramSoFar
    BY DEF CountingInv
  <2> QED
    BY <1>2, <2>1 DEF EventsSoFar, WindowsSoFar, HistogramSoFar, Event, Frames, EventTime, Time
<1>8. CountedSoFar'
  <2>1. CountedSoFar
    BY DEF CountingInv
  <2>2. \A k : EventTime(k)' = EventTime(k)
    BY <1>2 DEF EventTime, Time
  <2> QED
    BY <1>2, <2>1, <2>2, SameQualified DEF CountedSoFar
<1>9. JudgedSoFar'
  <2>1. JudgedSoFar
    BY DEF CountingInv
  <2>2. \A k \in 1..Len(perSecond) : \E t \in Nat : perSecond[k] = QualifiedIn(t, t + Second)'
    BY <1>2, <2>1, SameQualified DEF JudgedSoFar
  <2> QED
    BY <1>2, <1>5, <1>6, <2>1, <2>2 DEF JudgedSoFar
<1> QED
  BY <1>1, <1>7, <1>8, <1>9 DEF CountingInv

\* The incremental count never goes wrong: events come in once and leave once,
\* in time order, and what each window found is what its changes ask for
\* (temporal.py 158-220).
THEOREM CountingInvariant == FlashSpec => []CountingInv
<1>1. CountingInv /\ [FlashNext]_flashVars => CountingInv'
  BY TrackKeepsCounting, SecondsKeepsCounting, EnterKeepsCounting, LeaveKeepsCounting,
     WindowKeepsCounting, SlidingKeepsCounting, JudgeKeepsCounting, StutterKeepsCounting
  DEF FlashNext
<1> QED
  BY InitCounting, <1>1, PTL DEF FlashSpec


----------------------------------------------------------------------------
(* What was counted is what is asked.                                      *)

\* The type invariant of the analysis: the histogram always says how many
\* cells have how many changes between the two ends of the window
\* (temporal.py 158-189).
THEOREM FlashTypeCorrect == FlashSpec => []FlashTypeOK
<1>1. CountingInv => FlashTypeOK
  <2> SUFFICES ASSUME CountingInv PROVE FlashTypeOK
    OBVIOUS
  <2>1. /\ IsRecording(recording)
        /\ frame \in 2..Len(recording.times) + 1
        /\ tracker \in [Cells -> [direction : {-1, 0, 1}, lo : Nat, hi : Nat]]
    BY DEF CountingInv, TrackedSoFar
  <2>2. changes \in [Cells -> SUBSET Frames]
    BY CountingFacts DEF Changing
  <2>3. /\ entered \in Nat /\ gone \in Nat /\ gone <= entered /\ entered <= Len(events)
        /\ counts = [c \in Cells |-> Cardinality({k \in gone + 1..entered : events[k][2] = c})]
        /\ hist = [n \in 0..Len(recording.times) |-> Cardinality({c \in Cells : counts[c] = n})]
    BY DEF CountingInv, HistogramSoFar
  <2>4. /\ stage \in {"track", "seconds", "sliding", "done"}
        /\ flashStatus \in {"none", "PASS", "FAIL"}
    BY DEF CountingInv, JudgedSoFar
  <2>5. 0 <= gone
    BY <2>3
  <2> QED
    BY <2>1, <2>2, <2>3, <2>4, <2>5 DEF FlashTypeOK
<1> QED
  BY CountingInvariant, <1>1, PTL

\* Of all the seconds of a video, one that starts at a frame is among the worst.
LEMMA FramesAreEnough ==
    ASSUME Changing, NEW t \in Nat
    PROVE  \E f \in Frames : QualifiedIn(t, t + Second) <= QualifiedIn(Time(f), Time(f) + Second)
<1> DEFINE later == {f \in Frames : Time(f) >= t}
<1>1. /\ Len(recording.times) \in Nat \ {0} /\ Frames = 1..Len(recording.times)
      /\ \A f \in Frames : Time(f) \in Nat
      /\ \A f, g \in Frames : f <= g => Time(f) <= Time(g)
      /\ Second \in Nat \ {0}
  BY RecordingFacts DEF Changing
<1>2. \E f \in Frames : \A g \in Frames :
         t <= Time(g) /\ Time(g) < t + Second => Time(f) <= Time(g) /\ Time(g) < Time(f) + Second
  <2>1. CASE later = {}
    <3>1. 1 \in Frames
      BY <1>1
    <3>2. \A g \in Frames : ~(t <= Time(g))
      BY <1>1, <2>1
    <3> QED
      BY <3>1, <3>2
  <2>2. CASE later # {}
    <3>1. later \in SUBSET (1..Len(recording.times)) /\ Len(recording.times) \in Nat
      BY <1>1
    <3> HIDE DEF later
    <3>2. PICK f \in later : \A g \in later : f <= g
      BY <2>2, <3>1, LeastIndex
    <3>3. f \in Frames /\ t <= Time(f)
      BY <1>1 DEF later
    <3>4. ASSUME NEW g \in Frames, t <= Time(g), Time(g) < t + Second
          PROVE  Time(f) <= Time(g) /\ Time(g) < Time(f) + Second
      <4>1. g \in later
        BY <1>1, <3>4 DEF later
      <4>2. Time(f) <= Time(g)
        BY <1>1, <3>2, <3>3, <4>1
      <4> QED
        BY <1>1, <3>3, <3>4, <4>2
    <3> QED
      BY <3>3, <3>4
  <2> QED
    BY <2>1, <2>2
<1>3. PICK f \in Frames : \A g \in Frames :
         t <= Time(g) /\ Time(g) < t + Second => Time(f) <= Time(g) /\ Time(g) < Time(f) + Second
  BY <1>2
<1>4. \A c \in Cells : ChangesIn(c, t, t + Second) <= ChangesIn(c, Time(f), Time(f) + Second)
  BY <1>3, WiderWindow
<1> QED
  BY <1>4, QualifiedGrows

\* Too much of the screen changes too often in a second exactly if its count
\* exceeds the limit.
LEMMA TooManyFacts ==
    ASSUME Changing, NEW t \in Nat
    PROVE  TooMany(t) <=> QualifiedIn(t, t + Second) > 2 * recording.limit
<1> DEFINE limit == 2 * recording.limit
           over == {c \in Cells : ChangesIn(c, t, t + Second) > limit}
           size == Cardinality(over)
<1>1. limit \in Nat /\ IsRecording(recording) /\ IsFiniteSet(Cells)
  BY RecordingFacts DEF Changing
<1>2. over = Reaching(limit + 1, t, t + Second)
  <2>1. \A c \in Cells : ChangesIn(c, t, t + Second) \in Nat
    <3> SUFFICES ASSUME NEW c \in Cells PROVE ChangesIn(c, t, t + Second) \in Nat
      OBVIOUS
    <3>1. ChangesIn(c, t, t + Second) \in 0..Len(recording.times)
      BY ChangesInFacts
    <3>2. Len(recording.times) \in Nat
      BY <1>1, RecordingFacts
    <3> QED
      BY <3>1, <3>2
  <2>2. \A c \in Cells : ChangesIn(c, t, t + Second) > limit
                            <=> ChangesIn(c, t, t + Second) >= limit + 1
    BY <1>1, <2>1
  <2> QED
    BY <2>2 DEF Reaching
<1>3. TooMany(t) <=> \/ size * recording.whole > recording.part * Cardinality(Cells)
                     \/ over = Cells
  BY DEF TooMany
<1> HIDE DEF over, limit
<1>4. over \in SUBSET Cells /\ size \in 0..Cardinality(Cells)
  BY <1>2, ReachingFacts
<1>5. over = Cells <=> size = Cardinality(Cells)
  BY <1>1, <1>4, FS_Subset
<1>6. size >= Needed(recording) <=>
         \/ size * recording.whole > recording.part * Cardinality(Cells)
         \/ size = Cardinality(Cells)
  <2> HIDE DEF size
  <2> QED
    BY <1>1, <1>4, NeededFacts
<1>7. QualifiedIn(t, t + Second) > limit <=> size >= Needed(recording)
  BY <1>1, <1>2, QualifiedFacts
<1> QED
  BY <1>3, <1>5, <1>6, <1>7 DEF limit

\* A video fails exactly if in some second, wherever it starts, too much of the
\* screen changes too often, although only the windows that start at a frame
\* are counted, and incrementally; and no whole second in the evidence is worse
\* than the worst window (temporal.py 192-220, rules.py 476-508).
THEOREM WorstWindowIsWorst == FlashSpec => []WorstIsWorst
<1>1. CountingInv => WorstIsWorst
  <2> SUFFICES ASSUME CountingInv, stage = "done"
               PROVE  /\ flashStatus = "FAIL"
                           <=> \E t \in 0..Time(Len(recording.times)) : TooMany(t)
                      /\ \A k \in DOMAIN perSecond : perSecond[k] <= found[worst]
    BY DEF WorstIsWorst
  <2> DEFINE last == Len(recording.times)
             limit == 2 * recording.limit
             In(t) == QualifiedIn(t, t + Second)
  <2>1. /\ Changing /\ last \in Nat \ {0} /\ Frames = 1..last
        /\ \A f \in Frames : Time(f) \in Nat
        /\ \A f, g \in Frames : f <= g => Time(f) <= Time(g)
        /\ limit \in Nat
    BY CountingFacts, RecordingFacts
  <2>2. \A t \in Nat : In(t) \in Nat
    BY <2>1, QualifiedFacts
  <2>3. DOMAIN found = Frames /\ \A f \in Frames : found[f] = In(Time(f))
    <3>1. /\ Len(windows) = last /\ \A f \in Frames : windows[f].start = Time(f)
          /\ \A f \in Frames : windows[f].end = windows[f].start + Second
      BY <2>1 DEF CountingInv, WindowsSoFar
    <3>2. /\ window = Len(windows) + 1
          /\ found \in Seq(Nat) /\ Len(found) = window - 1
          /\ \A w \in 1..window - 1 : found[w] = QualifiedIn(windows[w].start, windows[w].end)
      BY DEF CountingInv, CountedSoFar, JudgedSoFar
    <3>3. window - 1 = last
      BY <2>1, <3>1, <3>2
    <3>4. DOMAIN found = Frames /\ DOMAIN found = 1..window - 1
      BY <2>1, <3>2, <3>3
    <3>5. \A f \in Frames : found[f] = QualifiedIn(windows[f].start, windows[f].end)
      BY <3>2, <3>4
    <3>6. \A f \in Frames : windows[f].start = Time(f) /\ windows[f].end = Time(f) + Second
      BY <3>1
    <3> QED
      BY <3>4, <3>5, <3>6
  <2>4. /\ worst \in Frames /\ \A f \in Frames : found[f] <= found[worst]
        /\ flashStatus = IF found[worst] > limit THEN "FAIL" ELSE "PASS"
    BY <2>3 DEF CountingInv, JudgedSoFar
  <2> HIDE DEF In, limit
  <2>5. \A t \in Nat : In(t) <= found[worst]
    <3> SUFFICES ASSUME NEW t \in Nat PROVE In(t) <= found[worst]
      OBVIOUS
    <3>1. PICK f \in Frames : In(t) <= In(Time(f))
      BY <2>1, FramesAreEnough DEF In
    <3>2. In(Time(f)) <= found[worst] /\ In(Time(f)) \in Nat /\ found[worst] \in Nat
      BY <2>1, <2>2, <2>3, <2>4
    <3> QED
      BY <2>2, <3>1, <3>2
  <2>6. \A t \in Nat : TooMany(t) <=> In(t) > limit
    BY <2>1, TooManyFacts DEF In, limit
  <2>7. flashStatus = "FAIL" <=> \E t \in 0..Time(last) : TooMany(t)
    <3>1. Time(worst) \in 0..Time(last) /\ Time(last) \in Nat
      BY <2>1, <2>4
    <3>2. found[worst] = In(Time(worst)) /\ found[worst] \in Nat
      BY <2>1, <2>2, <2>3, <2>4
    <3>3. CASE found[worst] > limit
      BY <2>4, <2>6, <3>1, <3>2, <3>3
    <3>4. CASE ~(found[worst] > limit)
      <4>1. \A t \in Nat : ~(In(t) > limit)
        BY <2>1, <2>2, <2>5, <3>2, <3>4
      <4>2. \A t \in 0..Time(last) : ~TooMany(t)
        BY <2>6, <3>1, <4>1
      <4> QED
        BY <2>4, <3>4, <4>2
    <3> QED
      BY <3>3, <3>4
  <2>8. \A k \in DOMAIN perSecond : perSecond[k] <= found[worst]
    <3> SUFFICES ASSUME NEW k \in DOMAIN perSecond PROVE perSecond[k] <= found[worst]
      OBVIOUS
    <3>1. /\ perSecond \in Seq(Nat)
          /\ \A j \in 1..Len(perSecond) : \E t \in Nat : perSecond[j] = In(t)
      BY DEF CountingInv, JudgedSoFar, In
    <3>2. PICK t \in Nat : perSecond[k] = In(t)
      BY <3>1
    <3> QED
      BY <2>5, <3>2
  <2> QED
    BY <2>7, <2>8
<1> QED
  BY CountingInvariant, <1>1, PTL
=============================================================================
