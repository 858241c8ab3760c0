------------------------ MODULE RequestParsingProofs ------------------------
(***************************************************************************)
(* Theorems about RequestParsing, for any documents.                       *)
(***************************************************************************)
EXTENDS RequestParsing, TimelineProofs

(***************************************************************************)
(* Least elements, which stand in for induction.                           *)
(***************************************************************************)

\* Were there none, the numbers below all of S would go on for ever.
LEMMA LeastNumber ==
    ASSUME NEW n \in Nat, NEW S \in SUBSET (0..n), S # {}
    PROVE  \E x \in S : \A y \in S : x <= y
<1> SUFFICES ASSUME \A x \in S : \E y \in S : y < x
             PROVE  FALSE
  OBVIOUS
<1> DEFINE Low == {x \in 0..n : \A y \in S : x < y}
           next == [x \in Low |-> x + 1]
<1>1. 0 \in Low
  OBVIOUS
<1>2. ASSUME NEW x \in Low PROVE x + 1 \in Low
  <2>1. x \in Nat /\ \A y \in S : y \in Nat /\ y <= n /\ x < y
    OBVIOUS
  <2>2. ASSUME NEW y \in S PROVE x + 1 < y
    <3>1. PICK z \in S : z < y
      OBVIOUS
    <3> QED
      BY <2>1, <3>1
  <2>3. x + 1 \in 0..n
    <3>1. PICK y \in S : TRUE
      OBVIOUS
    <3> QED
      BY <2>1, <3>1
  <2> QED
    BY <2>2, <2>3
<1>3. next \in [Low -> Low] /\ \A x, y \in Low : next[x] = next[y] => x = y
  <2>1. \A x \in Low : x + 1 \in Low /\ x \in Nat
    BY <1>2
  <2> HIDE DEF Low
  <2> QED
    BY <2>1
<1>4. \A x \in Low : next[x] # 0
  OBVIOUS
<1>5. IsFiniteSet(Low)
  <2>1. IsFiniteSet(0..n)
    BY FS_Interval
  <2> QED
    BY <2>1, FS_Subset
<1> HIDE DEF Low, next
<1>6. next \in Injection(Low, Low)
  BY <1>3 DEF Injection, IsInjective
<1>7. next \in Surjection(Low, Low)
  BY <1>5, <1>6, FS_Injection
<1> QED
  BY <1>1, <1>4, <1>7 DEF Surjection

(***************************************************************************)
(* The values within a value: what its recursion gives.                    *)
(***************************************************************************)
OneMore(S, skip) == UNION {{w} \cup Inner(w, skip) : w \in S}
Level(f, v, skip, d) == IF d = 0 THEN {v} ELSE OneMore(f[d - 1], skip)
AreLevels(f, v, skip, n) == f = [d \in 0..n |-> Level(f, v, skip, d)]

\* The levels are well defined: they are built one after the other.
LEMMA LevelsExist ==
    ASSUME NEW v, NEW skip, NEW n \in Nat
    PROVE  \E g : AreLevels(g, v, skip, n)
<1> DEFINE Known(m) == \E g : g = [d \in 0..m |-> Level(g, v, skip, d)]
           Bad == {m \in 0..n : ~Known(m)}
<1>1. Known(0)
  <2> DEFINE g == [d \in 0..0 |-> {v}]
  <2>1. g = [d \in 0..0 |-> Level(g, v, skip, d)]
    BY DEF Level
  <2> QED
    BY <2>1, Zenon
<1>2. ASSUME NEW m \in 1..n, Known(m - 1) PROVE Known(m)
  <2>1. PICK g : g = [d \in 0..m - 1 |-> Level(g, v, skip, d)]
    BY <1>2
  <2> DEFINE h == [d \in 0..m |-> IF d = m THEN OneMore(g[m - 1], skip) ELSE g[d]]
  <2>2. ASSUME NEW d \in 0..m PROVE h[d] = Level(h, v, skip, d)
    <3>1. CASE d = m
      <4>1. h[d] = OneMore(g[m - 1], skip) /\ h[m - 1] = g[m - 1] /\ d # 0
        BY <3>1
      <4> HIDE DEF h
      <4> QED
        BY <3>1, <4>1 DEF Level
    <3>2. CASE d # m /\ d # 0
      <4>1. d \in 0..m - 1 /\ d - 1 \in 0..m /\ d - 1 # m
        BY <3>2
      <4>2. h[d] = g[d] /\ h[d - 1] = g[d - 1]
        BY <3>2, <4>1
      <4>3. g[d] = Level(g, v, skip, d)
        BY <2>1, <4>1
      <4> HIDE DEF h
      <4> QED
        BY <3>2, <4>2, <4>3 DEF Level
    <3>3. CASE d # m /\ d = 0
      <4>1. d \in 0..m - 1 /\ h[d] = g[d]
        BY <3>3
      <4>2. g[d] = Level(g, v, skip, d)
        BY <2>1, <4>1
      <4> HIDE DEF h
      <4> QED
        BY <3>3, <4>1, <4>2 DEF Level
    <3> QED
      BY <3>1, <3>2, <3>3
  <2>3. h = [d \in 0..m |-> h[d]]
    OBVIOUS
  <2> HIDE DEF h
  <2>4. h = [d \in 0..m |-> Level(h, v, skip, d)]
    BY <2>2, <2>3, Zenon
  <2> QED
    BY <2>4, Zenon
<1> HIDE DEF Known
<1>3. Bad = {}
  <2> SUFFICES ASSUME Bad # {} PROVE FALSE
    OBVIOUS
  <2>1. Bad \in SUBSET (0..n)
    OBVIOUS
  <2>2. PICK m \in Bad : \A k \in Bad : m <= k
    <3> HIDE DEF Bad
    <3> QED
      BY <2>1, LeastNumber
  <2>3. m \in 1..n
    BY <1>1, <2>1
  <2>4. m - 1 \notin Bad
    BY <2>2, <2>3
  <2>5. Known(m - 1)
    BY <2>3, <2>4
  <2> QED
    BY <1>2, <2>3, <2>5
<1>4. Known(n)
  BY <1>3
<1> QED
  BY <1>4 DEF Known, AreLevels

\* A value is within itself, and whatever holds the value and, with each value,
\* those next inside it, holds all that is within.
LEMMA WithinFacts ==
    ASSUME NEW v, NEW skip
    PROVE  /\ v \in Within(v, skip)
           /\ \A C : v \in C /\ (\A w \in C : Inner(w, skip) \subseteq C)
                 => Within(v, skip) \subseteq C
<1> DEFINE Closed(C) == v \in C /\ \A w \in C : Inner(w, skip) \subseteq C
           to == CHOOSE g : g = [d \in 0..Depth |-> Level(g, v, skip, d)]
<1>0. Depth \in Nat
  BY DocumentAssumption
<1>1. Within(v, skip) = to[Depth]
  BY DEF Within, Level, OneMore
<1>2. to = [d \in 0..Depth |-> Level(to, v, skip, d)]
  <2>1. \E g : AreLevels(g, v, skip, Depth)
    BY <1>0, LevelsExist
  <2> QED
    BY <2>1, Zenon DEF AreLevels
<1> HIDE DEF to
<1>3. \A d \in 0..Depth : to[d] = Level(to, v, skip, d)
  BY <1>2, Zenon
<1>4. ASSUME NEW C
      PROVE  \A d \in 0..Depth :
                v \in to[d] /\ (Closed(C) => to[d] \subseteq C)
  <2> DEFINE Bad == {d \in 0..Depth : ~(v \in to[d] /\ (Closed(C) => to[d] \subseteq C))}
  <2> SUFFICES ASSUME Bad # {} PROVE FALSE
    OBVIOUS
  <2>1. Bad \in SUBSET (0..Depth)
    OBVIOUS
  <2>2. PICK d \in Bad : \A k \in Bad : d <= k
    <3> HIDE DEF Bad
    <3> QED
      BY <1>0, <2>1, LeastNumber
  <2>3. d \in 0..Depth /\ to[d] = Level(to, v, skip, d)
    BY <1>3
  <2>4. CASE d = 0
    BY <2>3, <2>4 DEF Level
  <2>5. CASE d # 0
    <3>1. d - 1 \in 0..Depth /\ d - 1 \notin Bad
      BY <1>0, <2>2, <2>3, <2>5
    <3>2. v \in to[d - 1] /\ (Closed(C) => to[d - 1] \subseteq C)
      BY <3>1
    <3>3. to[d] = OneMore(to[d - 1], skip)
      BY <2>3, <2>5 DEF Level
    <3>4. v \in to[d] /\ (Closed(C) => to[d] \subseteq C)
      BY <3>2, <3>3 DEF OneMore
    <3> QED
      BY <3>4
  <2> QED
    BY <2>4, <2>5
<1>5. Depth \in 0..Depth
  BY <1>0
<1> QED
  BY <1>1, <1>4, <1>5

(***************************************************************************)
(* Values that hold no rule: at most four levels of them, none with a key  *)
(* that names a rule, and no speed that cannot be divided by.              *)
(***************************************************************************)
Scalar(w) == w.is \notin {"object", "list"}

Settled(w) ==
    w.is = "object" => /\ DOMAIN w.at \cap {"video", "timeline_integrity"} = {}
                       /\ Given(w, "speed") => ~Below(w.at.speed, 1)

Quiet1(w) == Settled(w) /\ \A x \in Inner(w, {"limits"}) : Scalar(x)
Quiet2(w) == Settled(w) /\ \A x \in Inner(w, {"limits"}) : Quiet1(x)
Quiet3(w) == Settled(w) /\ \A x \in Inner(w, {"limits"}) : Quiet2(x)
Quiet4(w) == Settled(w) /\ \A x \in Inner(w, {"limits"}) : Quiet3(x)

LEMMA QuietGrows ==
    /\ \A w : Scalar(w) => Quiet1(w)
    /\ \A w : Quiet1(w) => Quiet2(w)
    /\ \A w : Quiet2(w) => Quiet3(w)
    /\ \A w : Quiet3(w) => Quiet4(w)
<1>1. ASSUME NEW w, Scalar(w) PROVE Quiet1(w)
  BY <1>1 DEF Scalar, Quiet1, Settled, Inner
<1>2. ASSUME NEW w, Quiet1(w) PROVE Quiet2(w)
  BY <1>1, <1>2 DEF Quiet1, Quiet2
<1>3. ASSUME NEW w, Quiet2(w) PROVE Quiet3(w)
  BY <1>2, <1>3 DEF Quiet2, Quiet3
<1>4. ASSUME NEW w, Quiet3(w) PROVE Quiet4(w)
  BY <1>3, <1>4 DEF Quiet3, Quiet4
<1> QED
  BY <1>1, <1>2, <1>3, <1>4

\* What is next inside a list or an object.
LEMMA InnerFacts ==
    ASSUME NEW w, NEW skip
    PROVE  /\ w.is = "list" => Inner(w, skip) = Items(w)
           /\ w.is = "object" => Inner(w, skip) = {w.at[k] : k \in DOMAIN w.at \ skip}
BY DEF Inner

\* Numbers are what they are compared as.
LEMMA AmountFacts ==
    ASSUME NEW v, IsValue(v)
    PROVE  /\ IsNumber(v) => Scalar(v)
           /\ IsAmount(v) => Scalar(v) /\ ~Below(v, 0)
           /\ IsPositive(v) => Scalar(v) /\ ~Below(v, 1)
<1>1. IsNumber(v) => Scalar(v)
  BY DEF IsNumber, Scalar
<1>2. IsAmount(v) => Scalar(v) /\ ~Below(v, 0)
  BY <1>1 DEF IsAmount
<1>3. ASSUME IsPositive(v) PROVE ~Below(v, 1)
  <2>1. IsAmount(v) /\ v # Number(0)
    BY <1>3 DEF IsPositive
  <2>2. SUFFICES ASSUME v.is = "number" PROVE ~(v.tenths < 1)
    BY DEF Below
  <2>3. v = Number(v.tenths) /\ v.tenths \in Int
    BY <2>2 DEF IsValue, Nothing, NotANumber, Flag
  <2>4. v.tenths # 0
    BY <2>1, <2>3
  <2>5. ~(v.tenths < 0)
    BY <2>1, <2>2 DEF IsAmount, Below
  <2> QED
    BY <2>3, <2>4, <2>5
<1> QED
  BY <1>1, <1>2, <1>3 DEF IsPositive

LEMMA ListIsQuiet ==
    ASSUME NEW w, w.is = "list"
    PROVE  /\ (\A x \in Items(w) : Scalar(x)) => Quiet1(w)
           /\ (\A x \in Items(w) : Quiet1(x)) => Quiet2(w)
           /\ (\A x \in Items(w) : Quiet2(x)) => Quiet3(w)
BY InnerFacts DEF Quiet1, Quiet2, Quiet3, Settled

LEMMA RegionIsQuiet ==
    ASSUME NEW v, IsRegion(v)
    PROVE  Quiet2(v)
<1>1. /\ v.is = "object" /\ DOMAIN v.at = {"t", "box", "role"}
      /\ v.at.t.is \in {"number", "nan"} /\ v.at.role.is = "text" /\ v.at.box.is = "list"
      /\ \A n \in Items(v.at.box) : n.is = "number"
  BY DEF IsRegion, HasOnly, IsAmount, IsNumber, OneOf
<1>2. Scalar(v.at.t) /\ Scalar(v.at.role)
  BY <1>1 DEF Scalar
<1>3. Quiet1(v.at.box)
  <2>1. \A n \in Items(v.at.box) : Scalar(n)
    BY <1>1 DEF Scalar
  <2> QED
    BY <1>1, <2>1, ListIsQuiet
<1>4. Settled(v)
  BY <1>1 DEF Settled, Given
<1>5. \A x \in Inner(v, {"limits"}) : x = v.at.t \/ x = v.at.role \/ x = v.at.box
  BY <1>1, InnerFacts
<1> QED
  BY <1>2, <1>3, <1>4, <1>5, QuietGrows DEF Quiet2

LEMMA VideoRuleIsQuiet ==
    ASSUME NEW v, IsVideoRule(v)
    PROVE  Quiet4(v)
<1>1. v.is = "object" /\ DOMAIN v.at \subseteq VideoFields
  BY DEF IsVideoRule, HasOnly
<1>2. Settled(v)
  BY <1>1 DEF Settled, Given, VideoFields, VideoAmounts, VideoLists
<1>3. ASSUME NEW k \in DOMAIN v.at, k # "limits" PROVE Quiet3(v.at[k])
  <2>1. CASE k \in VideoAmounts
    <3>1. v.at[k].is \in {"number", "nan"}
      BY <2>1 DEF IsVideoRule, IsAmount, IsNumber
    <3> QED
      BY <3>1, QuietGrows DEF Scalar
  <2>2. CASE k = "check_photosensitivity"
    <3>1. v.at[k].is \in {"null", "bool"}
      BY <2>2 DEF IsVideoRule, Field, Default, Given
    <3> QED
      BY <3>1, QuietGrows DEF Scalar
  <2>3. CASE k = "allow_extra_cuts"
    <3>1. v.at[k].is = "bool"
      BY <2>3 DEF IsVideoRule, Default, Given
    <3> QED
      BY <3>1, QuietGrows DEF Scalar
  <2>4. CASE v.at[k] = Nothing
    <3>1. v.at[k].is = "null"
      BY <2>4 DEF Nothing
    <3> QED
      BY <3>1, QuietGrows DEF Scalar
  <2>5. CASE k = "reference_metrics" /\ v.at[k] # Nothing
    <3>1. IsMetrics(v.at[k])
      BY <2>5 DEF IsVideoRule, Field, Default, Given
    <3>2. v.at[k].is = "list" /\ \A m \in Items(v.at[k]) : m.is = "text"
      BY <3>1 DEF IsMetrics, String
    <3>3. \A m \in Items(v.at[k]) : Scalar(m)
      BY <3>2 DEF Scalar
    <3> QED
      BY <3>2, <3>3, ListIsQuiet, QuietGrows
  <2>6. CASE k = "expected_cuts" /\ v.at[k] # Nothing
    <3>1. \A c \in Items(v.at[k]) : c.is \in {"number", "nan"}
      BY <2>6 DEF IsVideoRule, Field, Default, Given, IsAmount, IsNumber
    <3>2. v.at[k].is \in {"null", "list"}
      BY <2>6 DEF IsVideoRule, VideoLists
    <3>3. \A c \in Items(v.at[k]) : Scalar(c)
      BY <3>1 DEF Scalar
    <3> QED
      BY <3>2, <3>3, ListIsQuiet, QuietGrows DEF Scalar
  <2>7. CASE k = "text_regions" /\ v.at[k] # Nothing
    <3>1. \A r \in Items(v.at[k]) : IsRegion(r)
      BY <2>7 DEF IsVideoRule, Field, Default, Given
    <3>2. v.at[k].is \in {"null", "list"}
      BY <2>7 DEF IsVideoRule, VideoLists
    <3>3. \A r \in Items(v.at[k]) : Quiet2(r)
      BY <3>1, RegionIsQuiet
    <3> QED
      BY <3>2, <3>3, ListIsQuiet, QuietGrows DEF Scalar
  <2>8. CASE k = "min_text_height_px" /\ v.at[k] # Nothing
    <3> DEFINE heights == v.at[k]
    <3>1. HasOnly(heights, TEXT_ROLES) /\ \A role \in DOMAIN heights.at : IsAmount(heights.at[role])
      BY <2>8 DEF IsVideoRule, Field, Default, Given
    <3> HIDE DEF heights
    <3>2. heights.is = "object" /\ Settled(heights)
      BY <3>1 DEF HasOnly, Settled, TEXT_ROLES, Given
    <3>3. \A x \in Inner(heights, {"limits"}) : Scalar(x)
      BY <3>1, <3>2, InnerFacts DEF IsAmount, IsNumber, Scalar
    <3>4. Quiet1(heights)
      BY <3>2, <3>3 DEF Quiet1
    <3> QED
      BY <3>4, QuietGrows DEF heights
  <2> QED
    BY <1>1, <1>3, <2>1, <2>2, <2>3, <2>4, <2>5, <2>6, <2>7, <2>8 DEF VideoFields, VideoLists
<1>4. \A x \in Inner(v, {"limits"}) : Quiet3(x)
  BY <1>1, <1>3, InnerFacts
<1> QED
  BY <1>2, <1>4 DEF Quiet4

LEMMA AudioRuleIsQuiet ==
    ASSUME NEW v, HasOnly(v, {"limits"})
    PROVE  Quiet4(v)
<1>1. v.is = "object" /\ DOMAIN v.at \subseteq {"limits"}
  BY DEF HasOnly
<1>2. Settled(v)
  BY <1>1 DEF Settled, Given
<1>3. Inner(v, {"limits"}) = {}
  BY <1>1, InnerFacts
<1> QED
  BY <1>2, <1>3, QuietGrows DEF Quiet1

LEMMA SegmentIsQuiet ==
    ASSUME NEW v, IsValue(v), \A x \in Inner(v, {}) : IsValue(x), IsSegment(v)
    PROVE  Quiet1(v)
<1> DEFINE times == {"source_start", "source_end", "delivery_start"}
<1>1. /\ v.is = "object" /\ DOMAIN v.at \subseteq times \cup {"speed"}
      /\ \A k \in times : IsNumber(v.at[k])
      /\ Given(v, "speed") => IsPositive(v.at.speed)
  BY DEF IsSegment, HasOnly, Default
<1>2. \A k \in DOMAIN v.at : IsValue(v.at[k])
  BY <1>1, InnerFacts
<1>3. Given(v, "speed") => Scalar(v.at.speed) /\ ~Below(v.at.speed, 1)
  BY <1>1, <1>2, AmountFacts DEF Given
<1>4. Settled(v)
  BY <1>1, <1>3 DEF Settled
<1>5. \A k \in DOMAIN v.at : Scalar(v.at[k])
  BY <1>1, <1>3 DEF Given, IsNumber, Scalar
<1>6. \A x \in Inner(v, {"limits"}) : Scalar(x)
  BY <1>1, <1>5, InnerFacts
<1> QED
  BY <1>4, <1>6 DEF Quiet1

LEMMA SourceCueIsQuiet ==
    ASSUME NEW v, IsSourceCue(v)
    PROVE  Quiet1(v)
<1>1. /\ v.is = "object" /\ DOMAIN v.at \subseteq {"start", "end"}
      /\ \A k \in DOMAIN v.at : IsNumber(v.at[k])
  BY DEF IsSourceCue, HasOnly
<1>2. Settled(v)
  BY <1>1 DEF Settled, Given
<1>3. \A x \in Inner(v, {"limits"}) : Scalar(x)
  BY <1>1, InnerFacts DEF IsNumber, Scalar
<1> QED
  BY <1>2, <1>3 DEF Quiet1

\* U stands for the values of a document.
LEMMA TimelineIsQuiet ==
    ASSUME NEW U, \A w \in U : IsValue(w) /\ Inner(w, {}) \subseteq U,
           NEW v \in U, IsTimeline(v)
    PROVE  Quiet4(v)
<1>1. v.is = "object" /\ DOMAIN v.at \subseteq {"timeline", "source_cues", "tolerance_sec"}
  BY DEF IsTimeline, HasOnly
<1>2. Settled(v)
  BY <1>1 DEF Settled, Given
<1>3. \A k \in DOMAIN v.at : v.at[k] \in U
  BY <1>1, InnerFacts
<1>4. ASSUME NEW k \in DOMAIN v.at PROVE Quiet2(v.at[k])
  <2> DEFINE q == v.at[k]
  <2>0. q \in U
    BY <1>3
  <2>1. CASE k = "timeline"
    <3>1. q.is = "list" /\ \A s \in Items(q) : IsSegment(s)
      BY <2>1 DEF IsTimeline, Default, Given
    <3> HIDE DEF q
    <3>2. Items(q) \subseteq U
      BY <2>0, <3>1, InnerFacts
    <3>3. ASSUME NEW s \in Items(q) PROVE Quiet1(s)
      <4>1. IsValue(s) /\ \A x \in Inner(s, {}) : IsValue(x)
        BY <3>2
      <4>2. IsSegment(s)
        BY <3>1
      <4> QED
        BY <4>1, <4>2, SegmentIsQuiet
    <3> QED
      BY <3>1, <3>3, ListIsQuiet DEF q
  <2>2. CASE k = "source_cues"
    <3>1. q.is = "list" /\ \A c \in Items(q) : IsSourceCue(c)
      BY <2>2 DEF IsTimeline, Default, Given
    <3>2. \A c \in Items(q) : Quiet1(c)
      BY <3>1, SourceCueIsQuiet
    <3> QED
      BY <3>1, <3>2, ListIsQuiet
  <2>3. CASE k = "tolerance_sec"
    <3>1. q.is \in {"number", "nan"}
      BY <2>3 DEF IsTimeline, Default, Given, IsAmount, IsNumber
    <3> QED
      BY <3>1, QuietGrows DEF Scalar
  <2> QED
    BY <1>1, <2>1, <2>2, <2>3
<1>5. \A x \in Inner(v, {"limits"}) : Quiet2(x)
  BY <1>1, <1>4, InnerFacts
<1> QED
  BY <1>2, <1>5, QuietGrows DEF Quiet3

LEMMA CrossRuleIsQuiet ==
    ASSUME NEW v, IsCrossRule(v)
    PROVE  Quiet4(v)
<1>1. v.is = "object" /\ DOMAIN v.at \subseteq {"duration_consistency", "dependencies"}
  BY DEF IsCrossRule, HasOnly
<1>2. Settled(v)
  BY <1>1 DEF Settled, Given
<1>3. ASSUME NEW d, IsDurations(d) PROVE Quiet2(d)
  <2>1. /\ d.is = "object" /\ DOMAIN d.at \subseteq {"artifact_ids", "max_delta_sec"}
        /\ Field(d, "artifact_ids").is = "list"
        /\ \A a \in Items(Field(d, "artifact_ids")) : a.is = "text"
        /\ Field(d, "max_delta_sec").is \in {"number", "nan"}
    BY <1>3 DEF IsDurations, HasOnly, IsName, IsAmount, IsNumber
  <2>2. Quiet1(Field(d, "artifact_ids"))
    <3>1. \A a \in Items(Field(d, "artifact_ids")) : Scalar(a)
      BY <2>1 DEF Scalar
    <3> QED
      BY <2>1, <3>1, ListIsQuiet
  <2>3. Quiet1(Field(d, "max_delta_sec"))
    BY <2>1, QuietGrows DEF Scalar
  <2>4. Settled(d)
    BY <2>1 DEF Settled, Given
  <2>5. \A x \in Inner(d, {"limits"}) :
           x = Field(d, "artifact_ids") \/ x = Field(d, "max_delta_sec")
    BY <2>1, InnerFacts DEF Field, Default, Given
  <2> QED
    BY <2>2, <2>3, <2>4, <2>5 DEF Quiet2
<1>4. ASSUME NEW d, IsDependency(d) PROVE Quiet2(d)
  <2>1. /\ d.is = "object" /\ DOMAIN d.at \subseteq {"artifact_id", "requires_artifact_id"}
        /\ Field(d, "artifact_id").is = "text" /\ Field(d, "requires_artifact_id").is = "text"
    BY <1>4 DEF IsDependency, HasOnly, IsName
  <2>2. Settled(d)
    BY <2>1 DEF Settled, Given
  <2>3. \A x \in Inner(d, {"limits"}) :
           x = Field(d, "artifact_id") \/ x = Field(d, "requires_artifact_id")
    BY <2>1, InnerFacts DEF Field, Default, Given
  <2> QED
    BY <2>1, <2>2, <2>3, QuietGrows DEF Quiet1, Scalar
<1>5. ASSUME NEW k \in DOMAIN v.at PROVE Quiet3(v.at[k])
  <2>1. CASE k = "duration_consistency"
    <3>1. v.at[k].is = "list" /\ \A d \in Items(v.at[k]) : IsDurations(d)
      BY <2>1 DEF IsCrossRule, Default, Given
    <3> QED
      BY <1>3, <3>1, ListIsQuiet
  <2>2. CASE k = "dependencies"
    <3>1. v.at[k].is = "list" /\ \A d \in Items(v.at[k]) : IsDependency(d)
      BY <2>2 DEF IsCrossRule, Default, Given
    <3> QED
      BY <1>4, <3>1, ListIsQuiet
  <2> QED
    BY <1>1, <2>1, <2>2
<1>6. \A x \in Inner(v, {"limits"}) : Quiet3(x)
  BY <1>1, <1>5, InnerFacts
<1> QED
  BY <1>2, <1>6 DEF Quiet4

(***************************************************************************)
(* The rules of a document whose rules are right: those at any depth are   *)
(* those that are built.                                                   *)
(***************************************************************************)
Package == StreamRules(Rules, "delivery_package")
ArtifactLists == {p.at.artifacts : p \in {p \in Package : Given(p, "artifacts")}}
ArtifactRules == UNION {Items(q) : q \in ArtifactLists}
Holders == {Rules} \cup StreamRules(Rules, "delivery") \cup ArtifactRules

\* Where the rules that are built are looked for.
LEMMA NestedFacts ==
    ASSUME NEW k
    PROVE  Nested(k) = UNION {StreamRules(h, k) : h \in Holders}
<1> DEFINE package == Default(Rules, "delivery_package", Object(<<>>))
           lists == IF package = Nothing THEN {}
                    ELSE Items(Default(package, "artifacts", List(<<>>)))
<1>1. Nested(k) = UNION {StreamRules(h, k) :
                            h \in {Rules} \cup StreamRules(Rules, "delivery") \cup lists}
  BY DEF Nested
<1>2. lists = ArtifactRules
  <2>1. CASE ~Given(Rules, "delivery_package")
    <3>1. package = Object(<<>>) /\ Package = {}
      BY <2>1 DEF Default, Package, StreamRules, Field
    <3>2. package # Nothing /\ Default(package, "artifacts", List(<<>>)) = List(<<>>)
      BY <3>1 DEF Object, Nothing, Default, Given
    <3>3. Items(List(<<>>)) = {}
      BY DEF Items, List
    <3> QED
      BY <3>1, <3>2, <3>3 DEF ArtifactRules, ArtifactLists
  <2>2. CASE Given(Rules, "delivery_package") /\ package = Nothing
    <3>1. Package = {}
      BY <2>2 DEF Default, Package, StreamRules, Field
    <3> QED
      BY <2>2, <3>1 DEF ArtifactRules, ArtifactLists
  <2>3. CASE Given(Rules, "delivery_package") /\ package # Nothing
    <3>1. Package = {package}
      BY <2>3 DEF Default, Package, StreamRules, Field
    <3> HIDE DEF package
    <3>2. CASE Given(package, "artifacts")
      <4>1. ArtifactLists = {package.at.artifacts}
        BY <3>1, <3>2 DEF ArtifactLists
      <4> QED
        BY <2>3, <3>2, <4>1 DEF ArtifactRules, Default
    <3>3. CASE ~Given(package, "artifacts")
      <4>1. ArtifactLists = {}
        BY <3>1, <3>3 DEF ArtifactLists
      <4>2. Items(List(<<>>)) = {}
        BY DEF Items, List
      <4> QED
        BY <2>3, <3>3, <4>1, <4>2 DEF ArtifactRules, Default
    <3> QED
      BY <3>2, <3>3
  <2> QED
    BY <2>1, <2>2, <2>3
<1> QED
  BY <1>1, <1>2 DEF Holders

\* What the keys of a holder hold.
LEMMA StreamRulesFacts ==
    ASSUME NEW h, AreStreamRules(h), h.is = "object"
    PROVE  /\ \A v \in StreamRules(h, "video") : IsVideoRule(v)
           /\ \A s \in StreamRules(h, "subtitle") : IsSubtitleRule(s)
           /\ \A k \in DOMAIN h.at :
                 /\ k \in {"video", "audio"} => Quiet4(h.at[k])
                 /\ k = "subtitle" => Quiet4(h.at[k]) \/ h.at[k] \in StreamRules(h, "subtitle")
<1>1. \A k : StreamRules(h, k) # {} => k \in DOMAIN h.at /\ StreamRules(h, k) = {h.at[k]}
                                       /\ Field(h, k) = h.at[k] /\ h.at[k] # Nothing
  BY DEF StreamRules, Field, Default, Given
<1>2. \A k \in DOMAIN h.at : h.at[k] = Nothing \/ (Field(h, k) # Nothing /\ StreamRules(h, k) = {h.at[k]})
  BY DEF StreamRules, Field, Default, Given
<1>3. Quiet4(Nothing)
  BY QuietGrows DEF Nothing, Scalar
<1>4. \A v \in StreamRules(h, "video") : IsVideoRule(v)
  BY <1>1 DEF AreStreamRules
<1>5. \A s \in StreamRules(h, "subtitle") : IsSubtitleRule(s)
  BY <1>1 DEF AreStreamRules
<1>6. ASSUME "video" \in DOMAIN h.at PROVE Quiet4(h.at.video)
  BY <1>2, <1>3, <1>4, <1>6, VideoRuleIsQuiet
<1>7. ASSUME "audio" \in DOMAIN h.at PROVE Quiet4(h.at.audio)
  <2>1. h.at.audio = Nothing \/ HasOnly(h.at.audio, {"limits"})
    BY <1>2, <1>7 DEF AreStreamRules
  <2> QED
    BY <1>3, <2>1, AudioRuleIsQuiet
<1>8. ASSUME "subtitle" \in DOMAIN h.at
      PROVE  Quiet4(h.at.subtitle) \/ h.at.subtitle \in StreamRules(h, "subtitle")
  BY <1>2, <1>3, <1>8
<1> QED
  BY <1>4, <1>5, <1>6, <1>7, <1>8

\* What a subtitle rule holds.
LEMMA SubtitleRuleFacts ==
    ASSUME NEW s, IsSubtitleRule(s)
    PROVE  /\ s.is = "object" /\ "video" \notin DOMAIN s.at
           /\ \A t \in StreamRules(s, "timeline_integrity") : IsTimeline(t)
           /\ \A x \in Inner(s, {"limits"}) :
                 x = Nothing \/ x \in StreamRules(s, "timeline_integrity")
<1>1. s.is = "object" /\ DOMAIN s.at \subseteq {"limits", "timeline_integrity"}
  BY DEF IsSubtitleRule, HasOnly
<1>2. \A t \in StreamRules(s, "timeline_integrity") : IsTimeline(t)
  BY DEF IsSubtitleRule, StreamRules
<1>3. ASSUME NEW x \in Inner(s, {"limits"})
      PROVE  x = Nothing \/ x \in StreamRules(s, "timeline_integrity")
  <2>1. "timeline_integrity" \in DOMAIN s.at /\ x = s.at.timeline_integrity
    BY <1>1, InnerFacts
  <2> QED
    BY <2>1 DEF StreamRules, Field, Default, Given
<1> QED
  BY <1>1, <1>2, <1>3

\* What the objects and lists on the way to the rules hold.
LEMMA HoldersFacts ==
    ASSUME HasOnly(Rules, Sections), AreRules(Rules)
    PROVE  /\ \A h \in Holders :
                 /\ h.is = "object" /\ AreStreamRules(h) /\ "timeline_integrity" \notin DOMAIN h.at
                 /\ \A x \in Inner(h, {"limits"}) :
                       Quiet4(x) \/ x \in Nested("subtitle") \cup Holders \cup Package
           /\ \A p \in Package :
                 /\ p.is = "object" /\ DOMAIN p.at \subseteq {"artifacts", "cross_artifact"}
                 /\ \A x \in Inner(p, {"limits"}) : Quiet4(x) \/ x \in ArtifactLists
           /\ \A q \in ArtifactLists : q.is = "list" /\ Items(q) \subseteq Holders
<1>0. Quiet4(Nothing)
  BY QuietGrows DEF Nothing, Scalar
<1>1. ASSUME NEW h \in Holders, AreStreamRules(h), h.is = "object",
             NEW k \in DOMAIN h.at \cap {"video", "audio", "subtitle"}
      PROVE  Quiet4(h.at[k]) \/ h.at[k] \in Nested("subtitle")
  <2>1. Quiet4(h.at[k]) \/ (k = "subtitle" /\ h.at[k] \in StreamRules(h, "subtitle"))
    BY <1>1, StreamRulesFacts
  <2> QED
    BY <2>1, NestedFacts
<1>2. ASSUME NEW p \in Package
      PROVE  IsPackageRule(p)
  BY <1>2 DEF Package, StreamRules, AreRules
<1>3. ASSUME NEW q \in ArtifactLists
      PROVE  q.is = "list" /\ \A a \in Items(q) : IsArtifactRule(a)
  <2>1. PICK p \in Package : Given(p, "artifacts") /\ q = p.at.artifacts
    BY DEF ArtifactLists
  <2> QED
    BY <1>2, <2>1 DEF IsPackageRule, Default
<1>4. \A a \in ArtifactRules : IsArtifactRule(a)
  BY <1>3 DEF ArtifactRules
<1>5. \A d \in StreamRules(Rules, "delivery") : IsDeliveryRule(d)
  BY DEF StreamRules, AreRules
<1>6. Rules.is = "object" /\ DOMAIN Rules.at \subseteq Sections /\ AreStreamRules(Rules)
  BY DEF HasOnly, AreRules
<1>7. ASSUME NEW x \in Inner(Rules, {"limits"})
      PROVE  Quiet4(x) \/ x \in Nested("subtitle") \cup Holders \cup Package
  <2>1. PICK k \in DOMAIN Rules.at : k # "limits" /\ x = Rules.at[k]
    BY <1>6, <1>7, InnerFacts
  <2>2. CASE k \in {"video", "audio", "subtitle"}
    BY <1>1, <1>6, <2>1, <2>2 DEF Holders
  <2>3. CASE k = "delivery"
    <3>1. x = Nothing \/ x \in StreamRules(Rules, "delivery")
      BY <2>1, <2>3 DEF StreamRules, Field, Default, Given
    <3> QED
      BY <1>0, <3>1 DEF Holders
  <2>4. CASE k = "delivery_package"
    <3>1. x = Nothing \/ x \in Package
      BY <2>1, <2>4 DEF Package, StreamRules, Field, Default, Given
    <3> QED
      BY <1>0, <3>1
  <2> QED
    BY <1>6, <2>1, <2>2, <2>3, <2>4 DEF Sections
<1>8. ASSUME NEW d \in StreamRules(Rules, "delivery")
      PROVE  /\ d.is = "object" /\ AreStreamRules(d) /\ "timeline_integrity" \notin DOMAIN d.at
             /\ \A x \in Inner(d, {"limits"}) : Quiet4(x) \/ x \in Nested("subtitle")
  <2>1. /\ d.is = "object" /\ AreStreamRules(d)
        /\ DOMAIN d.at \subseteq {"video", "audio", "subtitle", "limits"}
    BY <1>5 DEF IsDeliveryRule, HasOnly
  <2>2. ASSUME NEW x \in Inner(d, {"limits"}) PROVE Quiet4(x) \/ x \in Nested("subtitle")
    <3>1. PICK k \in DOMAIN d.at : k # "limits" /\ x = d.at[k]
      BY <2>1, InnerFacts
    <3>2. d \in Holders
      BY DEF Holders
    <3> QED
      BY <1>1, <2>1, <3>1, <3>2
  <2> QED
    BY <2>1, <2>2
<1>9. ASSUME NEW a \in ArtifactRules
      PROVE  /\ a.is = "object" /\ AreStreamRules(a) /\ "timeline_integrity" \notin DOMAIN a.at
             /\ \A x \in Inner(a, {"limits"}) : Quiet4(x) \/ x \in Nested("subtitle")
  <2>1. /\ a.is = "object" /\ AreStreamRules(a) /\ Field(a, "artifact_id").is = "text"
        /\ DOMAIN a.at \subseteq {"artifact_id", "limits", "video", "audio", "subtitle"}
    BY <1>4 DEF IsArtifactRule, HasOnly, IsName
  <2>2. ASSUME NEW x \in Inner(a, {"limits"}) PROVE Quiet4(x) \/ x \in Nested("subtitle")
    <3>1. PICK k \in DOMAIN a.at : k # "limits" /\ x = a.at[k]
      BY <2>1, InnerFacts
    <3>2. a \in Holders
      BY DEF Holders
    <3>3. CASE k = "artifact_id"
      <4>1. x = Field(a, "artifact_id")
        BY <3>1, <3>3 DEF Field, Default, Given
      <4> QED
        BY <2>1, <4>1, QuietGrows DEF Scalar
    <3> QED
      BY <1>1, <2>1, <3>1, <3>2, <3>3
  <2> QED
    BY <2>1, <2>2
<1>10. ASSUME NEW p \in Package
       PROVE  /\ p.is = "object" /\ DOMAIN p.at \subseteq {"artifacts", "cross_artifact"}
              /\ \A x \in Inner(p, {"limits"}) : Quiet4(x) \/ x \in ArtifactLists
  <2>1. /\ p.is = "object" /\ DOMAIN p.at \subseteq {"artifacts", "cross_artifact"}
        /\ Field(p, "cross_artifact") # Nothing => IsCrossRule(p.at.cross_artifact)
    BY <1>2 DEF IsPackageRule, HasOnly
  <2>2. ASSUME NEW x \in Inner(p, {"limits"}) PROVE Quiet4(x) \/ x \in ArtifactLists
    <3>1. PICK k \in DOMAIN p.at : x = p.at[k]
      BY <2>1, InnerFacts
    <3>2. CASE k = "artifacts"
      BY <3>1, <3>2 DEF ArtifactLists, Given
    <3>3. CASE k = "cross_artifact"
      <4>1. x = Nothing \/ IsCrossRule(x)
        BY <2>1, <3>1, <3>3 DEF Field, Default, Given
      <4> QED
        BY <1>0, <4>1, CrossRuleIsQuiet
    <3> QED
      BY <2>1, <3>1, <3>2, <3>3
  <2> QED
    BY <2>1, <2>2
<1>11. \A q \in ArtifactLists : q.is = "list" /\ Items(q) \subseteq Holders
  BY <1>3 DEF Holders, ArtifactRules
<1>12. "timeline_integrity" \notin DOMAIN Rules.at
  BY <1>6 DEF Sections
<1> QED
  BY <1>6, <1>7, <1>8, <1>9, <1>10, <1>11, <1>12 DEF Holders

\* Where rules are looked for at any depth: in the values of any set that is
\* closed under what is next inside.
LEMMA UnderFacts ==
    ASSUME NEW v, NEW C, v \in C, \A w \in C : Inner(w, {"limits"}) \subseteq C,
           NEW k, NEW x \in Under(k, v)
    PROVE  \E w \in C : w.is = "object" /\ x \in StreamRules(w, k)
<1>1. Within(v, {"limits"}) \subseteq C
  BY WithinFacts
<1> QED
  BY <1>1 DEF Under

\* The values of a document.
LEMMA DocumentFacts ==
    ASSUME document \in Documents
    PROVE  LET U == Within(document, {})
           IN  /\ document \in U
               /\ \A w \in U : IsValue(w) /\ Inner(w, {}) \subseteq U
               /\ document.is = "object" =>
                     \A k : Given(document, k) => document.at[k] \in U
<1> DEFINE U == Within(document, {})
<1>1. document \in U
  BY WithinFacts
<1>2. \A w \in U : IsValue(w) /\ Inner(w, {}) \subseteq U
  BY DocumentAssumption
<1>3. document.is = "object" => \A k : Given(document, k) => document.at[k] \in U
  <2>1. Inner(document, {}) \subseteq U
    BY <1>1, <1>2
  <2> HIDE DEF U
  <2> QED
    BY <2>1, InnerFacts DEF Given
<1> QED
  BY <1>1, <1>2, <1>3

Timelines == UNION {StreamRules(s, "timeline_integrity") : s \in Nested("subtitle")}

LEMMA RulesAtAnyDepth ==
    ASSUME document \in Documents, document.is = "object",
           HasOnly(Rules, Sections), AreRules(Rules)
    PROVE  LET U == Within(document, {})
           IN  /\ \A v \in Under("video", Rules) :
                     v \in Nested("video") /\ v \in U /\ IsVideoRule(v)
               /\ \A t \in Under("timeline_integrity", Rules) :
                     t \in Timelines /\ t \in U /\ IsTimeline(t)
<1> DEFINE U == Within(document, {})
           W == U \cup {Rules}
           C == {w \in W : w \in Holders \cup Package \cup ArtifactLists
                                 \cup Nested("subtitle") \cup Timelines \/ Quiet4(w)}
<1>1. /\ \A w \in U : IsValue(w) /\ Inner(w, {}) \subseteq U
      /\ Rules \in U \/ Rules = Object(<<>>)
  BY DocumentFacts DEF Rules, Default
<1> HIDE DEF U
<1>2. \A w \in W : Inner(w, {}) \subseteq U
  <2>1. Inner(Object(<<>>), {}) = {}
    BY InnerFacts DEF Object
  <2> QED
    BY <1>1, <2>1
<1>3. \A w, x : x \in Inner(w, {"limits"}) => x \in Inner(w, {})
  BY DEF Inner
<1>4. ASSUME NEW w \in W, w.is = "object", NEW k, NEW x \in StreamRules(w, k) PROVE x \in U
  <2>1. k \in DOMAIN w.at /\ x = w.at[k]
    BY DEF StreamRules, Field, Default, Given
  <2>2. x \in Inner(w, {})
    BY <1>4, <2>1, InnerFacts
  <2> QED
    BY <1>2, <2>2
<1>5. \A s \in Nested("subtitle") : IsSubtitleRule(s)
  BY HoldersFacts, NestedFacts, StreamRulesFacts
<1>6. \A t \in Timelines : IsTimeline(t)
  BY <1>5, SubtitleRuleFacts DEF Timelines
<1>7. Quiet4(Nothing)
  BY QuietGrows DEF Nothing, Scalar
<1>8. \A w : Quiet4(w) => \A x \in Inner(w, {"limits"}) : Quiet4(x)
  BY QuietGrows DEF Quiet4
<1>9. ASSUME NEW w \in C, NEW x \in Inner(w, {"limits"})
      PROVE  x \in Holders \cup Package \cup ArtifactLists \cup Nested("subtitle") \cup Timelines
             \/ Quiet4(x)
  <2>1. CASE w \in Holders \cup Package
    BY <1>9, <2>1, HoldersFacts
  <2>2. CASE w \in ArtifactLists
    BY <1>9, <2>2, HoldersFacts, InnerFacts
  <2>3. CASE w \in Nested("subtitle")
    BY <1>5, <1>7, <1>9, <2>3, SubtitleRuleFacts DEF Timelines
  <2>4. CASE w \in Timelines
    <3>1. IsTimeline(w) /\ w \in W
      BY <1>6, <2>4
    <3>2. w = Object(<<>>) => Quiet4(w)
      <4>1. w = Object(<<>>) => Settled(w) /\ Inner(w, {"limits"}) = {}
        BY InnerFacts DEF Object, Settled, Given
      <4> QED
        BY <4>1, QuietGrows DEF Quiet1
    <3>3. Quiet4(w)
      BY <1>1, <3>1, <3>2, TimelineIsQuiet
    <3> QED
      BY <1>8, <1>9, <3>3
  <2>5. CASE Quiet4(w)
    BY <1>8, <1>9, <2>5
  <2> QED
    BY <2>1, <2>2, <2>3, <2>4, <2>5
<1>10. Rules \in C /\ \A w \in C : Inner(w, {"limits"}) \subseteq C
  <2>1. Rules \in C
    BY DEF Holders
  <2>2. ASSUME NEW w \in C, NEW x \in Inner(w, {"limits"}) PROVE x \in C
    <3>1. x \in W
      BY <1>2, <1>3, <2>2
    <3> QED
      BY <1>9, <2>2, <3>1
  <2> QED
    BY <2>1, <2>2
<1>11. ASSUME NEW v \in Under("video", Rules) PROVE v \in Nested("video") /\ v \in U /\ IsVideoRule(v)
  <2>1. PICK w \in C : w.is = "object" /\ v \in StreamRules(w, "video")
    <3> HIDE DEF C
    <3> QED
      BY <1>10, <1>11, UnderFacts
  <2>2. v \in U
    BY <1>4, <2>1
  <2>3. "video" \in DOMAIN w.at
    BY <2>1 DEF StreamRules, Field, Default, Given
  <2>4. w \notin Package /\ w \notin ArtifactLists /\ w \notin Nested("subtitle")
    BY <1>5, <2>1, <2>3, HoldersFacts, SubtitleRuleFacts
  <2>5. w \notin Timelines
    BY <1>6, <2>3 DEF IsTimeline, HasOnly
  <2>6. ~Quiet4(w)
    BY <2>1, <2>3 DEF Quiet4, Settled
  <2>7. w \in Holders
    BY <2>1, <2>4, <2>5, <2>6
  <2>8. AreStreamRules(w)
    BY <2>7, HoldersFacts
  <2> QED
    BY <2>1, <2>2, <2>7, <2>8, NestedFacts, StreamRulesFacts
<1>12. ASSUME NEW t \in Under("timeline_integrity", Rules)
       PROVE  t \in Timelines /\ t \in U /\ IsTimeline(t)
  <2>1. PICK w \in C : w.is = "object" /\ t \in StreamRules(w, "timeline_integrity")
    <3> HIDE DEF C
    <3> QED
      BY <1>10, <1>12, UnderFacts
  <2>2. t \in U
    BY <1>4, <2>1
  <2>3. "timeline_integrity" \in DOMAIN w.at
    BY <2>1 DEF StreamRules, Field, Default, Given
  <2>4. w \notin Holders /\ w \notin Package /\ w \notin ArtifactLists
    BY <2>1, <2>3, HoldersFacts
  <2>5. w \notin Timelines
    BY <1>6, <2>3 DEF IsTimeline, HasOnly
  <2>6. ~Quiet4(w)
    BY <2>1, <2>3 DEF Quiet4, Settled
  <2>7. w \in Nested("subtitle")
    BY <2>1, <2>4, <2>5, <2>6
  <2>8. t \in Timelines
    BY <2>1, <2>7 DEF Timelines
  <2> QED
    BY <1>6, <2>2, <2>8
<1> QED
  BY <1>11, <1>12 DEF U

(***************************************************************************)
(* What a right video rule is built to.                                    *)
(***************************************************************************)
LEMMA InOrderFacts ==
    ASSUME NEW q, NEW r \in InOrder(q)
    PROVE  /\ Items(List(r)) = Items(List(q))
           /\ \/ NotANumber \in Items(List(r))
              \/ \A i, j \in DOMAIN r : i < j => ~Below(r[j], r[i].tenths)
<1>1. PICK p \in Bijection(DOMAIN q, DOMAIN q) : r = [i \in DOMAIN q |-> q[p[i]]]
  BY DEF InOrder
<1>2. /\ \A i \in DOMAIN q : p[i] \in DOMAIN q
      /\ \A j \in DOMAIN q : \E i \in DOMAIN q : p[i] = j
  BY DEF Bijection, Injection, Surjection
<1>3. \A s : Items(List(s)) = {s[i] : i \in DOMAIN s}
  BY DEF Items, List
<1>4. DOMAIN r = DOMAIN q /\ \A i \in DOMAIN q : r[i] = q[p[i]]
  BY <1>1
<1>5. {r[i] : i \in DOMAIN r} = {q[i] : i \in DOMAIN q}
  BY <1>2, <1>4
<1>6. \/ \E i \in DOMAIN q : q[i] = NotANumber
      \/ \A i, j \in DOMAIN r : i < j => ~Below(r[j], r[i].tenths)
  BY DEF InOrder
<1> QED
  BY <1>3, <1>5, <1>6

\* In the order they are reported in.
Reported(s) ==
    \A i, j \in DOMAIN s :
       i < j => \E m, n \in DOMAIN REFERENCE_METRICS :
                   /\ m < n /\ s[i] = String(REFERENCE_METRICS[m])
                   /\ s[j] = String(REFERENCE_METRICS[n])

InReportOrder(w) == Chosen("vmaf", w) \o Chosen("ssim", w) \o Chosen("psnr", w)

LEMMA JoinedFacts ==
    ASSUME NEW S, NEW x \in Seq(S), NEW y \in Seq(S)
    PROVE  /\ x \o y \in Seq(S) /\ Len(x \o y) = Len(x) + Len(y)
           /\ \A i \in 1..Len(x) + Len(y) :
                 (x \o y)[i] = IF i <= Len(x) THEN x[i] ELSE y[i - Len(x)]
OBVIOUS

LEMMA JoinFacts ==
    /\ <<>> \o <<>> = <<>>
    /\ \A a : <<>> \o <<a>> = <<a>> /\ <<a>> \o <<>> = <<a>>
    /\ \A a, b : LET q == <<a>> \o <<b>>
                 IN  DOMAIN q = 1..2 /\ q[1] = a /\ q[2] = b /\ q \o <<>> = q
<1>1. <<>> \o <<>> = <<>>
  OBVIOUS
<1>2. \A a : <<>> \o <<a>> = <<a>> /\ <<a>> \o <<>> = <<a>>
  OBVIOUS
<1>3. ASSUME NEW a, NEW b
      PROVE  LET q == <<a>> \o <<b>>
             IN  DOMAIN q = 1..2 /\ q[1] = a /\ q[2] = b /\ q \o <<>> = q
  <2>1. /\ <<a>> \in Seq({a, b}) /\ <<b>> \in Seq({a, b})
        /\ Len(<<a>>) = 1 /\ Len(<<b>>) = 1
    OBVIOUS
  <2> QED
    BY <2>1
<1> QED
  BY <1>1, <1>2, <1>3

LEMMA JoinThird ==
    ASSUME NEW S, NEW r \in Seq(S), NEW t \in Seq(S), Len(r) = 2, Len(t) = 1
    PROVE  /\ DOMAIN (r \o t) = 1..3
           /\ (r \o t)[1] = r[1] /\ (r \o t)[2] = r[2] /\ (r \o t)[3] = t[1]
<1>1. /\ r \o t \in Seq(S) /\ Len(r \o t) = Len(r) + Len(t)
      /\ \A i \in 1..Len(r) + Len(t) :
            (r \o t)[i] = IF i <= Len(r) THEN r[i] ELSE t[i - Len(r)]
  BY JoinedFacts
<1> QED
  BY <1>1

LEMMA JoinThree ==
    ASSUME NEW a, NEW b, NEW c
    PROVE  LET q == <<a>> \o <<b>> \o <<c>>
           IN  DOMAIN q = 1..3 /\ q[1] = a /\ q[2] = b /\ q[3] = c
<1> DEFINE S == {a, b, c}
           r == <<a>> \o <<b>>
           t == <<c>>
<1>1. r \in Seq(S) /\ Len(r) = 2 /\ r[1] = a /\ r[2] = b
  <2>1. /\ <<a>> \in Seq({a, b, c}) /\ <<b>> \in Seq({a, b, c})
        /\ Len(<<a>>) = 1 /\ Len(<<b>>) = 1
    OBVIOUS
  <2> QED
    BY <2>1
<1>2. t \in Seq(S) /\ Len(t) = 1 /\ t[1] = c
  OBVIOUS
<1> HIDE DEF r, t, S
<1>3. /\ DOMAIN (r \o t) = 1..3
      /\ (r \o t)[1] = r[1] /\ (r \o t)[2] = r[2] /\ (r \o t)[3] = t[1]
  BY <1>1, <1>2, JoinThird
<1>4. /\ DOMAIN (r \o t) = 1..3
      /\ (r \o t)[1] = a /\ (r \o t)[2] = b /\ (r \o t)[3] = c
  BY <1>1, <1>2, <1>3
<1> QED
  BY <1>4 DEF r, t

LEMMA ReportedFacts ==
    ASSUME NEW w, IsMetrics(w)
    PROVE  Items(List(InReportOrder(w))) = Items(w) /\ Reported(InReportOrder(w))
<1> DEFINE v == String("vmaf")
           s == String("ssim")
           p == String("psnr")
           q == InReportOrder(w)
<1>1. /\ DOMAIN REFERENCE_METRICS = 1..3
      /\ String(REFERENCE_METRICS[1]) = v /\ String(REFERENCE_METRICS[2]) = s
      /\ String(REFERENCE_METRICS[3]) = p
  BY DEF REFERENCE_METRICS
<1>2. Items(w) \subseteq {v, s, p}
  <2>1. \A m \in Items(w) : \E n \in 1..3 : m = String(REFERENCE_METRICS[n])
    BY <1>1 DEF IsMetrics
  <2> QED
    BY <1>1, <2>1
<1>3. q = (IF v \in Items(w) THEN <<v>> ELSE <<>>) \o (IF s \in Items(w) THEN <<s>> ELSE <<>>)
            \o (IF p \in Items(w) THEN <<p>> ELSE <<>>)
  BY DEF InReportOrder, Chosen
<1>4. Items(List(q)) = {q[i] : i \in DOMAIN q}
  BY DEF Items, List
<1>5. Reported(q) <=> \A i, j \in DOMAIN q :
                         i < j => \/ q[i] = v /\ q[j] = s
                                  \/ q[i] = v /\ q[j] = p
                                  \/ q[i] = s /\ q[j] = p
  <2> HIDE DEF q
  <2> QED
    BY <1>1 DEF Reported
<1> HIDE DEF v, s, p, q
<1>6. CASE v \in Items(w) /\ s \in Items(w) /\ p \in Items(w)
  <2>1. q = <<v>> \o <<s>> \o <<p>>
    BY <1>3, <1>6, JoinFacts
  <2> DEFINE r == <<v>> \o <<s>> \o <<p>>
  <2>2. DOMAIN r = 1..3 /\ r[1] = v /\ r[2] = s /\ r[3] = p
    BY JoinThree
  <2>3. q = r
    BY <2>1
  <2> HIDE DEF r
  <2> QED
    BY <1>2, <1>4, <1>5, <1>6, <2>2, <2>3 DEF q
<1>7. CASE v \in Items(w) /\ s \in Items(w) /\ p \notin Items(w)
  <2>1. q = <<v>> \o <<s>>
    BY <1>3, <1>7, JoinFacts
  <2>2. DOMAIN q = 1..2 /\ q[1] = v /\ q[2] = s
    BY <2>1, JoinFacts
  <2> QED
    BY <1>2, <1>4, <1>5, <1>7, <2>2 DEF q
<1>8. CASE v \in Items(w) /\ s \notin Items(w) /\ p \in Items(w)
  <2>1. q = <<v>> \o <<p>>
    BY <1>3, <1>8, JoinFacts
  <2>2. DOMAIN q = 1..2 /\ q[1] = v /\ q[2] = p
    BY <2>1, JoinFacts
  <2> QED
    BY <1>2, <1>4, <1>5, <1>8, <2>2 DEF q
<1>9. CASE v \notin Items(w) /\ s \in Items(w) /\ p \in Items(w)
  <2>1. q = <<s>> \o <<p>>
    BY <1>3, <1>9, JoinFacts
  <2>2. DOMAIN q = 1..2 /\ q[1] = s /\ q[2] = p
    BY <2>1, JoinFacts
  <2> QED
    BY <1>2, <1>4, <1>5, <1>9, <2>2 DEF q
<1>10. ASSUME NEW m \in {v, s, p}, Items(w) = {m} PROVE q = <<m>>
  <2>1. v # s /\ v # p /\ s # p
    BY DEF v, s, p, String
  <2> QED
    BY <1>3, <1>10, <2>1, JoinFacts
<1>11. ASSUME NEW m, Items(w) = {m}, q = <<m>>
       PROVE  Items(List(q)) = Items(w) /\ Reported(q)
  <2>1. DOMAIN q = 1..1 /\ q[1] = m
    BY <1>11
  <2> QED
    BY <1>4, <1>5, <1>11, <2>1
<1>12. CASE Items(w) = {}
  <2>1. q = <<>>
    BY <1>3, <1>12
  <2>2. DOMAIN q = {}
    BY <2>1
  <2> QED
    BY <1>4, <1>5, <1>12, <2>2 DEF q
<1>13. \/ \E m \in {v, s, p} : Items(w) = {m}
       \/ Items(w) = {}
       \/ v \in Items(w) /\ s \in Items(w)
       \/ v \in Items(w) /\ p \in Items(w)
       \/ s \in Items(w) /\ p \in Items(w)
  BY <1>2
<1> QED
  BY <1>6, <1>7, <1>8, <1>9, <1>10, <1>11, <1>12, <1>13 DEF q

LEMMA BuiltFacts ==
    ASSUME NEW v, NEW b \in BuiltVideos(v)
    PROVE  /\ DOMAIN b.at = DOMAIN v.at
           /\ \A k \in DOMAIN v.at :
                 /\ k \notin {"expected_cuts", "reference_metrics"} => b.at[k] = v.at[k]
                 /\ v.at[k] = Nothing => b.at[k] = Nothing
                 /\ k = "expected_cuts" /\ v.at[k] # Nothing =>
                       \E r \in InOrder(v.at[k].items) : b.at[k] = List(r)
                 /\ k = "reference_metrics" /\ v.at[k] # Nothing =>
                       b.at[k] = List(InReportOrder(v.at[k]))
<1> DEFINE cuts == Field(v, "expected_cuts")
           orders == IF cuts = Nothing THEN {cuts} ELSE {List(q) : q \in InOrder(cuts.items)}
           built(c) == [k \in DOMAIN v.at |->
                           IF k = "expected_cuts" THEN c
                           ELSE IF k = "reference_metrics" /\ v.at[k] # Nothing
                           THEN List(InReportOrder(v.at[k])) ELSE v.at[k]]
<1>1. PICK c \in orders : b = Object(built(c))
  BY DEF BuiltVideos, InReportOrder
<1>2. b.at = built(c)
  BY <1>1 DEF Object
<1>3. /\ DOMAIN b.at = DOMAIN v.at
      /\ \A k \in DOMAIN v.at :
            b.at[k] = IF k = "expected_cuts" THEN c
                      ELSE IF k = "reference_metrics" /\ v.at[k] # Nothing
                      THEN List(InReportOrder(v.at[k])) ELSE v.at[k]
  BY <1>2
<1>4. "expected_cuts" \in DOMAIN v.at => cuts = v.at.expected_cuts
  BY DEF Field, Default, Given
<1>5. /\ cuts = Nothing => c = Nothing
      /\ cuts # Nothing => \E r \in InOrder(cuts.items) : c = List(r)
  BY <1>1
<1> HIDE DEF cuts, orders, built
<1> QED
  BY <1>3, <1>4, <1>5

\* Every rule that is right is built to one the engine can use.
LEMMA UsableFacts ==
    ASSUME NEW v, \A x \in Inner(v, {}) : IsValue(x), IsVideoRule(v), NEW b \in BuiltVideos(v)
    PROVE  IsUsable(b, v)
<1>1. v.is = "object" /\ \A k \in VideoAmounts \cap DOMAIN v.at : IsAmount(v.at[k])
  BY DEF IsVideoRule, HasOnly
<1>2. \A k \in DOMAIN v.at : IsValue(v.at[k])
  BY <1>1, InnerFacts
<1>3. DOMAIN b.at = DOMAIN v.at
  BY BuiltFacts
<1>4. \A q : List(q).is = "list" /\ List(q).items = q /\ List(q) # Nothing
  BY DEF List, Nothing
<1>5. ASSUME "expected_cuts" \in DOMAIN v.at, v.at.expected_cuts # Nothing
      PROVE  /\ b.at.expected_cuts.is = "list"
             /\ Items(b.at.expected_cuts) = Items(v.at.expected_cuts)
             /\ \/ NotANumber \in Items(b.at.expected_cuts)
                \/ \A i, j \in DOMAIN b.at.expected_cuts.items :
                      i < j => ~Below(b.at.expected_cuts.items[j],
                                      b.at.expected_cuts.items[i].tenths)
  <2>1. PICK r \in InOrder(v.at.expected_cuts.items) : b.at.expected_cuts = List(r)
    BY <1>5, BuiltFacts
  <2>2. /\ Items(List(r)) = Items(List(v.at.expected_cuts.items))
        /\ \/ NotANumber \in Items(List(r))
           \/ \A i, j \in DOMAIN r : i < j => ~Below(r[j], r[i].tenths)
    BY InOrderFacts
  <2>3. Items(List(v.at.expected_cuts.items)) = Items(v.at.expected_cuts)
    BY <1>4 DEF Items
  <2> QED
    BY <1>4, <2>1, <2>2, <2>3
<1>6. ASSUME "reference_metrics" \in DOMAIN v.at, v.at.reference_metrics # Nothing
      PROVE  /\ b.at.reference_metrics.is = "list"
             /\ Items(b.at.reference_metrics) = Items(v.at.reference_metrics)
             /\ Reported(b.at.reference_metrics.items)
  <2>1. b.at.reference_metrics = List(InReportOrder(v.at.reference_metrics))
    BY <1>6, BuiltFacts
  <2>2. IsMetrics(v.at.reference_metrics)
    BY <1>6 DEF IsVideoRule, Field, Default, Given
  <2> QED
    BY <1>4, <2>1, <2>2, ReportedFacts
<1>7. \A k \in DOMAIN v.at :
         k \notin {"expected_cuts", "reference_metrics"} \/ v.at[k] = Nothing => b.at[k] = v.at[k]
  BY BuiltFacts
<1>8. \A k \in DOMAIN b.at :
         IF b.at[k].is = "list" THEN Items(b.at[k]) = Items(v.at[k]) ELSE b.at[k] = v.at[k]
  BY <1>3, <1>5, <1>6, <1>7
<1>9. \A k \in VideoAmounts \cap DOMAIN b.at : ~Below(b.at[k], 0)
  BY <1>1, <1>3, <1>7 DEF IsAmount, VideoAmounts
<1>10. Given(b, "cut_match_window_sec") => ~Below(b.at.cut_match_window_sec, 1)
  <2>1. Given(v, "cut_match_window_sec") => IsPositive(v.at.cut_match_window_sec)
    BY DEF IsVideoRule
  <2>2. Given(v, "cut_match_window_sec") => ~Below(v.at.cut_match_window_sec, 1)
    BY <1>2, <2>1, AmountFacts DEF Given
  <2> QED
    BY <1>3, <1>7, <2>2 DEF Given
<1>11. LET cuts == Field(b, "expected_cuts")
       IN  cuts = Nothing \/ NotANumber \in Items(cuts)
           \/ \A i, j \in DOMAIN cuts.items :
                 i < j => ~Below(cuts.items[j], cuts.items[i].tenths)
  BY <1>3, <1>5, <1>7 DEF Field, Default, Given
<1>12. LET metrics == Field(b, "reference_metrics")
       IN  metrics = Nothing \/ Reported(metrics.items)
  BY <1>3, <1>6, <1>7 DEF Field, Default, Given
<1> QED
  BY <1>3, <1>8, <1>9, <1>10, <1>11, <1>12 DEF IsUsable, Reported

(***************************************************************************)
(* What it says of a document that no part of it has a fault.              *)
(***************************************************************************)
Errors == {"INVALID_REQUEST", "MISSING_INPUT", "UNSUPPORTED_OPERATION", "INTERNAL_ERROR",
           "INVALID_TIME_RANGE"}

Faultless == \A i \in DOMAIN Parts : Fault(Parts[i]) = "none"

LEMMA PartsFacts ==
    /\ DOMAIN Parts = 1..13
    /\ {Parts[i] : i \in DOMAIN Parts}
          = {"keys", "operation", "kind", "input", "artifacts", "amount", "paths",
             "parameters", "sections", "cache_policy", "timeout", "request_id", "rules"}
<1>1. /\ DOMAIN Parts = 1..13
      /\ Parts[1] = "keys" /\ Parts[2] = "operation" /\ Parts[3] = "kind"
      /\ Parts[4] = "input" /\ Parts[5] = "artifacts" /\ Parts[6] = "amount"
      /\ Parts[7] = "paths" /\ Parts[8] = "parameters" /\ Parts[9] = "sections"
      /\ Parts[10] = "cache_policy" /\ Parts[11] = "timeout" /\ Parts[12] = "request_id"
      /\ Parts[13] = "rules"
  BY DEF Parts
<1>2. \A i \in 1..13 : i \in {1, 2, 3, 4, 5, 6, 7, 8, 9, 10, 11, 12, 13}
  OBVIOUS
<1> HIDE DEF Parts
<1> QED
  BY <1>1, <1>2

LEMMA RefuseFacts ==
    ASSUME NEW code, NEW bad
    PROVE  /\ Refuse(code, bad) \in {code, "none"}
           /\ code # "none" /\ Refuse(code, bad) = "none" => ~bad
BY DEF Refuse

\* A fault is an error and no request.
LEMMA FaultIsAnError ==
    ASSUME NEW i \in DOMAIN Parts
    PROVE  Fault(Parts[i]) \in Errors \cup {"none"}
<1> DEFINE p == Parts[i]
           Codes == Errors \cup {"none"}
<1>1. \A bad : Invalid(bad) \in Codes /\ Refuse("MISSING_INPUT", bad) \in Codes
               /\ Refuse("INVALID_TIME_RANGE", bad) \in Codes
  BY DEF Invalid, Refuse, Errors
<1>2. \A v, names : /\ ChoiceFault(v, names, "UNSUPPORTED_OPERATION") \in Codes
                    /\ ChoiceFault(v, names, "INVALID_REQUEST") \in Codes
  BY DEF ChoiceFault, Refuse, Errors
<1>3. \A a : ArtifactFault(a) \in Codes
  BY DEF ArtifactFault, Invalid, Refuse, Errors
<1>4. ArtifactsFault \in Codes
  <2> HIDE DEF Codes
  <2> QED
    BY <1>1, <1>3 DEF ArtifactsFault, Errors, Codes
<1>5. InputFault \in Codes /\ ParametersFault \in Codes /\ TimeoutFault \in Codes
  BY <1>1 DEF InputFault, ParametersFault, TimeoutFault
<1>6. p \in {"keys", "operation", "kind", "input", "artifacts", "amount", "paths",
             "parameters", "sections", "cache_policy", "timeout", "request_id", "rules"}
  BY PartsFacts
<1> HIDE DEF Codes, p
<1> QED
  BY <1>1, <1>2, <1>4, <1>5, <1>6 DEF Fault, p, Codes

LEMMA FaultlessParts ==
    ASSUME Faultless
    PROVE  /\ HasOnly(document, TopLevelKeys) /\ "command" \notin KeysIn(document)
           /\ OneOf(Field(document, "kind"), DocumentKinds)
           /\ ArtifactsFault = "none" /\ ~(IsPackage # (Artifacts.items # <<>>))
           /\ HasOnly(Rules, Sections) /\ TimeoutFault = "none" /\ AreRules(Rules)
<1>1. \A p \in {"keys", "kind", "artifacts", "amount", "sections", "timeout", "rules"} :
         Fault(p) = "none"
  BY PartsFacts DEF Faultless
<1>2. \A bad : Invalid(bad) = "none" => ~bad
  BY DEF Invalid, Refuse
<1>3. HasOnly(document, TopLevelKeys) /\ "command" \notin KeysIn(document)
  BY <1>1, <1>2 DEF Fault
<1>4. OneOf(Field(document, "kind"), DocumentKinds)
  BY <1>1 DEF Fault, ChoiceFault, Refuse
<1>5. ArtifactsFault = "none"
  BY <1>1 DEF Fault
<1>6. ~(IsPackage # (Artifacts.items # <<>>))
  BY <1>1, <1>2 DEF Fault
<1>7. HasOnly(Rules, Sections)
  BY <1>1, <1>2 DEF Fault
<1>8. TimeoutFault = "none"
  BY <1>1 DEF Fault
<1>9. AreRules(Rules)
  BY <1>1, <1>2 DEF Fault
<1> QED
  BY <1>3, <1>4, <1>5, <1>6, <1>7, <1>8, <1>9

\* No artifact is wrong, or the first of the wrong ones would have a fault.
LEMMA ArtifactsFacts ==
    ASSUME document \in Documents, document.is = "object", ArtifactsFault = "none"
    PROVE  \A i, j \in DOMAIN Artifacts.items :
              i # j => Artifacts.items[i].at.artifact_id # Artifacts.items[j].at.artifact_id
<1> DEFINE q == Artifacts.items
           wrong == {i \in DOMAIN q : ArtifactFault(q[i]) # "none"}
<1>1. Artifacts.is = "list"
  BY DEF ArtifactsFault
<1>2. DOMAIN q = 1..Len(q) /\ Len(q) \in Nat
  <2>1. IsValue(Artifacts) \/ Artifacts = List(<<>>)
    BY DocumentFacts DEF Artifacts, Default
  <2>2. q \in Seq(Items(Artifacts)) \/ q = <<>>
    BY <1>1, <2>1 DEF IsValue, Nothing, NotANumber, Flag, List
  <2> HIDE DEF q
  <2> QED
    BY <2>2
<1>3. wrong = {}
  <2> SUFFICES ASSUME wrong # {} PROVE FALSE
    OBVIOUS
  <2>1. wrong \in SUBSET (0..Len(q))
    BY <1>2
  <2>2. \E x \in wrong : \A y \in wrong : x <= y
    <3> HIDE DEF wrong, q
    <3> QED
      BY <1>2, <2>1, LeastNumber
  <2>3. Min(wrong) \in wrong
    <3> HIDE DEF wrong
    <3> QED
      BY <2>2 DEF Min
  <2>4. ArtifactsFault = ArtifactFault(q[Min(wrong)])
    BY <1>1 DEF ArtifactsFault
  <2> QED
    BY <2>3, <2>4
<1>4. Distinct(Ids(Artifacts))
  <2>1. ArtifactsFault = Invalid(~Distinct(Ids(Artifacts)))
    BY <1>1, <1>3 DEF ArtifactsFault
  <2> QED
    BY <2>1 DEF Invalid, Refuse
<1>5. ASSUME NEW i \in DOMAIN q
      PROVE  Field(q[i], "artifact_id") = q[i].at.artifact_id
  <2>1. IsName(Field(q[i], "artifact_id"))
    <3>1. ArtifactFault(q[i]) = "none"
      BY <1>3
    <3> QED
      BY <3>1 DEF ArtifactFault
  <2>2. Field(q[i], "artifact_id") # Nothing
    <3>1. Nothing.is # "text"
      BY DEF Nothing
    <3> QED
      BY <2>1, <3>1 DEF IsName
  <2> QED
    BY <2>1, <2>2 DEF Field, Default
<1>6. /\ DOMAIN Ids(Artifacts) = DOMAIN q
      /\ \A i \in DOMAIN q : Ids(Artifacts)[i] = Field(q[i], "artifact_id")
  BY DEF Ids
<1>7. \A i, j \in DOMAIN q : i # j => Ids(Artifacts)[i] # Ids(Artifacts)[j]
  BY <1>4, <1>6 DEF Distinct
<1> HIDE DEF q
<1>8. \A i, j \in DOMAIN q : i # j => q[i].at.artifact_id # q[j].at.artifact_id
  BY <1>5, <1>6, <1>7
<1> QED
  BY <1>8 DEF q

\* A document without a fault, once its rules are built.
LEMMA FaultlessIsUsable ==
    ASSUME document \in Documents, Faultless,
           \A v \in Nested("video") : \E b \in videos : b \in BuiltVideos(v),
           timelines = Timelines
    PROVE  AcceptedIsUsable
<1> DEFINE U == Within(document, {})
<1>1. document.is = "object"
  BY FaultlessParts DEF HasOnly
<1>2. /\ \A w \in U : IsValue(w) /\ Inner(w, {}) \subseteq U
      /\ \A k : Given(document, k) => document.at[k] \in U
  BY <1>1, DocumentFacts
<1>3. /\ \A v \in Under("video", Rules) : v \in Nested("video") /\ v \in U /\ IsVideoRule(v)
      /\ \A t \in Under("timeline_integrity", Rules) : t \in Timelines /\ t \in U /\ IsTimeline(t)
  BY <1>1, FaultlessParts, RulesAtAnyDepth
<1> HIDE DEF U
<1>4. ASSUME NEW v \in Under("video", Rules) PROVE \E b \in videos : IsUsable(b, v)
  <2>1. v \in Nested("video") /\ IsVideoRule(v) /\ \A x \in Inner(v, {}) : IsValue(x)
    BY <1>2, <1>3
  <2>2. PICK b \in videos : b \in BuiltVideos(v)
    BY <2>1
  <2>3. IsUsable(b, v)
    BY <2>1, <2>2, UsableFacts
  <2> QED
    BY <2>3
<1>5. ASSUME NEW t \in Under("timeline_integrity", Rules), NEW speed \in Under("speed", t)
      PROVE  ~Below(speed, 1)
  <2> DEFINE C == {w \in U : Quiet4(w)}
  <2>1. t \in U /\ IsTimeline(t)
    BY <1>3
  <2>2. t \in C
    BY <1>2, <2>1, TimelineIsQuiet
  <2>3. \A w \in C : Inner(w, {"limits"}) \subseteq C
    <3>1. \A w, x : x \in Inner(w, {"limits"}) => x \in Inner(w, {})
      BY DEF Inner
    <3>2. \A w : Quiet4(w) => \A x \in Inner(w, {"limits"}) : Quiet4(x)
      BY QuietGrows DEF Quiet4
    <3> QED
      BY <1>2, <3>1, <3>2
  <2>4. PICK w \in C : w.is = "object" /\ speed \in StreamRules(w, "speed")
    <3> HIDE DEF C
    <3> QED
      BY <1>5, <2>2, <2>3, UnderFacts
  <2>5. Given(w, "speed") /\ speed = w.at.speed
    BY <2>4 DEF StreamRules, Field, Default
  <2> QED
    BY <2>4, <2>5 DEF Quiet4, Settled
<1>6. \A i, j \in DOMAIN Artifacts.items :
         i # j => Artifacts.items[i].at.artifact_id # Artifacts.items[j].at.artifact_id
  BY <1>1, FaultlessParts, ArtifactsFacts
<1>7. Artifacts.items # <<>> <=> document.at.kind.text = "delivery_package"
  <2>1. OneOf(Field(document, "kind"), DocumentKinds)
    BY FaultlessParts
  <2>2. Field(document, "kind").is = "text"
    BY <2>1 DEF OneOf
  <2>3. Given(document, "kind") /\ document.at.kind.is = "text"
    BY <2>2 DEF Field, Default, Nothing
  <2>4. IsValue(document.at.kind)
    BY <1>2, <2>3
  <2>5. document.at.kind = String(document.at.kind.text)
    BY <2>3, <2>4 DEF IsValue, Nothing, NotANumber, Flag
  <2>6. IsPackage <=> document.at.kind.text = "delivery_package"
    BY <2>5 DEF IsPackage, String
  <2> QED
    BY <2>6, FaultlessParts DEF IsPackage
<1>8. ~Below(Field(document, "timeout"), 1)
  <2>1. Field(document, "timeout") = Nothing \/ IsPositive(Field(document, "timeout"))
    BY FaultlessParts DEF TimeoutFault, Refuse
  <2>2. Given(document, "timeout") => IsValue(document.at.timeout)
    BY <1>2
  <2>3. Field(document, "timeout") = Nothing \/ IsValue(Field(document, "timeout"))
    BY <2>2 DEF Field, Default
  <2>4. ~Below(Nothing, 1)
    BY DEF Below, Nothing
  <2> QED
    BY <2>1, <2>3, <2>4, AmountFacts
<1>9. KeysIn(document) \cap {"command"} = {}
  BY FaultlessParts
<1> QED
  BY <1>3, <1>4, <1>5, <1>6, <1>7, <1>8, <1>9 DEF AcceptedIsUsable

(***************************************************************************)
(* The inductive invariant: the parts read so far have no fault, and the   *)
(* rules of a request were built from the document's.                      *)
(***************************************************************************)
ReadSoFar ==
    /\ document \in Documents
    /\ part \in 1..14
    /\ answer \in Errors \cup {"none", "request"}
    /\ answer \in {"none", "request"} => \A i \in DOMAIN Parts : i < part => Fault(Parts[i]) = "none"
    /\ answer = "request" =>
          /\ part = 14 /\ timelines = Timelines
          /\ \A v \in Nested("video") : \E b \in videos : b \in BuiltVideos(v)

LEMMA ParseInitEstablishes == ParseInit => ReadSoFar
BY PartsFacts DEF ParseInit, ParseStart, ReadSoFar, Errors

\* What is read of a document stays as it is with the document.
LEMMA DocumentStays ==
    ASSUME document' = document
    PROVE  /\ \A i \in DOMAIN Parts : Fault(Parts[i])' = Fault(Parts[i])
           /\ Nested("video")' = Nested("video") /\ Timelines' = Timelines
<1>1. Rules' = Rules /\ Artifacts' = Artifacts /\ Parameters' = Parameters
      /\ (IsPackage' <=> IsPackage)
  BY DEF Rules, Artifacts, Parameters, IsPackage
<1>2. InputFault' = InputFault /\ ArtifactsFault' = ArtifactsFault
      /\ ParametersFault' = ParametersFault /\ TimeoutFault' = TimeoutFault
  BY <1>1 DEF InputFault, ArtifactsFault, ParametersFault, TimeoutFault
<1>3. \A i \in DOMAIN Parts : Fault(Parts[i])' = Fault(Parts[i])
  BY <1>1, <1>2 DEF Fault
<1>4. Nested("video")' = Nested("video")
  BY <1>1 DEF Nested
<1>5. Timelines' = Timelines
  BY <1>1 DEF Timelines, Nested
<1> QED
  BY <1>3, <1>4, <1>5

LEMMA ParseNextPreserves == ReadSoFar /\ [ParseNext]_parseVars => ReadSoFar'
<1> SUFFICES ASSUME ReadSoFar, [ParseNext]_parseVars
             PROVE  ReadSoFar'
  OBVIOUS
<1>0. DOMAIN Parts = 1..13
  BY PartsFacts
<1>1. CASE ReadPart
  <2>1. /\ answer = "none" /\ part \in DOMAIN Parts /\ Fault(Parts[part]) = "none"
        /\ part' = part + 1 /\ document' = document /\ answer' = answer
    BY <1>1 DEF ReadPart, Reading
  <2>2. \A i \in DOMAIN Parts : i < part' => Fault(Parts[i]) = "none"
    BY <1>0, <2>1 DEF ReadSoFar
  <2>3. \A i \in DOMAIN Parts : i < part' => Fault(Parts[i])' = "none"
    BY <2>1, <2>2, DocumentStays
  <2>4. part' \in 1..14
    BY <1>0, <2>1
  <2> QED
    BY <2>1, <2>3, <2>4 DEF ReadSoFar
<1>2. CASE RefuseDocument
  <2>1. /\ part \in DOMAIN Parts /\ Fault(Parts[part]) # "none"
        /\ answer' = Fault(Parts[part]) /\ part' = part /\ document' = document
    BY <1>2 DEF RefuseDocument, Reading
  <2>2. answer' \in Errors /\ answer' \notin {"none", "request"}
    BY <2>1, FaultIsAnError DEF Errors
  <2> QED
    BY <2>1, <2>2 DEF ReadSoFar
<1>3. CASE BuildRequest
  <2>1. /\ answer = "none" /\ part \notin DOMAIN Parts /\ answer' = "request"
        /\ timelines' = Timelines /\ part' = part /\ document' = document
    BY <1>3 DEF BuildRequest, Timelines
  <2>2. \A v \in Nested("video") : \E b \in videos' : b \in BuiltVideos(v)
    BY <1>3 DEF BuildRequest
  <2>3. part' = 14
    BY <1>0, <2>1 DEF ReadSoFar
  <2>4. \A i \in DOMAIN Parts : i < part' => Fault(Parts[i])' = "none"
    BY <2>1, DocumentStays DEF ReadSoFar
  <2> QED
    BY <2>1, <2>2, <2>3, <2>4, DocumentStays DEF ReadSoFar
<1>4. CASE UNCHANGED parseVars
  <2>1. /\ document' = document /\ part' = part /\ answer' = answer
        /\ videos' = videos /\ timelines' = timelines
    BY <1>4 DEF parseVars
  <2>2. /\ \A i \in DOMAIN Parts : Fault(Parts[i])' = Fault(Parts[i])
        /\ Nested("video")' = Nested("video") /\ Timelines' = Timelines
    BY <2>1, DocumentStays
  <2> QED
    BY <2>1, <2>2 DEF ReadSoFar
<1> QED
  BY <1>1, <1>2, <1>3, <1>4 DEF ParseNext

LEMMA ReadSoFarSuffices == ReadSoFar => AcceptedIsUsable
<1> SUFFICES ASSUME ReadSoFar PROVE AcceptedIsUsable
  OBVIOUS
<1>1. CASE answer # "request"
  BY <1>1 DEF AcceptedIsUsable
<1>2. CASE answer = "request"
  <2>1. \A i \in DOMAIN Parts : i < part
    BY <1>2, PartsFacts DEF ReadSoFar
  <2>2. Faultless
    BY <1>2, <2>1 DEF ReadSoFar, Faultless
  <2> QED
    BY <1>2, <2>2, FaultlessIsUsable DEF ReadSoFar
<1> QED
  BY <1>1, <1>2

THEOREM ReadSoFarHolds == ParseSpec => []ReadSoFar
<1>1. ParseInit => ReadSoFar
  BY ParseInitEstablishes
<1>2. ReadSoFar /\ [ParseNext]_parseVars => ReadSoFar'
  BY ParseNextPreserves
<1> QED
  BY <1>1, <1>2, PTL DEF ParseSpec

\* Whatever documents there are and however deep their values nest, one that
\* parse_request accepts is one the engine can work with (schemas.py 384-512):
\* there is no place to put a rule in where a check or a normalisation is
\* forgotten.
THEOREM AcceptedDocumentsAreUsable == ParseSpec => []AcceptedIsUsable
<1>1. ReadSoFar => AcceptedIsUsable
  BY ReadSoFarSuffices
<1> QED
  BY <1>1, ReadSoFarHolds, PTL

(***************************************************************************)
(* One form: however its lists are written, a rule is built to the same,   *)
(* and to one.                                                             *)
(***************************************************************************)

\* Of two orders that sort the same numbers, neither has a smaller one first.
LEMMA SameNumberNext ==
    ASSUME NEW n \in Nat, NEW t \in [1..n -> Int],
           NEW a \in Bijection(1..n, 1..n), \A i, j \in 1..n : i < j => t[a[i]] <= t[a[j]],
           NEW b \in Bijection(1..n, 1..n), \A i, j \in 1..n : i < j => t[b[i]] <= t[b[j]],
           NEW i \in 1..n
    PROVE  ~(t[a[i]] < t[b[i]])
<1> DEFINE u == [j \in 1..n |-> t[a[j]]]
           w == [j \in 1..n |-> t[b[j]]]
<1>1. /\ \A j \in 1..n : a[j] \in 1..n /\ b[j] \in 1..n
      /\ \A j, k \in 1..n : a[j] = a[k] => j = k
      /\ \A j \in 1..n : \E k \in 1..n : b[k] = j
  BY DEF Bijection, Injection, Surjection, IsInjective
<1>0. /\ u \in [1..n -> Int] /\ \A j, k \in 1..n : j < k => u[j] <= u[k]
      /\ w \in [1..n -> Int] /\ \A j, k \in 1..n : j < k => w[j] <= w[k]
      /\ \A j, k \in 1..n : b[k] = a[j] => w[k] = u[j]
  BY <1>1
<1> SUFFICES ASSUME u[i] < w[i] PROVE FALSE
  OBVIOUS
<1> HIDE DEF u, w
<1> DEFINE back == [j \in 1..i |-> CHOOSE k \in 1..n : b[k] = a[j]]
<1>2. ASSUME NEW j \in 1..i PROVE back[j] \in 1..n /\ b[back[j]] = a[j]
  <2>1. j \in 1..n /\ back[j] = CHOOSE k \in 1..n : b[k] = a[j]
    OBVIOUS
  <2>2. \E k \in 1..n : b[k] = a[j]
    BY <1>1, <2>1
  <2> QED
    BY <2>1, <2>2
<1>3. DOMAIN back = 1..i /\ back = [j \in 1..i |-> back[j]]
  OBVIOUS
<1> HIDE DEF back
<1>4. ASSUME NEW j \in 1..i PROVE back[j] \in 1..i - 1
  <2> DEFINE k == back[j]
  <2>0. j \in 1..n /\ k \in 1..n /\ b[k] = a[j]
    BY <1>2
  <2> HIDE DEF k
  <2>1. j \in 1..n /\ k \in 1..n /\ w[k] = u[j]
    BY <1>0, <2>0
  <2>2. u[j] \in Int /\ u[i] \in Int /\ w[k] \in Int /\ w[i] \in Int
    BY <1>0, <2>1
  <2>3. j = i \/ j < i
    OBVIOUS
  <2>4. u[j] <= u[i]
    BY <1>0, <2>1, <2>2, <2>3
  <2>5. i < k => w[i] <= w[k]
    BY <1>0, <2>1
  <2>6. ~(i < k) /\ i # k
    BY <2>1, <2>2, <2>4, <2>5
  <2>7. k \in 1..i - 1
    BY <2>1, <2>6
  <2> QED
    BY <2>7 DEF k
<1>5. back \in [1..i -> 1..i - 1]
  BY <1>3, <1>4
<1>6. /\ IsFiniteSet(1..i) /\ Cardinality(1..i) = i
      /\ IsFiniteSet(1..i - 1) /\ Cardinality(1..i - 1) = i - 1
  BY IndicesFacts
<1>7. Cardinality(1..i - 1) < Cardinality(1..i)
  BY <1>6
<1>8. PICK j, k \in 1..i : j # k /\ back[j] = back[k]
  BY <1>5, <1>6, <1>7, FS_PigeonHole
<1>9. a[j] = a[k] /\ j \in 1..n /\ k \in 1..n
  BY <1>2, <1>8
<1> QED
  BY <1>1, <1>8, <1>9

IsCutList(q) ==
    \A i \in DOMAIN q :
        q[i] = NotANumber \/ (q[i] = Number(q[i].tenths) /\ q[i].tenths \in Int)

\* Every list of cuts can be put in order.
LEMMA InOrderExists ==
    ASSUME NEW n \in Nat, NEW q, DOMAIN q = 1..n, IsCutList(q)
    PROVE  InOrder(q) # {}
<1> DEFINE D == 1..n
<1>1. CASE \E i \in D : q[i] = NotANumber
  <2> DEFINE p == [i \in D |-> i]
             r == [i \in D |-> q[p[i]]]
  <2>1. p \in Bijection(D, D)
    BY DEF Bijection, Injection, Surjection, IsInjective
  <2>2. r \in InOrder(q)
    BY <1>1, <2>1 DEF InOrder
  <2> QED
    BY <2>2
<1>2. CASE \A i \in D : q[i] # NotANumber
  <2> DEFINE t == [i \in D |-> q[i].tenths]
             Before2(i, j) == t[i] < t[j] \/ (t[i] = t[j] /\ i < j)
             R == {x \in D \X D : Before2(x[1], x[2])}
  <2>1. t \in [D -> Int] /\ \A i \in D : q[i] = Number(t[i])
    BY <1>2 DEF IsCutList
  <2> HIDE DEF t
  <2>2. StrictOrder(D, R)
    <3>1. IsFiniteSet(D)
      BY IndicesFacts
    <3>2. \A i, j \in D : <<i, j>> \in R <=> Before2(i, j)
      OBVIOUS
    <3>3. \A i \in D : i \in Int /\ t[i] \in Int
      BY <2>1
    <3> HIDE DEF D, R
    <3>4. \A i \in D : ~Before2(i, i)
      BY <3>3
    <3>5. ASSUME NEW i \in D, NEW j \in D, NEW k \in D, Before2(i, j), Before2(j, k)
          PROVE  Before2(i, k)
      BY <3>3, <3>5
    <3>6. ASSUME NEW i \in D, NEW j \in D PROVE i = j \/ Before2(i, j) \/ Before2(j, i)
      BY <3>3
    <3> QED
      BY <3>1, <3>2, <3>4, <3>5, <3>6 DEF StrictOrder
  <2> DEFINE p == Sorted(D, R)
             r == [i \in D |-> q[p[i]]]
  <2>3. Cardinality(D) = n
    BY IndicesFacts
  <2>4. /\ p \in Seq(D) /\ DOMAIN p = 1..Cardinality(D)
        /\ \A k \in 1..Cardinality(D) : p[k] \in D
        /\ \A x \in D : \E k \in 1..Cardinality(D) : p[k] = x
        /\ \A j, k \in 1..Cardinality(D) : j < k <=> <<p[j], p[k]>> \in R
        /\ \A j, k \in 1..Cardinality(D) : p[j] = p[k] => j = k
    <3> HIDE DEF D, R
    <3> QED
      BY <2>2, SortedFacts
  <2>5. \A i, j \in D : <<i, j>> \in R => t[i] <= t[j]
    BY <2>1
  <2>9. p = [k \in 1..Cardinality(D) |-> p[k]]
    <3> HIDE DEF D, R
    <3> QED
      BY DEF Sorted
  <2> HIDE DEF R, p
  <2>6. p \in Bijection(D, D)
    <3> HIDE DEF D
    <3>0. 1..Cardinality(D) = D
      BY <2>3 DEF D
    <3>1. p \in [D -> D]
      <4>1. p = [k \in D |-> p[k]]
        BY <2>9, <3>0
      <4> QED
        BY <2>4, <3>0, <4>1
    <3> QED
      BY <2>4, <3>0, <3>1 DEF Bijection, Injection, Surjection, IsInjective
  <2>7. ASSUME NEW i \in D, NEW j \in D, i < j PROVE ~Below(r[j], r[i].tenths)
    <3>1. /\ p[i] \in D /\ p[j] \in D /\ t[p[i]] <= t[p[j]]
          /\ r[i] = q[p[i]] /\ r[j] = q[p[j]]
      BY <2>3, <2>4, <2>5, <2>7
    <3>2. r[i] = Number(t[p[i]]) /\ r[j] = Number(t[p[j]])
      BY <2>1, <3>1
    <3>3. r[i].tenths = t[p[i]] /\ r[j].tenths = t[p[j]]
      BY <3>2 DEF Number
    <3>4. t[p[i]] \in Int /\ t[p[j]] \in Int
      BY <2>1, <3>1
    <3> QED
      BY <3>1, <3>3, <3>4 DEF Below
  <2>8. r \in InOrder(q)
    BY <2>6, <2>7 DEF InOrder
  <2> QED
    BY <2>8
<1> QED
  BY <1>1, <1>2

\* No two of its orders differ, unless there is a NaN among them.
LEMMA InOrderIsOne ==
    ASSUME NEW n \in Nat, NEW q, DOMAIN q = 1..n, IsCutList(q),
           \A i \in 1..n : q[i] # NotANumber,
           NEW r \in InOrder(q), NEW s \in InOrder(q)
    PROVE  r = s
<1> DEFINE t == [i \in 1..n |-> q[i].tenths]
<1>1. /\ t \in [1..n -> Int] /\ \A i \in 1..n : q[i] = Number(t[i])
      /\ \A x, y : Below(Number(x), y) <=> x < y
      /\ \A x : Number(x).tenths = x
  BY DEF IsCutList, Number, Below
<1> HIDE DEF t
<1>2. ASSUME NEW o \in InOrder(q)
      PROVE  \E a \in Bijection(1..n, 1..n) :
                /\ o = [i \in 1..n |-> q[a[i]]]
                /\ \A i, j \in 1..n : i < j => t[a[i]] <= t[a[j]]
  <2>1. PICK a \in Bijection(1..n, 1..n) : o = [i \in 1..n |-> q[a[i]]]
    BY <1>2 DEF InOrder
  <2>2. \A i, j \in 1..n : i < j => ~Below(o[j], o[i].tenths)
    <3>1. DOMAIN o = 1..n
      BY <2>1
    <3> QED
      BY <1>2, <3>1 DEF InOrder
  <2>3. \A i \in 1..n : a[i] \in 1..n
    BY DEF Bijection, Injection
  <2>4. ASSUME NEW i \in 1..n, NEW j \in 1..n, i < j PROVE t[a[i]] <= t[a[j]]
    <3>1. o[i] = Number(t[a[i]]) /\ o[j] = Number(t[a[j]])
      BY <1>1, <2>1, <2>3
    <3>2. ~(t[a[j]] < t[a[i]])
      BY <1>1, <2>2, <2>4, <3>1
    <3>3. t[a[i]] \in Int /\ t[a[j]] \in Int
      BY <1>1, <2>3
    <3> QED
      BY <3>2, <3>3
  <2> QED
    BY <2>1, <2>4
<1>3. PICK a \in Bijection(1..n, 1..n) :
         /\ r = [i \in 1..n |-> q[a[i]]]
         /\ \A i, j \in 1..n : i < j => t[a[i]] <= t[a[j]]
  BY <1>2
<1>4. PICK b \in Bijection(1..n, 1..n) :
         /\ s = [i \in 1..n |-> q[b[i]]]
         /\ \A i, j \in 1..n : i < j => t[b[i]] <= t[b[j]]
  BY <1>2
<1>5. ASSUME NEW i \in 1..n PROVE q[a[i]] = q[b[i]]
  <2>1. ~(t[a[i]] < t[b[i]]) /\ ~(t[b[i]] < t[a[i]])
    <3>1. ~(t[a[i]] < t[b[i]])
      BY <1>1, <1>3, <1>4, SameNumberNext
    <3>2. ~(t[b[i]] < t[a[i]])
      BY <1>1, <1>3, <1>4, SameNumberNext
    <3> QED
      BY <3>1, <3>2
  <2>2. a[i] \in 1..n /\ b[i] \in 1..n
    BY DEF Bijection, Injection
  <2>3. t[a[i]] \in Int /\ t[b[i]] \in Int
    BY <1>1, <2>2
  <2>4. t[a[i]] = t[b[i]]
    BY <2>1, <2>3
  <2> QED
    BY <1>1, <2>2, <2>4
<1> QED
  BY <1>3, <1>4, <1>5

\* q in the order c.
Reordered(q, c) == [i \in DOMAIN q |-> q[c[i]]]

LEMMA InOrderForgets ==
    ASSUME NEW q, NEW c \in Bijection(DOMAIN q, DOMAIN q)
    PROVE  InOrder(Reordered(q, c)) = InOrder(q)
<1> DEFINE D == DOMAIN q
           w == Reordered(q, c)
           back == Inverse(c, D, D)
           Orders(x) == {[i \in D |-> x[p[i]]] : p \in Bijection(D, D)}
           Fine(x, r) == \/ \E i \in D : x[i] = NotANumber
                         \/ \A i, j \in DOMAIN r : i < j => ~Below(r[j], r[i].tenths)
<1>1. DOMAIN w = D /\ \A i \in D : w[i] = q[c[i]]
  BY DEF Reordered
<1>2. /\ \A i \in D : c[i] \in D
      /\ \A j \in D : \E i \in D : c[i] = j
  BY DEF Bijection, Injection, Surjection
<1>3. InOrder(w) = {r \in Orders(w) : Fine(w, r)} /\ InOrder(q) = {r \in Orders(q) : Fine(q, r)}
  BY <1>1 DEF InOrder
<1>4. back \in Bijection(D, D) /\ \A i \in D : back[c[i]] = i
  BY Fun_BijInverse
<1>5. \A j \in D : back[j] \in D /\ c[back[j]] = j
  BY <1>2, <1>4
<1> HIDE DEF w, back
<1>6. ASSUME NEW p \in Bijection(D, D)
      PROVE  [i \in D |-> w[p[i]]] \in Orders(q)
  <2>1. [i \in D |-> c[p[i]]] \in Bijection(D, D)
    BY Fun_BijTransitive
  <2>2. \A i \in D : p[i] \in D
    BY DEF Bijection, Injection
  <2>3. [i \in D |-> w[p[i]]] = [i \in D |-> q[[k \in D |-> c[p[k]]][i]]]
    BY <1>1, <2>2
  <2> QED
    BY <2>1, <2>3
<1>7. ASSUME NEW p \in Bijection(D, D)
      PROVE  [i \in D |-> q[p[i]]] \in Orders(w)
  <2>1. [i \in D |-> back[p[i]]] \in Bijection(D, D)
    BY <1>4, Fun_BijTransitive
  <2>2. \A i \in D : p[i] \in D
    BY DEF Bijection, Injection
  <2>3. [i \in D |-> q[p[i]]] = [i \in D |-> w[[k \in D |-> back[p[k]]][i]]]
    BY <1>1, <1>5, <2>2
  <2> QED
    BY <2>1, <2>3
<1>8. Orders(w) = Orders(q)
  <2>1. ASSUME NEW r \in Orders(w) PROVE r \in Orders(q)
    <3>1. PICK p \in Bijection(D, D) : r = [i \in D |-> w[p[i]]]
      OBVIOUS
    <3> HIDE DEF Orders
    <3> QED
      BY <1>6, <3>1
  <2>2. ASSUME NEW r \in Orders(q) PROVE r \in Orders(w)
    <3>1. PICK p \in Bijection(D, D) : r = [i \in D |-> q[p[i]]]
      OBVIOUS
    <3> HIDE DEF Orders
    <3> QED
      BY <1>7, <3>1
  <2> HIDE DEF Orders
  <2> QED
    BY <2>1, <2>2
<1>9. (\E i \in D : w[i] = NotANumber) <=> (\E i \in D : q[i] = NotANumber)
  BY <1>1, <1>2
<1> QED
  BY <1>3, <1>8, <1>9 DEF w

\* w is v with its lists written in another order.
SameButOrder(v, w) ==
    /\ DOMAIN w.at = DOMAIN v.at
    /\ \A k \in DOMAIN v.at \ {"reference_metrics", "expected_cuts"} : w.at[k] = v.at[k]
    /\ "reference_metrics" \in DOMAIN v.at =>
          /\ w.at.reference_metrics = Nothing <=> v.at.reference_metrics = Nothing
          /\ v.at.reference_metrics # Nothing =>
                Items(w.at.reference_metrics) = Items(v.at.reference_metrics)
    /\ Field(v, "expected_cuts") = Nothing => Field(w, "expected_cuts") = Nothing
    /\ Field(v, "expected_cuts") # Nothing =>
          LET q == v.at.expected_cuts.items
          IN  \E c \in Bijection(DOMAIN q, DOMAIN q) : w.at.expected_cuts = List(Reordered(q, c))

SortedCuts(v) ==
    LET cuts == Field(v, "expected_cuts")
    IN  IF cuts = Nothing THEN {cuts} ELSE {List(q) : q \in InOrder(cuts.items)}

ReportedMetrics(v) == List(Chosen("vmaf", v) \o Chosen("ssim", v) \o Chosen("psnr", v))

WithCuts(v, c) ==
    Object([k \in DOMAIN v.at |->
        IF k = "expected_cuts" THEN c
        ELSE IF k = "reference_metrics" /\ v.at[k] # Nothing THEN ReportedMetrics(v.at[k])
        ELSE v.at[k]])

LEMMA BuiltVideosAre == \A v : BuiltVideos(v) = {WithCuts(v, c) : c \in SortedCuts(v)}
BY DEF BuiltVideos, WithCuts, SortedCuts, ReportedMetrics

\* The cuts of a right rule are numbers or NaN.
LEMMA CutsAreCutList ==
    ASSUME NEW d \in Documents, NEW v \in Within(d, {}), IsVideoRule(v),
           Field(v, "expected_cuts") # Nothing
    PROVE  LET q == v.at.expected_cuts.items
           IN  (\E n \in Nat : DOMAIN q = 1..n) /\ IsCutList(q)
<1> DEFINE cuts == v.at.expected_cuts
           q == cuts.items
<1>1. Given(v, "expected_cuts") /\ cuts = Field(v, "expected_cuts")
  BY DEF Field, Default
<1>2. v.is = "object" /\ cuts.is \in {"null", "list"}
  BY <1>1 DEF IsVideoRule, HasOnly, VideoLists, Given
<1>3. \A x \in Items(cuts) : IsAmount(x)
  BY DEF IsVideoRule
<1>4. \A x \in Within(d, {}) : IsValue(x) /\ Inner(x, {}) \subseteq Within(d, {})
  BY DocumentAssumption
<1>5. cuts \in Within(d, {})
  <2>1. Inner(v, {}) = {v.at[k] : k \in DOMAIN v.at}
    BY <1>2 DEF Inner
  <2>2. cuts \in Inner(v, {})
    BY <1>1, <2>1 DEF Given
  <2> QED
    BY <1>4, <2>2
<1>6. cuts.is = "list" /\ cuts.items \in Seq(Items(cuts))
  <2>1. IsValue(cuts) /\ cuts # Nothing
    BY <1>1, <1>4, <1>5
  <2>2. Nothing.is = "null" /\ NotANumber.is = "nan" /\ \A b : Flag(b).is = "bool"
    BY DEF Nothing, NotANumber, Flag
  <2> HIDE DEF cuts
  <2> QED
    BY <1>2, <2>1, <2>2 DEF IsValue
<1>7. PICK n \in Nat : DOMAIN q = 1..n
  BY <1>6, DOMAIN q = 1..Len(q), Len(q) \in Nat
<1>8. ASSUME NEW i \in DOMAIN q
      PROVE  q[i] = NotANumber \/ (q[i] = Number(q[i].tenths) /\ q[i].tenths \in Int)
  <2>1. q[i] \in Items(cuts)
    BY DEF Items
  <2>2. Inner(cuts, {}) = Items(cuts)
    BY <1>6 DEF Inner
  <2>3. q[i] \in Within(d, {}) /\ IsAmount(q[i])
    BY <1>3, <1>4, <1>5, <2>1, <2>2
  <2>4. IsValue(q[i]) /\ q[i].is \in {"number", "nan"}
    BY <1>4, <2>3 DEF IsAmount, IsNumber
  <2>5. Nothing.is = "null" /\ \A b : Flag(b).is = "bool"
    BY DEF Nothing, Flag
  <2> HIDE DEF q
  <2> QED
    BY <2>4, <2>5 DEF IsValue
<1> QED
  BY <1>7, <1>8 DEF IsCutList

LEMMA ReorderedFacts ==
    ASSUME NEW v, NEW w, SameButOrder(v, w)
    PROVE  SortedCuts(w) = SortedCuts(v)
<1>1. CASE Field(v, "expected_cuts") = Nothing
  BY <1>1 DEF SameButOrder, SortedCuts
<1>2. CASE Field(v, "expected_cuts") # Nothing
  <2> DEFINE q == v.at.expected_cuts.items
  <2>1. PICK c \in Bijection(DOMAIN q, DOMAIN q) : w.at.expected_cuts = List(Reordered(q, c))
    BY <1>2 DEF SameButOrder
  <2>2. Given(v, "expected_cuts") /\ Given(w, "expected_cuts")
    BY <1>2 DEF SameButOrder, Field, Default, Given
  <2>3. /\ Field(v, "expected_cuts") = v.at.expected_cuts
        /\ Field(w, "expected_cuts") = w.at.expected_cuts
    BY <2>2 DEF Field, Default
  <2>4. List(Reordered(q, c)) # Nothing /\ List(Reordered(q, c)).items = Reordered(q, c)
    <3>1. List(Reordered(q, c)).is = "list" /\ Nothing.is # "list"
      BY DEF List, Nothing
    <3> QED
      BY <3>1 DEF List
  <2>5. InOrder(Reordered(q, c)) = InOrder(q)
    BY InOrderForgets
  <2> HIDE DEF q
  <2>6. SortedCuts(w) = {List(r) : r \in InOrder(Reordered(q, c))}
    BY <2>1, <2>3, <2>4 DEF SortedCuts
  <2>7. SortedCuts(v) = {List(r) : r \in InOrder(q)}
    BY <1>2, <2>3 DEF SortedCuts, q
  <2> QED
    BY <2>5, <2>6, <2>7
<1> QED
  BY <1>1, <1>2

LEMMA SameFormWithCuts ==
    ASSUME NEW v, NEW w, SameButOrder(v, w), NEW c
    PROVE  WithCuts(w, c) = WithCuts(v, c)
<1> DEFINE Part(x, k) ==
       IF k = "expected_cuts" THEN c
       ELSE IF k = "reference_metrics" /\ x.at[k] # Nothing THEN ReportedMetrics(x.at[k])
       ELSE x.at[k]
<1>1. DOMAIN w.at = DOMAIN v.at
  BY DEF SameButOrder
<1>2. ASSUME NEW k \in DOMAIN v.at PROVE Part(w, k) = Part(v, k)
  <2>1. CASE k = "expected_cuts"
    BY <2>1
  <2>2. CASE k = "reference_metrics"
    <3>1. w.at[k] = Nothing <=> v.at[k] = Nothing
      BY <2>2 DEF SameButOrder
    <3>2. v.at[k] # Nothing => Items(w.at[k]) = Items(v.at[k])
      BY <2>2 DEF SameButOrder
    <3>3. v.at[k] # Nothing => ReportedMetrics(w.at[k]) = ReportedMetrics(v.at[k])
      BY <3>2 DEF ReportedMetrics, Chosen
    <3> QED
      BY <2>2, <3>1, <3>3
  <2>3. CASE k \notin {"expected_cuts", "reference_metrics"}
    BY <2>3 DEF SameButOrder
  <2> QED
    BY <2>1, <2>2, <2>3
<1>3. WithCuts(v, c) = Object([k \in DOMAIN v.at |-> Part(v, k)])
  BY DEF WithCuts
<1>4. WithCuts(w, c) = Object([k \in DOMAIN w.at |-> Part(w, k)])
  BY DEF WithCuts
<1> HIDE DEF Part
<1> QED
  BY <1>1, <1>2, <1>3, <1>4

\* A right rule is built, with a NaN among its cuts too: the step that builds
\* the request is never without an outcome.
LEMMA RightRulesAreBuilt ==
    ASSUME NEW d \in Documents, NEW v \in Within(d, {}), IsVideoRule(v)
    PROVE  BuiltVideos(v) # {}
<1>1. SortedCuts(v) # {}
  <2>1. CASE Field(v, "expected_cuts") = Nothing
    BY <2>1 DEF SortedCuts
  <2>2. CASE Field(v, "expected_cuts") # Nothing
    <3> DEFINE q == v.at.expected_cuts.items
    <3>1. (\E n \in Nat : DOMAIN q = 1..n) /\ IsCutList(q)
      BY <2>2, CutsAreCutList
    <3>2. Field(v, "expected_cuts") = v.at.expected_cuts
      BY <2>2 DEF Field, Default
    <3>3. InOrder(q) # {}
      <4> HIDE DEF q
      <4> QED
        BY <3>1, InOrderExists
    <3> QED
      BY <2>2, <3>2, <3>3 DEF SortedCuts
  <2> QED
    BY <2>1, <2>2
<1> QED
  BY <1>1, BuiltVideosAre

\* However a request writes the metrics and the cuts of a rule, the rule is
\* built to one and the same form, so that the order of these lists has no part
\* in the identity of the request (schemas.py 191, 209).  Only a NaN among the
\* cuts, which has no place in an order, is excepted.
THEOREM BuiltInOneForm ==
    ASSUME NEW d \in Documents, NEW v \in Within(d, {}), IsVideoRule(v),
           Field(v, "expected_cuts") # Nothing => NotANumber \notin Items(v.at.expected_cuts),
           NEW w, SameButOrder(v, w)
    PROVE  \E b : BuiltVideos(v) = {b} /\ BuiltVideos(w) = {b}
<1>1. \E c : SortedCuts(v) = {c}
  <2>1. CASE Field(v, "expected_cuts") = Nothing
    BY <2>1 DEF SortedCuts
  <2>2. CASE Field(v, "expected_cuts") # Nothing
    <3> DEFINE q == v.at.expected_cuts.items
    <3>1. PICK n \in Nat : DOMAIN q = 1..n
      BY <2>2, CutsAreCutList
    <3>2. IsCutList(q)
      BY <2>2, CutsAreCutList
    <3>3. \A i \in 1..n : q[i] # NotANumber
      BY <2>2, <3>1 DEF Items
    <3>4. SortedCuts(v) = {List(r) : r \in InOrder(q)}
      <4>1. Field(v, "expected_cuts") = v.at.expected_cuts
        BY <2>2 DEF Field, Default
      <4> QED
        BY <2>2, <4>1 DEF SortedCuts
    <3> HIDE DEF q
    <3>5. PICK r : r \in InOrder(q)
      BY <3>1, <3>2, InOrderExists
    <3>6. \A s \in InOrder(q) : s = r
      BY <3>1, <3>2, <3>3, <3>5, InOrderIsOne
    <3>7. InOrder(q) = {r}
      BY <3>5, <3>6
    <3> QED
      BY <3>4, <3>7
  <2> QED
    BY <2>1, <2>2
<1>2. PICK c : SortedCuts(v) = {c}
  BY <1>1
<1>3. SortedCuts(w) = {c}
  BY <1>2, ReorderedFacts
<1>4. BuiltVideos(v) = {WithCuts(v, c)}
  BY <1>2, BuiltVideosAre
<1>5. BuiltVideos(w) = {WithCuts(w, c)}
  BY <1>3, BuiltVideosAre
<1>6. WithCuts(w, c) = WithCuts(v, c)
  BY SameFormWithCuts
<1> QED
  BY <1>4, <1>5, <1>6
=============================================================================
