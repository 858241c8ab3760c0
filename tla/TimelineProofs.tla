--------------------------- MODULE TimelineProofs ---------------------------
(***************************************************************************)
(* Theorems about Cuts, for any plans and any detected cuts, and about     *)
(* Subtitles, for any subtitles, rules and timelines, with the lemmas on   *)
(* sorting that Flashes and RequestParsing need as well.                   *)
(***************************************************************************)
EXTENDS Cuts, Subtitles, FunctionTheorems, FiniteSetTheorems, TLAPS

(***************************************************************************)
(* What Sorted gives, for any finite set and any strict total order on it, *)
(* and what is least in it.                                                *)
(***************************************************************************)
StrictOrder(S, R) ==
    /\ IsFiniteSet(S)
    /\ \A x \in S : <<x, x>> \notin R
    /\ \A x, y, z \in S : <<x, y>> \in R /\ <<y, z>> \in R => <<x, z>> \in R
    /\ \A x, y \in S : x = y \/ <<x, y>> \in R \/ <<y, x>> \in R

Rank(S, R) == [x \in S |-> Cardinality(Before(S, R, x)) + 1]

\* The ranks of the elements are 1, 2, ..., one each.
LEMMA RankIsBijection ==
    ASSUME NEW S, NEW R, StrictOrder(S, R)
    PROVE  /\ Rank(S, R) \in Bijection(S, 1..Cardinality(S))
           /\ \A x, y \in S : <<x, y>> \in R => Rank(S, R)[x] < Rank(S, R)[y]
<1> DEFINE n == Cardinality(S)
<1> USE DEF StrictOrder
<1>1. n \in Nat
  BY FS_CardinalityType
<1>2. ASSUME NEW x \in S
      PROVE  /\ IsFiniteSet(Before(S, R, x)) /\ Cardinality(Before(S, R, x)) \in Nat
             /\ Cardinality(Before(S, R, x)) < n
  <2>1. Before(S, R, x) \in SUBSET S /\ x \in S /\ x \notin Before(S, R, x)
    BY DEF Before
  <2>2. /\ IsFiniteSet(Before(S, R, x))
        /\ Cardinality(Before(S, R, x)) <= n
        /\ n # Cardinality(Before(S, R, x))
    BY <2>1, FS_Subset
  <2> QED
    BY <1>1, <2>2, FS_CardinalityType
<1>3. ASSUME NEW x \in S, NEW y \in S, <<x, y>> \in R
      PROVE  Cardinality(Before(S, R, x)) < Cardinality(Before(S, R, y))
  <2>1. Before(S, R, x) \in SUBSET Before(S, R, y)
    BY <1>3 DEF Before
  <2>2. x \in Before(S, R, y) /\ x \notin Before(S, R, x)
    BY <1>3 DEF Before
  <2>3. /\ Cardinality(Before(S, R, x)) <= Cardinality(Before(S, R, y))
        /\ Cardinality(Before(S, R, y)) # Cardinality(Before(S, R, x))
    BY <1>2, <2>1, <2>2, FS_Subset
  <2> QED
    BY <1>2, <2>3
<1>4. Rank(S, R) \in [S -> 1..n]
  BY <1>1, <1>2 DEF Rank
<1>5. \A x, y \in S : <<x, y>> \in R => Rank(S, R)[x] < Rank(S, R)[y]
  BY <1>2, <1>3 DEF Rank
<1>6. Rank(S, R) \in Injection(S, 1..n)
  <2> SUFFICES ASSUME NEW x \in S, NEW y \in S, Rank(S, R)[x] = Rank(S, R)[y], x # y
               PROVE  FALSE
    BY <1>4 DEF Injection, IsInjective
  <2>1. Rank(S, R)[x] \in Int /\ Rank(S, R)[y] \in Int
    BY <1>4
  <2>2. Rank(S, R)[x] < Rank(S, R)[y] \/ Rank(S, R)[y] < Rank(S, R)[x]
    BY <1>5
  <2> QED
    BY <2>1, <2>2
<1>7. IsFiniteSet(1..n) /\ Cardinality(1..n) = n
  BY <1>1, FS_Interval
<1>8. Rank(S, R) \in Surjection(S, 1..n)
  BY <1>6, <1>7, FS_Injection
<1> QED
  BY <1>5, <1>6, <1>8 DEF Bijection

\* Every element once, and in order.
LEMMA SortedFacts ==
    ASSUME NEW S, NEW R, StrictOrder(S, R)
    PROVE  /\ Cardinality(S) \in Nat
           /\ Sorted(S, R) \in Seq(S)
           /\ Len(Sorted(S, R)) = Cardinality(S) /\ DOMAIN Sorted(S, R) = 1..Cardinality(S)
           /\ \A k \in 1..Cardinality(S) : Sorted(S, R)[k] \in S
           /\ \A x \in S : \E k \in 1..Cardinality(S) : Sorted(S, R)[k] = x
           /\ \A j, k \in 1..Cardinality(S) :
                 j < k <=> <<Sorted(S, R)[j], Sorted(S, R)[k]>> \in R
           /\ \A j, k \in 1..Cardinality(S) : Sorted(S, R)[j] = Sorted(S, R)[k] => j = k
<1> DEFINE n == Cardinality(S)
           s == Sorted(S, R)
           r == Rank(S, R)
<1>1. n \in Nat
  BY FS_CardinalityType DEF StrictOrder
<1>2. /\ r \in [S -> 1..n]
      /\ \A k \in 1..n : \E x \in S : r[x] = k
      /\ \A x, y \in S : r[x] = r[y] => x = y
      /\ \A x, y \in S : <<x, y>> \in R => r[x] < r[y]
  BY RankIsBijection DEF Bijection, Injection, Surjection, IsInjective
<1>3. ASSUME NEW k \in 1..n PROVE s[k] \in S /\ r[s[k]] = k
  <2>1. \A x \in S : Cardinality(Before(S, R, x)) \in Nat
    <3>1. \A x \in S : Before(S, R, x) \in SUBSET S
      BY DEF Before
    <3> QED
      BY <3>1, FS_Subset, FS_CardinalityType DEF StrictOrder
  <2>2. \A x \in S : r[x] = k <=> Cardinality(Before(S, R, x)) = k - 1
    BY <2>1 DEF Rank
  <2>3. s[k] = CHOOSE x \in S : Cardinality(Before(S, R, x)) = k - 1
    BY DEF Sorted
  <2>4. \E x \in S : Cardinality(Before(S, R, x)) = k - 1
    BY <1>2, <2>2
  <2> QED
    BY <2>2, <2>3, <2>4
<1>4. DOMAIN s = 1..n /\ s = [k \in 1..n |-> s[k]]
  BY DEF Sorted
<1> HIDE DEF s, r
<1>5. s \in Seq(S) /\ Len(s) = n
  BY <1>1, <1>3, <1>4
<1>6. ASSUME NEW x \in S PROVE \E k \in 1..n : s[k] = x
  BY <1>2, <1>3
<1>7. ASSUME NEW j \in 1..n, NEW k \in 1..n PROVE s[j] = s[k] => j = k
  BY <1>3
<1>8. ASSUME NEW j \in 1..n, NEW k \in 1..n PROVE j < k <=> <<s[j], s[k]>> \in R
  <2>1. s[j] \in S /\ s[k] \in S /\ r[s[j]] = j /\ r[s[k]] = k
    BY <1>3
  <2>2. s[j] = s[k] \/ <<s[j], s[k]>> \in R \/ <<s[k], s[j]>> \in R
    BY <2>1 DEF StrictOrder
  <2>3. j \in Int /\ k \in Int
    BY <1>1
  <2> QED
    BY <1>2, <2>1, <2>2, <2>3 DEF StrictOrder
<1> QED
  BY <1>1, <1>3, <1>4, <1>5, <1>6, <1>7, <1>8 DEF s

\* A finite set that is not empty has a least element, in any such order.
LEMMA LeastExists ==
    ASSUME NEW S, NEW R, StrictOrder(S, R), S # {}
    PROVE  \E x \in S : \A y \in S : x = y \/ <<x, y>> \in R
<1>1. Cardinality(S) \in Nat /\ Cardinality(S) # 0
  BY FS_EmptySet, FS_CardinalityType DEF StrictOrder
<1> DEFINE x == Sorted(S, R)[1]
<1>2. x \in S
  BY <1>1, SortedFacts
<1>3. ASSUME NEW y \in S PROVE x = y \/ <<x, y>> \in R
  <2>1. PICK k \in 1..Cardinality(S) : Sorted(S, R)[k] = y
    BY SortedFacts
  <2>2. k = 1 \/ 1 < k
    BY <1>1, <2>1
  <2>3. 1 \in 1..Cardinality(S)
    BY <1>1
  <2>4. 1 < k <=> <<Sorted(S, R)[1], Sorted(S, R)[k]>> \in R
    BY <2>3, SortedFacts
  <2> QED
    BY <2>1, <2>2, <2>4
<1> QED
  BY <1>2, <1>3

LEMMA ElementsFacts ==
    ASSUME NEW T, NEW s \in Seq(T)
    PROVE  Len(s) \in Nat /\ DOMAIN s = 1..Len(s) /\ \A k \in 1..Len(s) : s[k] \in T
OBVIOUS

LEMMA IndicesFacts ==
    ASSUME NEW n \in Nat
    PROVE  /\ IsFiniteSet(1..n) /\ Cardinality(1..n) = n
           /\ \A S : S \subseteq 1..n => IsFiniteSet(S)
<1>1. IsFiniteSet(1..n) /\ Cardinality(1..n) = n
  BY FS_Interval
<1> QED
  BY <1>1, FS_Subset

\* So has a set of indices of a sequence.
LEMMA LeastIndex ==
    ASSUME NEW n \in Nat, NEW S \in SUBSET (1..n), S # {}
    PROVE  \E x \in S : \A y \in S : x <= y
<1> DEFINE R == {p \in S \X S : p[1] < p[2]}
<1>1. IsFiniteSet(S)
  BY IndicesFacts
<1>2. StrictOrder(S, R)
  BY <1>1 DEF StrictOrder
<1>3. \A x, y \in S : <<x, y>> \in R => x < y
  OBVIOUS
<1> HIDE DEF R
<1>4. PICK x \in S : \A y \in S : x = y \/ <<x, y>> \in R
  BY <1>2, LeastExists
<1>5. \A y \in S : x = y \/ x < y
  BY <1>3, <1>4
<1>6. \A y \in S : x <= y
  BY <1>5
<1> QED
  BY <1>6

(***************************************************************************)
(* Cuts.  The inductive invariant: the planned cuts are looked at in time  *)
(* order, and each of the first Done of them is a pair or missing.         *)
(***************************************************************************)
Planned(i) == plan.expected[TimeOrder(plan.expected)[i]]

Done == Len(plan.expected) - Len(todo)

Pair == [time : Nat, index : DOMAIN plan.detected]

Typed ==
    /\ IsPlan(plan)
    /\ todo \in Seq(Nat) /\ missing \in Seq(Nat) /\ matched \in Seq(Pair)
    /\ cutStatus \in {"none", "PASS", "FAIL", "UNKNOWN"}

TodoIsTheRest ==
    /\ Len(todo) <= Len(plan.expected)
    /\ \A k \in 1..Len(todo) : todo[k] = Planned(Done + k)

TakenOnce ==
    /\ IsFiniteSet(Used) /\ Cardinality(Used) = Len(matched)
    /\ \A j, k \in 1..Len(matched) : matched[j].index = matched[k].index => j = k

AllAccounted ==
    /\ Len(matched) + Len(missing) = Done
    /\ \A k \in 1..Len(matched) : \E i \in 1..Done : matched[k].time = Planned(i)
    /\ \A k \in 1..Len(missing) : \E i \in 1..Done : missing[k] = Planned(i)
    /\ \A i \in 1..Done :
          \/ \E k \in 1..Len(matched) : matched[k].time = Planned(i)
          \/ \E k \in 1..Len(missing) : missing[k] = Planned(i)
    /\ missing = <<>> => \A k \in 1..Len(matched) : matched[k].time = Planned(k)

WithinWindow ==
    \A k \in 1..Len(matched) : Distance(matched[k].time, matched[k].index) <= plan.window

\* Of the detected cuts in I, none is better than what was made of the planned ones.
NoBetter(I) ==
    \A i \in I :
        /\ \A k \in 1..Len(missing) : Distance(missing[k], i) > plan.window
        /\ \A k \in 1..Len(matched) :
              Distance(matched[k].time, i) >= Distance(matched[k].time, matched[k].index)

Judged ==
    /\ cutStatus \in {"PASS", "FAIL"} => todo = <<>>
    /\ cutStatus = "PASS" => ~Violated
    /\ cutStatus = "FAIL" => Violated

CutInv ==
    /\ Typed /\ TodoIsTheRest /\ TakenOnce /\ AllAccounted /\ WithinWindow
    /\ NoBetter(Extra)
    /\ Apart => NoBetter(DOMAIN plan.detected)
    /\ Judged

----------------------------------------------------------------------------
(* Lemmas about times and their order. *)

LEMMA TimeOrderFacts ==
    ASSUME NEW e \in Seq(Nat)
    PROVE  /\ \A k \in 1..Len(e) : TimeOrder(e)[k] \in 1..Len(e)
           /\ \A j, k \in 1..Len(e) : TimeOrder(e)[j] = TimeOrder(e)[k] => j = k
           /\ \A i \in 1..Len(e) : \E k \in 1..Len(e) : TimeOrder(e)[k] = i
<1>1. Len(e) \in Nat /\ DOMAIN e = 1..Len(e)
  OBVIOUS
<1>2. IsFiniteSet(1..Len(e)) /\ Cardinality(1..Len(e)) = Len(e)
  BY <1>1, IndicesFacts
<1>3. StrictOrder(1..Len(e), EarlierIn(e))
  <2>1. \A i, j \in 1..Len(e) :
           <<i, j>> \in EarlierIn(e) <=> (e[i] < e[j] \/ (e[i] = e[j] /\ i < j))
    BY <1>1 DEF EarlierIn
  <2>2. \A i \in 1..Len(e) : e[i] \in Int /\ i \in Int
    BY <1>1
  <2>3. \A i \in 1..Len(e) : <<i, i>> \notin EarlierIn(e)
    BY <2>1, <2>2
  <2>4. ASSUME NEW i \in 1..Len(e), NEW j \in 1..Len(e), NEW k \in 1..Len(e),
               <<i, j>> \in EarlierIn(e), <<j, k>> \in EarlierIn(e)
        PROVE  <<i, k>> \in EarlierIn(e)
    <3>1. /\ e[i] \in Int /\ e[j] \in Int /\ e[k] \in Int /\ i \in Int /\ j \in Int /\ k \in Int
          /\ e[i] < e[j] \/ (e[i] = e[j] /\ i < j)
          /\ e[j] < e[k] \/ (e[j] = e[k] /\ j < k)
      BY <2>1, <2>2, <2>4
    <3>2. e[i] < e[k] \/ (e[i] = e[k] /\ i < k)
      BY <3>1
    <3> QED
      BY <2>1, <3>2
  <2>5. ASSUME NEW i \in 1..Len(e), NEW j \in 1..Len(e)
        PROVE  i = j \/ <<i, j>> \in EarlierIn(e) \/ <<j, i>> \in EarlierIn(e)
    <3>1. e[i] \in Int /\ e[j] \in Int /\ i \in Int /\ j \in Int
      BY <2>2
    <3>2. \/ i = j
          \/ e[i] < e[j] \/ (e[i] = e[j] /\ i < j)
          \/ e[j] < e[i] \/ (e[j] = e[i] /\ j < i)
      BY <3>1
    <3> QED
      BY <2>1, <3>2
  <2> QED
    BY <1>2, <2>3, <2>4, <2>5 DEF StrictOrder
<1>4. TimeOrder(e) = Sorted(1..Len(e), EarlierIn(e))
  BY <1>1 DEF TimeOrder
<1> DEFINE S == 1..Len(e)
           s == Sorted(S, EarlierIn(e))
<1>5. StrictOrder(S, EarlierIn(e))
  BY <1>3
<1> HIDE DEF S
<1>6. /\ \A k \in 1..Cardinality(S) : s[k] \in S
      /\ \A x \in S : \E k \in 1..Cardinality(S) : s[k] = x
      /\ \A j, k \in 1..Cardinality(S) : s[j] = s[k] => j = k
  BY <1>5, SortedFacts
<1>7. s = TimeOrder(e) /\ Cardinality(S) = Len(e) /\ S = 1..Len(e)
  BY <1>2, <1>4 DEF S
<1> HIDE DEF s
<1> QED
  BY <1>6, <1>7

LEMMA TypedFacts ==
    ASSUME Typed
    PROVE  /\ plan.expected \in Seq(Nat) /\ Len(plan.expected) \in Nat
           /\ DOMAIN plan.expected = 1..Len(plan.expected)
           /\ plan.window \in Nat /\ plan.maxError \in Nat
           /\ \A k \in 1..Len(plan.expected) :
                 plan.expected[k] \in Nat /\ Planned(k) \in Nat
           /\ DOMAIN plan.detected = 1..Len(plan.detected) /\ Len(plan.detected) \in Nat
           /\ Len(todo) \in Nat /\ Len(missing) \in Nat /\ Len(matched) \in Nat
           /\ DOMAIN missing = 1..Len(missing) /\ DOMAIN matched = 1..Len(matched)
           /\ \A k \in 1..Len(missing) : missing[k] \in Nat
           /\ \A k \in 1..Len(matched) :
                 matched[k].time \in Nat /\ matched[k].index \in DOMAIN plan.detected
<1>1. /\ plan.expected \in Seq(Nat) /\ plan.detected \in Seq(Nat)
      /\ plan.window \in Nat /\ plan.maxError \in Nat
      /\ todo \in Seq(Nat) /\ missing \in Seq(Nat) /\ matched \in Seq(Pair)
  BY DEF Typed, IsPlan
<1>2. \A k \in 1..Len(matched) : matched[k] \in Pair
  BY <1>1, ElementsFacts
<1>3. \A k \in 1..Len(plan.expected) :
         plan.expected[k] \in Nat /\ Planned(k) \in Nat
  <2> DEFINE e == plan.expected
  <2>1. e \in Seq(Nat)
    BY <1>1
  <2>2. \A k \in 1..Len(e) : Planned(k) = e[TimeOrder(e)[k]]
    BY DEF Planned
  <2> HIDE DEF e
  <2>3. \A k \in 1..Len(e) : e[k] \in Nat
    BY <2>1
  <2>4. \A k \in 1..Len(e) : TimeOrder(e)[k] \in 1..Len(e)
    BY <2>1, TimeOrderFacts
  <2>5. \A k \in 1..Len(e) : e[k] \in Nat /\ Planned(k) \in Nat
    BY <2>2, <2>3, <2>4
  <2> QED
    BY <2>5 DEF e
<1> QED
  BY <1>1, <1>2, <1>3, ElementsFacts DEF Pair

\* The detected cuts, and how far they are from a time.
LEMMA DistanceFacts ==
    ASSUME Typed, NEW e \in Nat, NEW i \in DOMAIN plan.detected
    PROVE  /\ Distance(e, i) \in Nat
           /\ \A f \in Nat : Apartness(e, f) <= Distance(e, i) + Distance(f, i)
<1>1. plan.detected[i] \in Nat
  BY DEF Typed, IsPlan
<1> QED
  BY <1>1 DEF Distance, Apartness

\* A cut in reach means that one is nearest, and that is not one taken before.
LEMMA NearestFacts ==
    ASSUME Typed, NEW e \in Nat, InReach(e) # {}
    PROVE  /\ Nearest(e) \in DOMAIN plan.detected \ Used
           /\ Distance(e, Nearest(e)) <= plan.window
           /\ \A i \in DOMAIN plan.detected \ Used : Distance(e, i) >= Distance(e, Nearest(e))
<1> DEFINE R == {p \in InReach(e) \X InReach(e) :
                    \/ Distance(e, p[1]) < Distance(e, p[2])
                    \/ Distance(e, p[1]) = Distance(e, p[2]) /\ p[1] < p[2]}
<1>1. /\ InReach(e) \subseteq DOMAIN plan.detected
      /\ DOMAIN plan.detected = 1..Len(plan.detected) /\ Len(plan.detected) \in Nat
  BY DEF InReach, Typed, IsPlan
<1>2. \A i \in InReach(e) : Distance(e, i) \in Int /\ i \in Int
  <2>1. \A i \in InReach(e) : Distance(e, i) \in Nat
    BY <1>1, DistanceFacts
  <2>2. \A i \in InReach(e) : i \in Int
    BY <1>1
  <2> QED
    BY <2>1, <2>2
<1>3. IsFiniteSet(InReach(e))
  BY <1>1, IndicesFacts
<1>4. StrictOrder(InReach(e), R)
  <2>1. \A i, j \in InReach(e) :
           <<i, j>> \in R <=> \/ Distance(e, i) < Distance(e, j)
                              \/ Distance(e, i) = Distance(e, j) /\ i < j
    OBVIOUS
  <2> HIDE DEF R
  <2> QED
    BY <1>2, <1>3, <2>1 DEF StrictOrder
<1>5. \E i \in InReach(e) : \A j \in InReach(e) : i = j \/ <<i, j>> \in R
  <2> HIDE DEF R
  <2> QED
    BY <1>4, LeastExists
<1>6. \E i \in InReach(e) :
         \A j \in InReach(e) : \/ Distance(e, i) < Distance(e, j)
                               \/ Distance(e, i) = Distance(e, j) /\ i <= j
  <2> DEFINE Closer(i, j) == \/ Distance(e, i) < Distance(e, j)
                             \/ Distance(e, i) = Distance(e, j) /\ i <= j
  <2>1. \A i, j \in InReach(e) : <<i, j>> \in R => Closer(i, j)
    BY <1>2
  <2>2. \A i \in InReach(e) : Closer(i, i)
    BY <1>2
  <2> HIDE DEF R, Closer
  <2>3. \E i \in InReach(e) : \A j \in InReach(e) : Closer(i, j)
    BY <1>5, <2>1, <2>2
  <2> QED
    BY <2>3 DEF Closer
<1>7. /\ Nearest(e) \in InReach(e)
      /\ \A j \in InReach(e) : \/ Distance(e, Nearest(e)) < Distance(e, j)
                               \/ Distance(e, Nearest(e)) = Distance(e, j) /\ Nearest(e) <= j
  BY <1>6 DEF Nearest
<1>8. ASSUME NEW i \in DOMAIN plan.detected \ Used
      PROVE  Distance(e, i) >= Distance(e, Nearest(e))
  <2>1. CASE i \in InReach(e)
    BY <1>2, <1>7, <2>1
  <2>2. CASE i \notin InReach(e)
    <3>1. ~(Distance(e, i) <= plan.window) /\ Distance(e, Nearest(e)) <= plan.window
      BY <1>7, <2>2 DEF InReach
    <3>2. Distance(e, i) \in Nat
      BY DistanceFacts
    <3>3. Distance(e, Nearest(e)) \in Int /\ plan.window \in Int
      BY <1>2, <1>7 DEF Typed, IsPlan
    <3> QED
      BY <3>1, <3>2, <3>3
  <2> QED
    BY <2>1, <2>2
<1> QED
  BY <1>7, <1>8 DEF InReach

----------------------------------------------------------------------------
(* One planned cut after the other. *)

LEMMA InitCutInv == CutInit => CutInv
<1> SUFFICES ASSUME CutInit PROVE CutInv
  OBVIOUS
<1> USE DEF CutInit, CutStart
<1> DEFINE e == plan.expected
<1>1. IsPlan(plan) /\ e \in Seq(Nat) /\ Len(e) \in Nat /\ DOMAIN e = 1..Len(e)
  BY CutAssumption DEF IsPlan
<1>2. \A k \in 1..Len(e) : e[TimeOrder(e)[k]] \in Nat
  <2>1. \A k \in 1..Len(e) : TimeOrder(e)[k] \in 1..Len(e)
    BY <1>1, TimeOrderFacts
  <2>2. \A k \in 1..Len(e) : e[k] \in Nat
    BY <1>1, ElementsFacts
  <2> QED
    BY <2>1, <2>2
<1>3. todo = [k \in 1..Len(e) |-> e[TimeOrder(e)[k]]]
  BY <1>1
<1>4. todo \in Seq(Nat) /\ Len(todo) = Len(e) /\ Done = 0
  BY <1>1, <1>2, <1>3 DEF Done
<1>5. matched = <<>> /\ missing = <<>> /\ Len(matched) = 0 /\ Len(missing) = 0
  OBVIOUS
<1>6. Typed
  BY <1>1, <1>4 DEF Typed
<1>7. TodoIsTheRest
  BY <1>1, <1>3, <1>4 DEF TodoIsTheRest, Planned
<1>8. TakenOnce
  <2>1. Used = {}
    BY <1>5 DEF Used
  <2> QED
    BY <1>5, <2>1, FS_EmptySet DEF TakenOnce
<1>9. AllAccounted /\ WithinWindow /\ Judged
  BY <1>4, <1>5 DEF AllAccounted, WithinWindow, Judged
<1>10. NoBetter(Extra) /\ NoBetter(DOMAIN plan.detected)
  BY <1>5 DEF NoBetter
<1> QED
  BY <1>6, <1>7, <1>8, <1>9, <1>10 DEF CutInv

\* The next planned cut, and what is left after it.
LEMMA NextPlanned ==
    ASSUME CutInv, todo # <<>>, todo' = Tail(todo), UNCHANGED plan
    PROVE  /\ Head(todo) \in Nat /\ Head(todo) = Planned(Done + 1)
           /\ Done \in Nat /\ Done' = Done + 1 /\ Done + 1 <= Len(plan.expected)
           /\ todo' \in Seq(Nat) /\ TodoIsTheRest'
           /\ \A i : Planned(i)' = Planned(i)
<1> USE DEF CutInv, Typed
<1>1. /\ Len(todo) \in Nat \ {0} /\ Len(plan.expected) \in Nat
      /\ Len(todo) <= Len(plan.expected)
  BY DEF IsPlan, TodoIsTheRest
<1>2. /\ Len(todo') = Len(todo) - 1 /\ todo' \in Seq(Nat)
      /\ \A k \in 1..Len(todo') : todo'[k] = todo[k + 1]
  BY <1>1
<1>3. /\ Done \in Nat /\ Done' = Done + 1 /\ Done + 1 <= Len(plan.expected)
  BY <1>1, <1>2 DEF Done
<1>4. \A i : Planned(i)' = Planned(i)
  BY DEF Planned
<1>5. Head(todo) \in Nat /\ Head(todo) = Planned(Done + 1)
  BY <1>1 DEF TodoIsTheRest
<1>6. TodoIsTheRest'
  <2>1. ASSUME NEW k \in 1..Len(todo') PROVE todo'[k] = Planned(Done + k)'
    <3>1. k + 1 \in 1..Len(todo) /\ Done' + k = Done + (k + 1)
      BY <1>1, <1>2, <1>3
    <3>2. todo'[k] = Planned(Done + (k + 1))
      BY <1>2, <3>1 DEF TodoIsTheRest
    <3> QED
      BY <3>1, <3>2 DEF Planned
  <2>2. Len(todo') <= Len(plan.expected)
    BY <1>1, <1>2
  <2> HIDE DEF CutInv, Typed
  <2>3. UNCHANGED plan
    OBVIOUS
  <2> QED
    BY <2>1, <2>2, <2>3 DEF TodoIsTheRest
<1> QED
  BY <1>2, <1>3, <1>4, <1>5, <1>6

\* If planned cuts are far apart, no earlier one has taken a detected cut that
\* is in reach of the next.
LEMMA OthersAreFar ==
    ASSUME CutInv, todo # <<>>, Apart,
           NEW i \in DOMAIN plan.detected, Distance(Head(todo), i) <= plan.window
    PROVE  i \notin Used
<1> SUFFICES ASSUME i \in Used PROVE FALSE
  OBVIOUS
<1> USE DEF CutInv
<1> DEFINE e == plan.expected
           a(j) == TimeOrder(e)[j]
<1>1. PICK k \in DOMAIN matched : matched[k].index = i
  BY DEF Used
<1>2. k \in 1..Len(matched) /\ matched[k].time \in Nat
  BY <1>1, TypedFacts
<1>3. PICK j \in 1..Done : matched[k].time = Planned(j)
  BY <1>2 DEF AllAccounted
<1>4. /\ Len(todo) \in Nat \ {0} /\ e \in Seq(Nat) /\ Len(e) \in Nat /\ DOMAIN e = 1..Len(e)
      /\ Done + 1 \in 1..Len(e) /\ j \in 1..Len(e) /\ j # Done + 1
      /\ Head(todo) = Planned(Done + 1) /\ Planned(Done + 1) \in Nat
  <2>1. Len(todo) \in Nat \ {0} /\ Len(todo) <= Len(e) /\ Head(todo) = todo[1]
    BY DEF Typed, TodoIsTheRest
  <2>2. Len(e) \in Nat /\ e \in Seq(Nat) /\ DOMAIN e = 1..Len(e)
    BY TypedFacts
  <2>3. Done \in Nat /\ Done + 1 <= Len(e)
    BY <2>1, <2>2 DEF Done
  <2>4. Done + 1 \in 1..Len(e) /\ j \in 1..Len(e) /\ j # Done + 1
    <3> HIDE DEF e
    <3>1. j \in 1..Done
      BY <1>3
    <3> QED
      BY <2>2, <2>3, <3>1
  <2>5. Head(todo) = Planned(Done + 1)
    BY <2>1 DEF TodoIsTheRest
  <2>6. Planned(Done + 1) \in Nat
    BY <2>4, TypedFacts
  <2> QED
    BY <2>1, <2>2, <2>4, <2>5, <2>6
<1>5. a(j) \in 1..Len(e) /\ a(Done + 1) \in 1..Len(e) /\ a(j) # a(Done + 1)
  BY <1>4, TimeOrderFacts
<1>6. Planned(j) = e[a(j)] /\ Planned(Done + 1) = e[a(Done + 1)]
  BY DEF Planned
<1>7. Apartness(Planned(j), Planned(Done + 1)) > 2 * plan.window
  <2>1. CASE a(j) < a(Done + 1)
    BY <1>4, <1>5, <1>6, <2>1 DEF Apart
  <2>2. CASE a(Done + 1) < a(j)
    <3>1. Apartness(Planned(Done + 1), Planned(j)) > 2 * plan.window
      BY <1>4, <1>5, <1>6, <2>2 DEF Apart
    <3>2. Planned(j) \in Nat /\ Planned(Done + 1) \in Nat
      BY <1>2, <1>3, <1>4
    <3> QED
      BY <3>1, <3>2 DEF Apartness
  <2> QED
    BY <1>4, <1>5, <2>1, <2>2
<1>8. /\ Apartness(Planned(j), Planned(Done + 1)) <=
             Distance(Planned(j), i) + Distance(Planned(Done + 1), i)
      /\ Distance(Planned(j), i) \in Nat /\ Distance(Planned(Done + 1), i) \in Nat
  BY <1>2, <1>3, <1>4, DistanceFacts
<1>9. Distance(Planned(j), i) <= plan.window
  BY <1>1, <1>2, <1>3 DEF WithinWindow
<1>10. Apartness(Planned(j), Planned(Done + 1)) \in Int
  <2>1. Planned(j) \in Nat /\ Planned(Done + 1) \in Nat
    BY <1>2, <1>3, <1>4
  <2> QED
    BY <2>1 DEF Apartness
<1>11. plan.window \in Int
  BY DEF Typed, IsPlan
<1> QED
  BY <1>4, <1>7, <1>8, <1>9, <1>10, <1>11

\* What a step that leaves the plan alone leaves alone with it.
LEMMA SamePlan ==
    ASSUME UNCHANGED plan
    PROVE  /\ \A e, i : Distance(e, i)' = Distance(e, i)
           /\ \A i : Planned(i)' = Planned(i)
           /\ IsPlan(plan) => IsPlan(plan)'
           /\ Apart' = Apart
BY DEF Distance, Planned, Apart

LEMMA MatchKeepsCutInv ==
    ASSUME CutInv, MatchCut
    PROVE  CutInv'
<1> USE DEF CutInv
<1> DEFINE h == Head(todo)
           n == Nearest(Head(todo))
           len == Len(matched)
           pair == [time |-> Head(todo), index |-> Nearest(Head(todo))]
<1>1. /\ todo # <<>> /\ InReach(h) # {} /\ todo' = Tail(todo)
      /\ matched' = Append(matched, pair)
      /\ UNCHANGED plan /\ UNCHANGED missing
      /\ cutStatus = "none" /\ cutStatus' = "none"
  BY DEF MatchCut
<1>2. /\ h \in Nat /\ h = Planned(Done + 1) /\ Done \in Nat /\ Done' = Done + 1
      /\ todo' \in Seq(Nat) /\ TodoIsTheRest'
  BY <1>1, NextPlanned
<1>3. /\ n \in DOMAIN plan.detected \ Used
      /\ Distance(h, n) <= plan.window
      /\ \A i \in DOMAIN plan.detected \ Used : Distance(h, i) >= Distance(h, n)
  BY <1>1, <1>2, NearestFacts
<1>4. /\ \A e, i : Distance(e, i)' = Distance(e, i)
      /\ \A i : Planned(i)' = Planned(i)
      /\ IsPlan(plan)' /\ Apart' = Apart
  BY <1>1, SamePlan DEF Typed
<1>5. /\ len \in Nat /\ matched \in Seq(Pair) /\ pair \in Pair
      /\ matched' \in Seq(Pair) /\ Len(matched') = len + 1
      /\ matched'[len + 1] = pair
      /\ \A k \in 1..len : matched'[k] = matched[k]
  <2>1. len \in Nat /\ matched \in Seq(Pair) /\ pair \in Pair
    BY <1>2, <1>3, TypedFacts DEF Typed, Pair
  <2> HIDE DEF pair
  <2> QED
    BY <1>1, <2>1
<1>6. \A k \in 1..Len(matched') : k \in 1..len \/ k = len + 1
  BY <1>5
<1>7. pair.time = h /\ pair.index = n
  OBVIOUS
<1> HIDE DEF pair, n, h
<1>8. Used' = Used \cup {n}
  <2>1. /\ Used = {matched[k].index : k \in 1..len}
        /\ Used' = {matched'[k].index : k \in 1..len + 1}
    BY <1>5 DEF Used
  <2>2. \A k \in 1..len + 1 : k \in 1..len \/ k = len + 1
    BY <1>5
  <2>3. \A k \in 1..len : k \in 1..len + 1 /\ matched'[k].index = matched[k].index
    BY <1>5
  <2>4. len + 1 \in 1..len + 1 /\ matched'[len + 1].index = n
    BY <1>5, <1>7
  <2> HIDE DEF len
  <2> QED
    BY <2>1, <2>2, <2>3, <2>4
<1>9. Typed'
  <2>1. Pair' = Pair
    BY <1>1 DEF Pair
  <2> QED
    BY <1>1, <1>2, <1>4, <1>5, <2>1 DEF Typed
<1>10. TakenOnce'
  <2>1. IsFiniteSet(Used') /\ Cardinality(Used') = len + 1
    BY <1>3, <1>5, <1>8, FS_AddElement DEF TakenOnce
  <2>2. \A k \in 1..len : matched[k].index \in Used
    BY <1>5 DEF Used
  <2>3. ASSUME NEW j \in 1..Len(matched'), NEW k \in 1..Len(matched'),
               matched'[j].index = matched'[k].index
        PROVE  j = k
    <3>1. CASE j \in 1..len /\ k \in 1..len
      BY <1>5, <2>3, <3>1 DEF TakenOnce
    <3>2. CASE j \in 1..len /\ k = len + 1
      BY <1>3, <1>5, <1>7, <2>2, <2>3, <3>2
    <3>3. CASE j = len + 1 /\ k \in 1..len
      BY <1>3, <1>5, <1>7, <2>2, <2>3, <3>3
    <3> QED
      BY <1>6, <3>1, <3>2, <3>3
  <2> QED
    BY <1>5, <2>1, <2>3 DEF TakenOnce
<1>11. AllAccounted'
  <2>1. Len(matched') + Len(missing') = Done'
    <3>1. len + Len(missing) = Done /\ Len(missing) \in Nat
      BY TypedFacts DEF AllAccounted
    <3> QED
      BY <1>1, <1>2, <1>5, <3>1
  <2>2. \A i \in 1..Done : i \in 1..Done'
    BY <1>2
  <2>3. Done + 1 \in 1..Done' /\ \A i \in 1..Done' : i \in 1..Done \/ i = Done + 1
    BY <1>2
  <2>4. \A k \in 1..Len(matched') : \E i \in 1..Done' : matched'[k].time = Planned(i)
    <3>1. \A k \in 1..len : \E i \in 1..Done : matched[k].time = Planned(i)
      BY DEF AllAccounted
    <3> QED
      BY <1>2, <1>5, <1>6, <1>7, <2>2, <2>3, <3>1
  <2>5. \A k \in 1..Len(missing') : \E i \in 1..Done' : missing'[k] = Planned(i)
    BY <1>1, <2>2 DEF AllAccounted
  <2>6. \A i \in 1..Done' :
          \/ \E k \in 1..Len(matched') : matched'[k].time = Planned(i)
          \/ \E k \in 1..Len(missing') : missing'[k] = Planned(i)
    <3>1. \A i \in 1..Done :
            \/ \E k \in 1..len : matched[k].time = Planned(i)
            \/ \E k \in 1..Len(missing) : missing[k] = Planned(i)
      BY DEF AllAccounted
    <3>2. \A k \in 1..len : k \in 1..Len(matched')
      BY <1>5
    <3>3. len + 1 \in 1..Len(matched')
      BY <1>5
    <3> QED
      BY <1>1, <1>2, <1>5, <1>7, <2>3, <3>1, <3>2, <3>3
  <2>7. ASSUME missing' = <<>>, NEW k \in 1..Len(matched')
        PROVE  matched'[k].time = Planned(k)
    <3>1. len = Done
      BY <1>1, <1>2, <1>5, <2>7 DEF AllAccounted
    <3>2. CASE k \in 1..len
      BY <1>1, <1>5, <2>7, <3>2 DEF AllAccounted
    <3>3. CASE k = len + 1
      BY <1>2, <1>5, <1>7, <3>1, <3>3
    <3> QED
      BY <1>6, <3>2, <3>3
  <2> QED
    BY <1>4, <2>1, <2>4, <2>5, <2>6, <2>7 DEF AllAccounted
<1>12. WithinWindow'
  <2>1. \A k \in 1..Len(matched') :
           Distance(matched'[k].time, matched'[k].index) <= plan.window
    BY <1>3, <1>5, <1>6, <1>7 DEF WithinWindow
  <2> QED
    BY <1>1, <1>4, <2>1 DEF WithinWindow
<1>13. ASSUME NEW I, NoBetter(I), \A i \in I : Distance(h, i) >= Distance(h, n)
       PROVE  \A i \in I :
                /\ \A k \in 1..Len(missing') : Distance(missing'[k], i) > plan.window
                /\ \A k \in 1..Len(matched') :
                     Distance(matched'[k].time, i) >=
                        Distance(matched'[k].time, matched'[k].index)
  BY <1>1, <1>5, <1>6, <1>7, <1>13 DEF NoBetter
<1>14. NoBetter(Extra)'
  <2>1. Extra' \subseteq Extra /\ Extra' \subseteq DOMAIN plan.detected \ Used
    BY <1>1, <1>8 DEF Extra
  <2>2. NoBetter(Extra') /\ \A i \in Extra' : Distance(h, i) >= Distance(h, n)
    BY <1>3, <2>1 DEF NoBetter
  <2> QED
    BY <1>1, <1>4, <1>13, <2>2 DEF NoBetter
<1>15. ASSUME Apart PROVE NoBetter(DOMAIN plan.detected)'
  <2>1. ASSUME NEW i \in DOMAIN plan.detected PROVE Distance(h, i) >= Distance(h, n)
    <3>1. CASE i \notin Used
      BY <1>3, <3>1
    <3>2. CASE i \in Used
      <4>1. ~(Distance(h, i) <= plan.window)
        BY <1>1, <1>15, <3>2, OthersAreFar DEF h
      <4>2. Distance(h, i) \in Nat /\ Distance(h, n) \in Nat /\ plan.window \in Nat
        BY <1>2, <1>3, DistanceFacts, TypedFacts
      <4> QED
        BY <1>3, <4>1, <4>2
    <3> QED
      BY <3>1, <3>2
  <2>2. NoBetter(DOMAIN plan.detected)
    BY <1>15
  <2> QED
    BY <1>1, <1>4, <1>13, <2>1, <2>2 DEF NoBetter
<1>16. Judged'
  BY <1>1 DEF Judged
<1> QED
  BY <1>2, <1>4, <1>9, <1>10, <1>11, <1>12, <1>14, <1>15, <1>16

LEMMA MissKeepsCutInv ==
    ASSUME CutInv, MissCut
    PROVE  CutInv'
<1> USE DEF CutInv
<1> DEFINE h == Head(todo)
           len == Len(missing)
<1>1. /\ todo # <<>> /\ InReach(h) = {} /\ todo' = Tail(todo)
      /\ missing' = Append(missing, h)
      /\ UNCHANGED plan /\ UNCHANGED matched
      /\ cutStatus = "none" /\ cutStatus' = "none"
  BY DEF MissCut
<1>2. /\ h \in Nat /\ h = Planned(Done + 1) /\ Done \in Nat /\ Done' = Done + 1
      /\ todo' \in Seq(Nat) /\ TodoIsTheRest'
  BY <1>1, NextPlanned
<1>3. /\ \A e, i : Distance(e, i)' = Distance(e, i)
      /\ \A i : Planned(i)' = Planned(i)
      /\ IsPlan(plan)' /\ Apart' = Apart
  BY <1>1, SamePlan DEF Typed
<1>4. /\ len \in Nat /\ missing' \in Seq(Nat) /\ Len(missing') = len + 1
      /\ missing'[len + 1] = h
      /\ \A k \in 1..len : missing'[k] = missing[k]
  <2>1. len \in Nat /\ missing \in Seq(Nat)
    BY DEF Typed
  <2> QED
    BY <1>1, <1>2, <2>1
<1>5. \A k \in 1..Len(missing') : k \in 1..len \/ k = len + 1
  BY <1>4
<1>6. \A i \in DOMAIN plan.detected : i \notin Used => Distance(h, i) > plan.window
  <2>1. ASSUME NEW i \in DOMAIN plan.detected, i \notin Used
        PROVE  Distance(h, i) > plan.window
    <3>1. ~(Distance(h, i) <= plan.window)
      BY <1>1, <2>1 DEF InReach
    <3>2. Distance(h, i) \in Nat /\ plan.window \in Nat
      BY <1>2, DistanceFacts, TypedFacts
    <3> QED
      BY <3>1, <3>2
  <2> QED
    BY <2>1
<1> HIDE DEF h
<1>7. Typed'
  <2>1. Pair' = Pair
    BY <1>1 DEF Pair
  <2> QED
    BY <1>1, <1>2, <1>3, <1>4, <2>1 DEF Typed
<1>8. TakenOnce' /\ Used' = Used /\ Extra' = Extra
  BY <1>1 DEF TakenOnce, Used, Extra
<1>9. AllAccounted'
  <2>1. Len(matched') + Len(missing') = Done'
    <3>1. Len(matched) + len = Done /\ Len(matched) \in Nat
      BY TypedFacts DEF AllAccounted
    <3> QED
      BY <1>1, <1>2, <1>4, <3>1
  <2>2. \A i \in 1..Done : i \in 1..Done'
    BY <1>2
  <2>3. Done + 1 \in 1..Done' /\ \A i \in 1..Done' : i \in 1..Done \/ i = Done + 1
    BY <1>2
  <2>4. \A k \in 1..Len(matched') : \E i \in 1..Done' : matched'[k].time = Planned(i)
    BY <1>1, <2>2 DEF AllAccounted
  <2>5. \A k \in 1..Len(missing') : \E i \in 1..Done' : missing'[k] = Planned(i)
    <3>1. \A k \in 1..len : \E i \in 1..Done : missing[k] = Planned(i)
      BY DEF AllAccounted
    <3> QED
      BY <1>2, <1>4, <1>5, <2>2, <2>3, <3>1
  <2>6. \A i \in 1..Done' :
          \/ \E k \in 1..Len(matched') : matched'[k].time = Planned(i)
          \/ \E k \in 1..Len(missing') : missing'[k] = Planned(i)
    <3>1. \A i \in 1..Done :
            \/ \E k \in 1..Len(matched) : matched[k].time = Planned(i)
            \/ \E k \in 1..len : missing[k] = Planned(i)
      BY DEF AllAccounted
    <3>2. \A k \in 1..len : k \in 1..Len(missing')
      BY <1>4
    <3>3. len + 1 \in 1..Len(missing')
      BY <1>4
    <3> QED
      BY <1>1, <1>2, <1>4, <2>3, <3>1, <3>2, <3>3
  <2>7. missing' # <<>>
    BY <1>4
  <2> QED
    BY <1>3, <2>1, <2>4, <2>5, <2>6, <2>7 DEF AllAccounted
<1>10. WithinWindow'
  BY <1>1, <1>3 DEF WithinWindow
<1>11. ASSUME NEW I, NoBetter(I), \A i \in I : Distance(h, i) > plan.window
       PROVE  \A i \in I :
                /\ \A k \in 1..Len(missing') : Distance(missing'[k], i) > plan.window
                /\ \A k \in 1..Len(matched') :
                     Distance(matched'[k].time, i) >=
                        Distance(matched'[k].time, matched'[k].index)
  BY <1>1, <1>4, <1>5, <1>11 DEF NoBetter
<1>12. NoBetter(Extra)'
  <2>1. NoBetter(Extra) /\ \A i \in Extra : Distance(h, i) > plan.window
    BY <1>6 DEF Extra
  <2> QED
    BY <1>1, <1>3, <1>8, <1>11, <2>1 DEF NoBetter
<1>13. ASSUME Apart PROVE NoBetter(DOMAIN plan.detected)'
  <2>1. ASSUME NEW i \in DOMAIN plan.detected PROVE Distance(h, i) > plan.window
    <3>1. CASE i \notin Used
      BY <1>6, <3>1
    <3>2. CASE i \in Used
      <4>1. ~(Distance(h, i) <= plan.window)
        BY <1>1, <1>13, <3>2, OthersAreFar DEF h
      <4>2. Distance(h, i) \in Nat /\ plan.window \in Nat
        BY <1>2, DistanceFacts, TypedFacts
      <4> QED
        BY <4>1, <4>2
    <3> QED
      BY <3>1, <3>2
  <2>2. NoBetter(DOMAIN plan.detected)
    BY <1>13
  <2> QED
    BY <1>1, <1>3, <1>11, <2>1, <2>2 DEF NoBetter
<1>14. Judged'
  BY <1>1 DEF Judged
<1> QED
  BY <1>2, <1>3, <1>7, <1>8, <1>9, <1>10, <1>12, <1>13, <1>14

\* The rest of the invariant is not about the verdict.
LEMMA VerdictKeepsCutInv ==
    ASSUME CutInv, UNCHANGED <<plan, todo, matched, missing>>, Judged',
           cutStatus' \in {"none", "PASS", "FAIL", "UNKNOWN"}
    PROVE  CutInv'
<1> USE DEF CutInv
<1>1. UNCHANGED <<Done, Used, Extra, Pair>>
  BY DEF Done, Used, Extra, Pair
<1>2. /\ \A e, i : Distance(e, i)' = Distance(e, i)
      /\ \A i : Planned(i)' = Planned(i)
      /\ IsPlan(plan)' /\ Apart' = Apart
  BY SamePlan DEF Typed
<1>3. Typed'
  BY <1>1, <1>2 DEF Typed
<1>4. TodoIsTheRest'
  <2>1. \A k \in 1..Len(todo') : todo'[k] = Planned(Done' + k)
    BY <1>1 DEF TodoIsTheRest
  <2>2. Len(todo') <= Len(plan.expected) /\ UNCHANGED plan
    BY DEF TodoIsTheRest
  <2> HIDE DEF CutInv
  <2> QED
    BY <2>1, <2>2 DEF TodoIsTheRest, Planned
<1>5. TakenOnce' /\ AllAccounted' /\ WithinWindow'
  BY <1>1, <1>2 DEF TakenOnce, AllAccounted, WithinWindow
<1>6. NoBetter(Extra)' /\ (Apart => NoBetter(DOMAIN plan.detected)')
  BY <1>1, <1>2 DEF NoBetter
<1> QED
  BY <1>2, <1>3, <1>4, <1>5, <1>6

LEMMA StepCutInv == CutInv /\ [CutNext]_cutVars => CutInv'
<1> SUFFICES ASSUME CutInv, [CutNext]_cutVars PROVE CutInv'
  OBVIOUS
<1>1. CASE CutsUnknown
  <2>1. Judged'
    BY <1>1 DEF CutsUnknown, Judged
  <2> QED
    BY <1>1, <2>1, VerdictKeepsCutInv DEF CutsUnknown
<1>2. CASE MatchCut
  BY <1>2, MatchKeepsCutInv
<1>3. CASE MissCut
  BY <1>3, MissKeepsCutInv
<1>4. CASE JudgeCuts
  <2>1. /\ todo = <<>> /\ UNCHANGED <<plan, todo, matched, missing>>
        /\ cutStatus' = IF Violated THEN "FAIL" ELSE "PASS"
    BY <1>4 DEF JudgeCuts
  <2>2. Violated' <=> Violated
    BY <2>1 DEF Violated, CutErrors, Distance, Extra, Used
  <2>3. Judged'
    BY <2>1, <2>2 DEF Judged
  <2> QED
    BY <2>1, <2>3, VerdictKeepsCutInv
<1>5. CASE UNCHANGED cutVars
  <2>1. Violated' <=> Violated
    BY <1>5 DEF cutVars, Violated, CutErrors, Distance, Extra, Used
  <2>2. Judged'
    BY <1>5, <2>1 DEF cutVars, Judged, CutInv
  <2> QED
    BY <1>5, <2>2, VerdictKeepsCutInv DEF cutVars, CutInv, Typed
<1> QED
  BY <1>1, <1>2, <1>3, <1>4, <1>5 DEF CutNext

\* Taking the planned cuts in time order, each with the nearest free detected
\* one, keeps every promise of the pairing at every cut (rules.py 512-534).
THEOREM CutInvariant == CutSpec => []CutInv
BY InitCutInv, StepCutInv, PTL DEF CutSpec

----------------------------------------------------------------------------
\* No detected cut is taken twice, and no planned cut is lost on the way, for
\* any plan (rules.py 512-534).
THEOREM CutTypeCorrect == CutSpec => []CutTypeOK
<1>1. ASSUME CutInv PROVE CutTypeOK
  <2>1. Len(todo) + Len(matched) + Len(missing) = Len(plan.expected)
    BY <1>1, TypedFacts DEF CutInv, AllAccounted, Done
  <2> QED
    BY <1>1, <2>1 DEF CutInv, CutTypeOK, Typed, TakenOnce, Pair
<1> QED
  BY <1>1, CutInvariant, PTL

\* Greedy as it is, the pairing leaves over no detected cut that would have
\* been better, for any plan in any order (rules.py 512-534).
THEOREM NothingBetterLeft == CutSpec => []NothingBetterIsFree
<1>1. ASSUME CutInv PROVE NothingBetterIsFree
  BY <1>1, TypedFacts DEF CutInv, NothingBetterIsFree, NoBetter
<1> QED
  BY <1>1, CutInvariant, PTL

LEMMA MinOfTwo ==
    ASSUME NEW a \in Nat, NEW b \in Nat
    PROVE  \A d \in Nat : d <= Min({a, b}) <=> d <= a /\ d <= b
<1>1. \E x \in {a, b} : \A y \in {a, b} : x <= y
  <2>1. CASE a <= b
    BY <2>1
  <2>2. CASE ~(a <= b)
    BY <2>2
  <2> QED
    BY <2>1, <2>2
<1>2. Min({a, b}) \in {a, b} /\ \A y \in {a, b} : Min({a, b}) <= y
  BY <1>1 DEF Min
<1> QED
  BY <1>2

LEMMA PairingFacts ==
    ASSUME Typed, NEW m
    PROVE  m \in Pairings <=>
             /\ m \in [DOMAIN plan.expected -> DOMAIN plan.detected]
             /\ \A k \in DOMAIN plan.expected :
                   /\ Distance(plan.expected[k], m[k]) <= plan.window
                   /\ Distance(plan.expected[k], m[k]) <= plan.maxError
             /\ \A j, k \in DOMAIN plan.expected : m[j] = m[k] => j = k
             /\ plan.allowExtra
                \/ {m[k] : k \in DOMAIN plan.expected} = DOMAIN plan.detected
<1> DEFINE D == Min({plan.window, plan.maxError})
<1>1. ASSUME m \in [DOMAIN plan.expected -> DOMAIN plan.detected],
             NEW k \in DOMAIN plan.expected
      PROVE  Distance(plan.expected[k], m[k]) <= D <=>
               /\ Distance(plan.expected[k], m[k]) <= plan.window
               /\ Distance(plan.expected[k], m[k]) <= plan.maxError
  <2>1. plan.expected[k] \in Nat /\ m[k] \in DOMAIN plan.detected
    BY <1>1, TypedFacts
  <2>2. Distance(plan.expected[k], m[k]) \in Nat
    BY <2>1, DistanceFacts
  <2>3. plan.window \in Nat /\ plan.maxError \in Nat
    BY TypedFacts
  <2> QED
    BY <2>2, <2>3, MinOfTwo
<1>2. m \in Pairings <=>
        /\ m \in [DOMAIN plan.expected -> DOMAIN plan.detected]
        /\ \A k \in DOMAIN m : Distance(plan.expected[k], m[k]) <= D
        /\ \A j, k \in DOMAIN m : m[j] = m[k] => j = k
        /\ plan.allowExtra \/ {m[k] : k \in DOMAIN m} = DOMAIN plan.detected
  BY DEF Pairings
<1> HIDE DEF D
<1> QED
  BY <1>1, <1>2

\* A video that passed has a pairing: the one that was made, put back in the
\* order the cuts were planned in.
LEMMA PassedIsPaired ==
    ASSUME CutInv, cutStatus = "PASS"
    PROVE  Pairings # {}
<1> DEFINE e == plan.expected
           o == TimeOrder(e)
           place(i) == CHOOSE k \in 1..Len(e) : o[k] = i
           m == [i \in DOMAIN e |-> matched[place(i)].index]
<1>1. /\ todo = <<>> /\ missing = <<>> /\ (Extra = {} \/ plan.allowExtra)
      /\ \A k \in 1..Len(matched) :
            ~(Distance(matched[k].time, matched[k].index) > plan.maxError)
  BY TypedFacts DEF CutInv, Judged, Violated, CutErrors
<1>2. /\ e \in Seq(Nat) /\ Len(e) \in Nat /\ DOMAIN e = 1..Len(e)
      /\ \A k \in 1..Len(matched) :
            matched[k].time \in Nat /\ matched[k].index \in DOMAIN plan.detected
      /\ DOMAIN matched = 1..Len(matched)
      /\ plan.maxError \in Nat
  BY TypedFacts DEF CutInv
<1>3. Len(matched) = Len(e)
  <2>1. Len(todo) = 0 /\ Len(missing) = 0
    BY <1>1
  <2> QED
    BY <1>2, <2>1, TypedFacts DEF CutInv, AllAccounted, Done
<1>4. \A k \in 1..Len(e) : matched[k].time = e[o[k]]
  BY <1>1, <1>3 DEF CutInv, AllAccounted, Planned
<1>5. /\ \A k \in 1..Len(e) : o[k] \in 1..Len(e)
      /\ \A j, k \in 1..Len(e) : o[j] = o[k] => j = k
      /\ \A i \in 1..Len(e) : \E k \in 1..Len(e) : o[k] = i
  BY <1>2, TimeOrderFacts
<1> HIDE DEF o
<1>6. /\ \A i \in DOMAIN e : place(i) \in 1..Len(e) /\ o[place(i)] = i
      /\ \A k \in 1..Len(e) : place(o[k]) = k
  <2>1. \A i \in DOMAIN e : place(i) \in 1..Len(e) /\ o[place(i)] = i
    BY <1>2, <1>5
  <2> HIDE DEF place
  <2> QED
    BY <1>2, <1>5, <2>1
<1> HIDE DEF place
<1>7. \A i \in DOMAIN e : m[i] = matched[place(i)].index /\ m[i] \in DOMAIN plan.detected
  BY <1>2, <1>3, <1>6
<1>8. m \in [DOMAIN e -> DOMAIN plan.detected]
  BY <1>7
<1> HIDE DEF m
<1>9. ASSUME NEW i \in DOMAIN e
      PROVE  Distance(e[i], m[i]) <= plan.window /\ Distance(e[i], m[i]) <= plan.maxError
  <2>1. /\ place(i) \in 1..Len(matched)
        /\ matched[place(i)].time = e[i] /\ matched[place(i)].index = m[i]
    BY <1>3, <1>4, <1>6, <1>7
  <2>2. e[i] \in Nat /\ m[i] \in DOMAIN plan.detected
    BY <1>2, <1>7
  <2>3. Distance(e[i], m[i]) \in Nat
    BY <2>2, DistanceFacts DEF CutInv
  <2> QED
    BY <1>1, <1>2, <2>1, <2>3 DEF CutInv, WithinWindow
<1>10. ASSUME NEW i \in DOMAIN e, NEW j \in DOMAIN e, m[i] = m[j] PROVE i = j
  <2>1. place(i) = place(j)
    BY <1>3, <1>6, <1>7, <1>10 DEF CutInv, TakenOnce
  <2> QED
    BY <1>6, <2>1
<1>11. plan.allowExtra \/ {m[k] : k \in DOMAIN e} = DOMAIN plan.detected
  <2> SUFFICES ASSUME Extra = {} PROVE {m[k] : k \in DOMAIN e} = DOMAIN plan.detected
    BY <1>1
  <2>1. ASSUME NEW x \in DOMAIN plan.detected PROVE \E i \in DOMAIN e : m[i] = x
    <3>1. PICK k \in 1..Len(e) : matched[k].index = x
      BY <1>2, <1>3 DEF Extra, Used
    <3>2. o[k] \in DOMAIN e /\ m[o[k]] = x
      BY <1>2, <1>5, <1>6, <1>7, <3>1
    <3> QED
      BY <3>2
  <2> QED
    BY <1>7, <2>1
<1>12. m \in Pairings
  <2>1. Typed
    BY DEF CutInv
  <2> QED
    BY <1>8, <1>9, <1>10, <1>11, <2>1, PairingFacts
<1> QED
  BY <1>12

\* If planned cuts are far apart, a video that failed has none.
LEMMA FailedIsUnpaired ==
    ASSUME CutInv, cutStatus = "FAIL", Apart
    PROVE  Pairings = {}
<1> SUFFICES ASSUME NEW m \in Pairings PROVE FALSE
  OBVIOUS
<1> DEFINE e == plan.expected
           D == DOMAIN plan.detected
<1>1. /\ Typed /\ todo = <<>> /\ Violated /\ NoBetter(D)
  BY DEF CutInv, Judged
<1>2. /\ m \in [DOMAIN e -> D]
      /\ \A k \in DOMAIN e : /\ Distance(e[k], m[k]) <= plan.window
                             /\ Distance(e[k], m[k]) <= plan.maxError
      /\ plan.allowExtra \/ {m[k] : k \in DOMAIN e} = D
  BY <1>1, PairingFacts
<1>3. /\ e \in Seq(Nat) /\ Len(e) \in Nat /\ DOMAIN e = 1..Len(e)
      /\ \A k \in 1..Len(e) : e[k] \in Nat
      /\ plan.window \in Nat /\ plan.maxError \in Nat
      /\ \A k \in 1..Len(missing) : missing[k] \in Nat
      /\ \A k \in 1..Len(matched) : matched[k].time \in Nat /\ matched[k].index \in D
      /\ DOMAIN matched = 1..Len(matched) /\ Len(missing) \in Nat
  BY <1>1, TypedFacts
<1>4. Done = Len(e)
  <2>1. Len(todo) = 0
    BY <1>1
  <2> QED
    BY <1>3, <2>1 DEF Done
<1>5. \A k \in 1..Len(e) : Planned(k) = e[TimeOrder(e)[k]] /\ TimeOrder(e)[k] \in DOMAIN e
  <2>1. \A k \in 1..Len(e) : TimeOrder(e)[k] \in 1..Len(e)
    BY <1>3, TimeOrderFacts
  <2> QED
    BY <1>3, <2>1 DEF Planned
<1>6. \A i \in DOMAIN e : \E k \in 1..Len(e) : Planned(k) = e[i]
  <2>1. \A i \in DOMAIN e : \E k \in 1..Len(e) : TimeOrder(e)[k] = i
    BY <1>3, TimeOrderFacts
  <2> QED
    BY <1>5, <2>1
<1>7. /\ \A k \in 1..Len(missing) : \E i \in DOMAIN e : missing[k] = e[i]
      /\ \A k \in 1..Len(matched) : \E i \in DOMAIN e : matched[k].time = e[i]
  <2>1. /\ \A k \in 1..Len(missing) : \E i \in 1..Len(e) : missing[k] = Planned(i)
        /\ \A k \in 1..Len(matched) : \E i \in 1..Len(e) : matched[k].time = Planned(i)
    BY <1>4 DEF CutInv, AllAccounted
  <2> HIDE DEF e
  <2>2. \A k \in 1..Len(e) : \E i \in DOMAIN e : Planned(k) = e[i]
    BY <1>5
  <2> QED
    BY <2>1, <2>2
<1>8. \A i \in DOMAIN e : \A x \in D : Distance(e[i], x) \in Nat
  BY <1>1, <1>3, DistanceFacts
<1>9. missing = <<>>
  <2> SUFFICES ASSUME missing # <<>> PROVE FALSE
    OBVIOUS
  <2>1. 1 \in 1..Len(missing)
    BY <1>1, <1>3 DEF Typed
  <2>2. PICK i \in DOMAIN e : missing[1] = e[i]
    BY <1>7, <2>1
  <2>3. m[i] \in D
    BY <1>2
  <2>4. Distance(e[i], m[i]) > plan.window
    BY <1>1, <2>1, <2>2, <2>3 DEF NoBetter
  <2> QED
    BY <1>2, <1>3, <1>8, <2>3, <2>4
<1>10. ASSUME NEW k \in 1..Len(matched)
       PROVE  ~(Distance(matched[k].time, matched[k].index) > plan.maxError)
  <2>1. PICK i \in DOMAIN e : matched[k].time = e[i]
    BY <1>7
  <2>2. m[i] \in D /\ matched[k].index \in D
    BY <1>2, <1>3
  <2>3. Distance(e[i], m[i]) >= Distance(e[i], matched[k].index)
    BY <1>1, <2>1, <2>2 DEF NoBetter
  <2>4. /\ Distance(e[i], m[i]) \in Nat /\ Distance(e[i], matched[k].index) \in Nat
        /\ Distance(e[i], m[i]) <= plan.maxError
    BY <1>2, <1>8, <2>2
  <2> QED
    BY <1>3, <2>1, <2>3, <2>4
<1>11. Extra # {} /\ ~plan.allowExtra
  BY <1>1, <1>3, <1>9, <1>10 DEF Violated, CutErrors
<1>12. PICK x \in D : x \notin Used
  BY <1>11 DEF Extra
<1>13. PICK i \in DOMAIN e : m[i] = x
  BY <1>2, <1>11, <1>12
<1>14. PICK k \in 1..Len(matched) : matched[k].time = e[i]
  <2>1. PICK k \in 1..Len(e) : Planned(k) = e[i]
    BY <1>6
  <2>2. \/ \E n \in 1..Len(matched) : matched[n].time = Planned(k)
        \/ \E n \in 1..Len(missing) : missing[n] = Planned(k)
    BY <1>4, <2>1 DEF CutInv, AllAccounted
  <2>3. Len(missing) = 0
    BY <1>9
  <2> QED
    BY <2>1, <2>2, <2>3
<1> DEFINE y == matched[k].index
<1>15. y \in D /\ y # x /\ Distance(e[i], y) <= plan.window
  BY <1>3, <1>12, <1>14 DEF CutInv, WithinWindow, Used
<1>16. PICK j \in DOMAIN e : m[j] = y
  BY <1>2, <1>11, <1>15
<1> HIDE DEF y
<1>17. i # j /\ Distance(e[j], y) <= plan.window
  BY <1>2, <1>13, <1>15, <1>16
<1>18. /\ Apartness(e[i], e[j]) <= Distance(e[i], y) + Distance(e[j], y)
       /\ Distance(e[i], y) \in Nat /\ Distance(e[j], y) \in Nat
  BY <1>1, <1>3, <1>15, DistanceFacts
<1>19. Apartness(e[i], e[j]) > 2 * plan.window
  <2>1. CASE i < j
    BY <2>1 DEF Apart
  <2>2. CASE j < i
    <3>1. Apartness(e[j], e[i]) > 2 * plan.window
      BY <2>2 DEF Apart
    <3>2. e[i] \in Nat /\ e[j] \in Nat
      BY <1>3
    <3> QED
      BY <3>1, <3>2 DEF Apartness
  <2> QED
    BY <1>3, <1>17, <2>1, <2>2
<1>20. Apartness(e[i], e[j]) \in Int
  <2>1. e[i] \in Nat /\ e[j] \in Nat
    BY <1>3
  <2> QED
    BY <2>1 DEF Apartness
<1> QED
  BY <1>3, <1>15, <1>17, <1>18, <1>19, <1>20

\* A pass is a pairing within the tolerances; a failure with cuts planned far
\* apart is that there is none: for them the greedy pairing decides exactly
\* what it should (rules.py 512-559).
THEOREM PassesArePairings == CutSpec => []PassIsAPairing
<1>1. ASSUME CutInv PROVE PassIsAPairing
  BY <1>1, PassedIsPaired, FailedIsUnpaired DEF PassIsAPairing
<1> QED
  BY <1>1, CutInvariant, PTL

----------------------------------------------------------------------------
(***************************************************************************)
(* Subtitles.  The inductive invariant: each loop over the cues has done   *)
(* its work for those before cueAt, and what a finished loop found stays   *)
(* as it is.                                                               *)
(***************************************************************************)
Count == Len(ByStart)
InTurn(k) == Cue(ByStart[k])

StepsToJudge == {"sort", "overlaps", "lengths", "gaps", "timeline", "done"}

Walking ==
    /\ IsDeck(deck) /\ step \in StepsToJudge
    /\ cueAt \in Nat \ {0} /\ shownTo \in Nat
    /\ IF step = "sort" THEN cueAt = 1 ELSE valid = ByStart

OverlapsTo(k) ==
    {<<ByStart[m], ByStart[m + 1]>> :
        m \in {m \in 1..k - 1 : m < Count /\ InTurn(m).end > InTurn(m + 1).start}}

OverlapsSoFar ==
    /\ step \in {"sort", "overlaps"} => overlapStatus = "none"
    /\ step = "sort" => overlaps = {}
    /\ step = "overlaps" => overlaps = OverlapsTo(cueAt)
    /\ OverlapsAreFound

\* Where nothing is shown, apart from what its end is.
Silent(g) ==
    /\ g.start = 0 \/ \E i \in ValidCues : Cue(i).end = g.start
    /\ \A i \in ValidCues : ~(Cue(i).start < g.end /\ g.start < Cue(i).end)

GapsTo(k) ==
    {g \in Span : /\ g.end - g.start > deck.params.gap /\ Silent(g)
                  /\ \E j \in 1..k - 1 : InTurn(j).start = g.end}

ShownBefore(k) ==
    /\ shownTo = 0 \/ \E j \in 1..k - 1 : InTurn(j).end = shownTo
    /\ \A j \in 1..k - 1 : InTurn(j).end <= shownTo

GapsSoFar ==
    /\ step \in {"sort", "overlaps", "lengths"} => gaps = {} /\ shownTo = 0
    /\ step = "gaps" => cueAt <= Count + 1 /\ gaps = GapsTo(cueAt) /\ ShownBefore(cueAt)
    /\ GapsAreEmpty

Located(k) == Map(deck.source[k].start) # Null /\ Map(deck.source[k].end) # Null
InPlace(k) ==
    /\ Cue(k) # Null
    /\ Near(Cue(k).start, Map(deck.source[k].start))
    /\ Near(Cue(k).end, Map(deck.source[k].end))

TimelineSoFar ==
    /\ step # "done" => timelineStatus = "none"
    /\ step \notin {"timeline", "done"} => mismatches = {} /\ unresolved = {}
    /\ step = "timeline" /\ deck.source # Null /\ Len(deck.cues) = Len(deck.source) =>
          /\ cueAt <= Len(deck.source) + 1
          /\ mismatches = {k \in 1..cueAt - 1 : Located(k) /\ ~InPlace(k)}
          /\ unresolved = {k \in 1..cueAt - 1 : ~Located(k)}
    /\ TimelineIsJudged

SubInv == Walking /\ OverlapsSoFar /\ GapsSoFar /\ TimelineSoFar

----------------------------------------------------------------------------
(* Lemmas about a deck: its cues in turn, and the largest of two.          *)

LEMMA MaxOfTwo ==
    ASSUME NEW a \in Nat, NEW b \in Nat
    PROVE  Max({a, b}) \in {a, b} /\ a <= Max({a, b}) /\ b <= Max({a, b})
<1>1. \E x \in {a, b} : \A y \in {a, b} : y <= x
  <2>1. CASE a <= b
    BY <2>1
  <2>2. CASE ~(a <= b)
    BY <2>2
  <2> QED
    BY <2>1, <2>2
<1>2. Max({a, b}) \in {a, b} /\ \A y \in {a, b} : y <= Max({a, b})
  BY <1>1 DEF Max
<1> QED
  BY <1>2

LEMMA CueFacts ==
    ASSUME IsDeck(deck)
    PROVE  /\ deck.params.gap \in Nat
           /\ deck.limits.gap # Null => deck.limits.gap \in Nat
           /\ deck.video # Null => deck.video \in Nat
           /\ Len(deck.cues) \in Nat /\ DOMAIN deck.cues = 1..Len(deck.cues)
           /\ IsFiniteSet(ValidCues)
           /\ \A i \in ValidCues : /\ i \in Nat
                                   /\ Cue(i).start \in Nat /\ Cue(i).end \in Nat
                                   /\ Cue(i).start <= Cue(i).end
<1>1. /\ deck.cues \in Seq(Span \cup {Null})
      /\ deck.params.gap \in Nat
      /\ deck.limits.gap \in Nat \cup {Null} /\ deck.video \in Nat \cup {Null}
  BY DEF IsDeck
<1>2. /\ Len(deck.cues) \in Nat /\ DOMAIN deck.cues = 1..Len(deck.cues)
      /\ \A i \in 1..Len(deck.cues) : deck.cues[i] \in Span \cup {Null}
  BY <1>1, ElementsFacts
<1>3. ValidCues \subseteq 1..Len(deck.cues)
  BY <1>2 DEF ValidCues
<1>4. IsFiniteSet(ValidCues)
  BY <1>2, <1>3, IndicesFacts
<1>5. ASSUME NEW i \in ValidCues
      PROVE  /\ i \in Nat
             /\ Cue(i).start \in Nat /\ Cue(i).end \in Nat /\ Cue(i).start <= Cue(i).end
  <2>1. Cue(i) \in Span /\ Cue(i).start <= Cue(i).end
    BY <1>2, <1>3 DEF ValidCues, Cue
  <2> QED
    BY <1>2, <1>3, <2>1 DEF Span
<1> QED
  BY <1>1, <1>2, <1>4, <1>5

LEMMA TurnFacts ==
    ASSUME IsDeck(deck)
    PROVE  /\ Count \in Nat /\ ByStart \in Seq(ValidCues) /\ DOMAIN ByStart = 1..Count
           /\ \A k \in 1..Count : /\ ByStart[k] \in ValidCues
                                  /\ InTurn(k).start \in Nat /\ InTurn(k).end \in Nat
                                  /\ InTurn(k).start <= InTurn(k).end
           /\ \A i \in ValidCues : \E k \in 1..Count : ByStart[k] = i
           /\ \A j, k \in 1..Count : j < k <=> StartsBefore(ByStart[j], ByStart[k])
           /\ \A j, k \in 1..Count : j <= k => InTurn(j).start <= InTurn(k).start
<1> DEFINE R == {p \in ValidCues \X ValidCues : StartsBefore(p[1], p[2])}
<1>1. ByStart = Sorted(ValidCues, R)
  BY DEF ByStart
<1>2. StrictOrder(ValidCues, R)
  <2>1. \A i, j \in ValidCues :
           <<i, j>> \in R <=> \/ Cue(i).start < Cue(j).start
                              \/ Cue(i).start = Cue(j).start /\ i < j
    BY DEF StartsBefore
  <2>2. \A i \in ValidCues : Cue(i).start \in Int /\ i \in Int
    BY CueFacts
  <2>3. IsFiniteSet(ValidCues)
    BY CueFacts
  <2> HIDE DEF R
  <2> QED
    BY <2>1, <2>2, <2>3 DEF StrictOrder
<1>3. \A i, j \in ValidCues : <<i, j>> \in R <=> StartsBefore(i, j)
  OBVIOUS
<1> HIDE DEF R
<1> DEFINE s == Sorted(ValidCues, R)
<1>4. /\ Cardinality(ValidCues) \in Nat
      /\ s \in Seq(ValidCues)
      /\ Len(s) = Cardinality(ValidCues) /\ DOMAIN s = 1..Cardinality(ValidCues)
      /\ \A k \in 1..Cardinality(ValidCues) : s[k] \in ValidCues
      /\ \A i \in ValidCues : \E k \in 1..Cardinality(ValidCues) : s[k] = i
      /\ \A j, k \in 1..Cardinality(ValidCues) : j < k <=> <<s[j], s[k]>> \in R
  BY <1>2, SortedFacts
<1> HIDE DEF s
<1>5. /\ Count \in Nat /\ ByStart \in Seq(ValidCues) /\ DOMAIN ByStart = 1..Count
      /\ \A k \in 1..Count : ByStart[k] \in ValidCues
      /\ \A i \in ValidCues : \E k \in 1..Count : ByStart[k] = i
      /\ \A j, k \in 1..Count : j < k <=> StartsBefore(ByStart[j], ByStart[k])
  BY <1>1, <1>3, <1>4 DEF Count, s
<1>6. \A k \in 1..Count : /\ InTurn(k).start \in Nat /\ InTurn(k).end \in Nat
                          /\ InTurn(k).start <= InTurn(k).end
  BY <1>5, CueFacts DEF InTurn
<1>7. ASSUME NEW j \in 1..Count, NEW k \in 1..Count, j <= k
      PROVE  InTurn(j).start <= InTurn(k).start
  <2>1. CASE j = k
    BY <1>6, <2>1
  <2>2. CASE j < k
    <3>1. StartsBefore(ByStart[j], ByStart[k])
      BY <1>5, <2>2
    <3> QED
      BY <1>6, <3>1 DEF StartsBefore, InTurn
  <2> QED
    BY <1>5, <1>7, <2>1, <2>2
<1> QED
  BY <1>5, <1>6, <1>7

\* What depends on the deck alone stays as it is.
LEMMA SameDeck ==
    ASSUME UNCHANGED deck
    PROVE  /\ IsDeck(deck) => IsDeck(deck)'
           /\ ValidCues' = ValidCues /\ ByStart' = ByStart /\ Count' = Count
           /\ \A k : InTurn(k)' = InTurn(k)
           /\ \A k : Cue(k)' = Cue(k)
           /\ \A n : Silences(n)' = Silences(n)
           /\ \A k : OverlapsTo(k)' = OverlapsTo(k)
           /\ \A k : GapsTo(k)' = GapsTo(k)
           /\ \A k : Located(k)' = Located(k)
           /\ \A k : InPlace(k)' = InPlace(k)
           /\ \A i, j : StartsBefore(i, j)' = StartsBefore(i, j)
<1>1. \A k : Cue(k)' = Cue(k)
  BY DEF Cue
<1>2. ValidCues' = ValidCues
  BY <1>1 DEF ValidCues
<1>3. \A i, j : StartsBefore(i, j)' = StartsBefore(i, j)
  BY <1>1 DEF StartsBefore
<1>4. ByStart' = ByStart
  BY <1>1, <1>2 DEF ByStart, StartsBefore
<1>5. Count' = Count /\ \A k : InTurn(k)' = InTurn(k)
  BY <1>1, <1>4 DEF Count, InTurn
<1>6. \A k : OverlapsTo(k)' = OverlapsTo(k)
  BY <1>4, <1>5 DEF OverlapsTo
<1>7. \A k : GapsTo(k)' = GapsTo(k)
  BY <1>1, <1>2, <1>5 DEF GapsTo, Silent
<1>8. \A n : Silences(n)' = Silences(n)
  BY <1>1, <1>2 DEF Silences, Empty
<1>9. /\ \A k : Located(k)' = Located(k)
      /\ \A k : InPlace(k)' = InPlace(k)
  BY <1>1 DEF Located, InPlace, Near, Map
<1> QED
  BY <1>1, <1>2, <1>3, <1>4, <1>5, <1>6, <1>7, <1>8, <1>9

----------------------------------------------------------------------------
(* Overlaps.                                                               *)

LEMMA NextNeighbours ==
    ASSUME NEW k \in Nat \ {0}, Count \in Nat, k < Count
    PROVE  OverlapsTo(k + 1) =
              IF InTurn(k).end > InTurn(k + 1).start
              THEN OverlapsTo(k) \cup {<<ByStart[k], ByStart[k + 1]>>} ELSE OverlapsTo(k)
<1> DEFINE M(n) == {m \in 1..n - 1 : m < Count /\ InTurn(m).end > InTurn(m + 1).start}
<1>1. M(k + 1) = IF InTurn(k).end > InTurn(k + 1).start THEN M(k) \cup {k} ELSE M(k)
  <2>1. \A m : m \in 1..(k + 1) - 1 <=> m \in 1..k - 1 \/ m = k
    OBVIOUS
  <2> QED
    BY <2>1
<1>2. \A n : OverlapsTo(n) = {<<ByStart[m], ByStart[m + 1]>> : m \in M(n)}
  BY DEF OverlapsTo
<1> HIDE DEF M
<1> QED
  BY <1>1, <1>2

\* Two cues that overlap have a neighbour between them that overlaps the first.
LEMMA NeighboursSuffice ==
    ASSUME IsDeck(deck), NEW n \in Nat, n >= Count
    PROVE  OverlapsTo(n) # {} <=>
              \E i, j \in ValidCues : StartsBefore(i, j) /\ Cue(j).start < Cue(i).end
<1>1. ASSUME OverlapsTo(n) # {}
      PROVE  \E i, j \in ValidCues : StartsBefore(i, j) /\ Cue(j).start < Cue(i).end
  <2>1. PICK m \in 1..n - 1 : m < Count /\ InTurn(m).end > InTurn(m + 1).start
    BY <1>1 DEF OverlapsTo
  <2>2. m \in 1..Count /\ m + 1 \in 1..Count /\ m < m + 1
    BY <2>1, TurnFacts
  <2>3. /\ ByStart[m] \in ValidCues /\ ByStart[m + 1] \in ValidCues
        /\ StartsBefore(ByStart[m], ByStart[m + 1])
        /\ InTurn(m).end \in Nat /\ InTurn(m + 1).start \in Nat
    BY <2>2, TurnFacts
  <2>4. Cue(ByStart[m + 1]).start < Cue(ByStart[m]).end
    BY <2>1, <2>3 DEF InTurn
  <2> QED
    BY <2>3, <2>4
<1>2. ASSUME NEW i \in ValidCues, NEW j \in ValidCues,
             StartsBefore(i, j), Cue(j).start < Cue(i).end
      PROVE  OverlapsTo(n) # {}
  <2>1. PICK a \in 1..Count : ByStart[a] = i
    BY TurnFacts
  <2>2. PICK b \in 1..Count : ByStart[b] = j
    BY TurnFacts
  <2>3. Count \in Nat /\ a < b
    BY <1>2, <2>1, <2>2, TurnFacts
  <2>4. a \in 1..n - 1 /\ a < Count /\ a + 1 \in 1..Count /\ a + 1 <= b
    BY <2>3
  <2>5. /\ InTurn(a + 1).start <= InTurn(b).start
        /\ InTurn(a + 1).start \in Nat /\ InTurn(b).start \in Nat /\ InTurn(a).end \in Nat
    BY <2>4, TurnFacts
  <2>6. InTurn(b).start < InTurn(a).end
    BY <1>2, <2>1, <2>2 DEF InTurn
  <2>7. InTurn(a).end > InTurn(a + 1).start
    BY <2>5, <2>6
  <2> QED
    BY <2>4, <2>7 DEF OverlapsTo
<1> QED
  BY <1>1, <1>2

----------------------------------------------------------------------------
(* Gaps.                                                                   *)

\* Where nothing is shown, and how such a stretch can end.
LEMMA SilencesFacts ==
    ASSUME IsDeck(deck), NEW n \in Nat, NEW g
    PROVE  g \in Silences(n) <=>
             /\ g \in Span /\ g.end - g.start > n /\ Silent(g)
             /\ \/ \E i \in ValidCues : Cue(i).start = g.end
                \/ /\ deck.video # Null /\ g.end = deck.video
                   /\ \A i \in ValidCues : Cue(i).end <= g.start
<1> DEFINE instants == {0} \cup ({deck.video} \ {Null})
                       \cup UNION {{Cue(i).start, Cue(i).end} : i \in ValidCues}
           Ends(s, t) == \/ \E i \in ValidCues : Cue(i).start = t
                         \/ t = deck.video /\ \A i \in ValidCues : Cue(i).end <= s
           Quiet(s, t) == /\ s = 0 \/ \E i \in ValidCues : Cue(i).end = s
                          /\ \A i \in ValidCues : ~(Cue(i).start < t /\ s < Cue(i).end)
<1>1. \A t : t \in instants <=>
               \/ t = 0 \/ (t = deck.video /\ t # Null)
               \/ \E i \in ValidCues : t = Cue(i).start \/ t = Cue(i).end
  <2> DEFINE ofCues == UNION {{Cue(i).start, Cue(i).end} : i \in ValidCues}
  <2>1. \A t : t \in ofCues <=> \E i \in ValidCues : t = Cue(i).start \/ t = Cue(i).end
    <3>1. ASSUME NEW i \in ValidCues, NEW t, t = Cue(i).start \/ t = Cue(i).end
          PROVE  t \in ofCues
      <4>1. t \in {Cue(i).start, Cue(i).end}
        BY <3>1
      <4> QED
        BY <4>1
    <3>2. ASSUME NEW t \in ofCues
          PROVE  \E i \in ValidCues : t = Cue(i).start \/ t = Cue(i).end
      BY <3>2
    <3> HIDE DEF ofCues
    <3> QED
      BY <3>1, <3>2
  <2>2. \A t : t \in instants <=> t = 0 \/ t \in ofCues \/ (t = deck.video /\ t # Null)
    <3> HIDE DEF ofCues
    <3>1. instants = {0} \cup ({deck.video} \ {Null}) \cup ofCues
      BY DEF ofCues
    <3> HIDE DEF instants
    <3> QED
      BY <3>1
  <2> HIDE DEF ofCues, instants
  <2> QED
    BY <2>1, <2>2
<1>2. \A s, t : Empty(s, t) <=> Quiet(s, t) /\ Ends(s, t)
  BY DEF Empty
<1>3. g \in Silences(n) <=>
        \E s, t \in instants : /\ g = [start |-> s, end |-> t]
                               /\ t - s > n /\ Empty(s, t)
  <2>1. Silences(n) = {[start |-> p[1], end |-> p[2]] : p \in
                         {p \in instants \X instants : p[2] - p[1] > n /\ Empty(p[1], p[2])}}
    BY DEF Silences
  <2> HIDE DEF instants
  <2>2. ASSUME NEW s \in instants, NEW t \in instants,
               g = [start |-> s, end |-> t], t - s > n, Empty(s, t)
        PROVE  g \in Silences(n)
    <3>1. <<s, t>> \in {p \in instants \X instants : p[2] - p[1] > n /\ Empty(p[1], p[2])}
      BY <2>2
    <3> QED
      BY <2>1, <2>2, <3>1
  <2>3. ASSUME g \in Silences(n)
        PROVE  \E s, t \in instants : /\ g = [start |-> s, end |-> t]
                                      /\ t - s > n /\ Empty(s, t)
    BY <2>1, <2>3
  <2> QED
    BY <2>2, <2>3
<1> HIDE DEF instants
<1>4. instants \subseteq Nat
  BY <1>1, CueFacts
<1>5. \A s, t : Quiet(s, t) => s \in instants
  BY <1>1
<1>6. \A s, t : Ends(s, t) /\ (t # deck.video \/ deck.video # Null) => t \in instants
  BY <1>1
<1>7. Silent(g) <=> Quiet(g.start, g.end)
  BY DEF Silent
<1>8. \A t \in Nat : t = deck.video => deck.video # Null
  BY NullAssumption
<1> HIDE DEF Quiet
<1>9. ASSUME g \in Silences(n)
      PROVE  /\ g \in Span /\ g.end - g.start > n /\ Silent(g)
             /\ Ends(g.start, g.end) /\ g.end \in Nat
  <2>1. PICK s \in instants, t \in instants :
           g = [start |-> s, end |-> t] /\ t - s > n /\ Empty(s, t)
    BY <1>3, <1>9
  <2>2. g \in Span /\ g.start = s /\ g.end = t
    BY <1>4, <2>1 DEF Span
  <2> HIDE DEF Ends
  <2> QED
    BY <1>2, <1>4, <1>7, <2>1, <2>2
<1>10. ASSUME g \in Span, g.end - g.start > n, Silent(g), Ends(g.start, g.end)
       PROVE  g \in Silences(n)
  <2>1. g.end \in Nat /\ g = [start |-> g.start, end |-> g.end]
    BY <1>10 DEF Span
  <2>2. g.start \in instants /\ g.end \in instants
    BY <1>5, <1>6, <1>7, <1>8, <1>10, <2>1
  <2> HIDE DEF Ends
  <2>3. Empty(g.start, g.end)
    BY <1>2, <1>7, <1>10
  <2> QED
    BY <1>3, <1>10, <2>1, <2>2, <2>3
<1> QED
  BY <1>8, <1>9, <1>10

\* What was shown before the next cue decides whether there is a gap before it.
LEMMA NextGap ==
    ASSUME IsDeck(deck), shownTo \in Nat, NEW k \in 1..Count,
           gaps = GapsTo(k), ShownBefore(k)
    PROVE  GapUpTo(InTurn(k).start) = GapsTo(k + 1)
<1> DEFINE t == InTurn(k).start
           n == deck.params.gap
           new == [start |-> shownTo, end |-> t]
<1>1. /\ Count \in Nat /\ k \in Nat /\ t \in Nat /\ n \in Nat
      /\ \A j \in 1..Count : /\ ByStart[j] \in ValidCues
                             /\ InTurn(j).start \in Nat /\ InTurn(j).end \in Nat
                             /\ InTurn(j).start <= InTurn(j).end
      /\ \A j \in 1..Count : j >= k => InTurn(j).start >= t
      /\ \A j \in 1..Count : k >= j => InTurn(j).start <= t
      /\ \A i \in ValidCues : \E j \in 1..Count : ByStart[j] = i
      /\ \A j : InTurn(j) = Cue(ByStart[j])
  BY TurnFacts, CueFacts DEF InTurn
<1>2. \A j \in 1..k - 1 : j \in 1..Count /\ j < k
  BY <1>1
<1>3. \A j \in 1..Count : j \in 1..k - 1 \/ j >= k
  BY <1>1
<1>4. \A j : j \in 1..(k + 1) - 1 <=> j \in 1..k - 1 \/ j = k
  BY <1>1
<1>5. new \in Span /\ new.start = shownTo /\ new.end = t
  BY <1>1 DEF Span
<1> HIDE DEF t, n, new
<1>6. ASSUME t - shownTo > n PROVE new \in GapsTo(k + 1)
  <2>1. new.start = 0 \/ \E i \in ValidCues : Cue(i).end = new.start
    BY <1>1, <1>2, <1>5 DEF ShownBefore
  <2>2. ASSUME NEW i \in ValidCues PROVE ~(Cue(i).start < new.end /\ new.start < Cue(i).end)
    <3>1. PICK j \in 1..Count : ByStart[j] = i
      BY <1>1
    <3>2. CASE j \in 1..k - 1
      <4>1. Cue(i).end <= shownTo /\ Cue(i).end \in Nat
        BY <1>1, <3>1, <3>2 DEF ShownBefore
      <4> QED
        BY <1>5, <4>1
    <3>3. CASE j >= k
      <4>1. Cue(i).start >= t /\ Cue(i).start \in Nat
        BY <1>1, <3>1, <3>3
      <4> QED
        BY <1>1, <1>5, <4>1
    <3> QED
      BY <1>3, <3>2, <3>3
  <2>3. \E j \in 1..(k + 1) - 1 : InTurn(j).start = new.end
    BY <1>4, <1>5 DEF t
  <2> QED
    BY <1>5, <1>6, <2>1, <2>2, <2>3 DEF GapsTo, Silent, n
<1>7. GapsTo(k) \subseteq GapsTo(k + 1)
  BY <1>4 DEF GapsTo
<1>8. ASSUME NEW g \in GapsTo(k + 1), g \notin GapsTo(k)
      PROVE  g = new /\ t - shownTo > n
  <2>1. /\ g \in Span /\ g.end - g.start > n /\ Silent(g)
        /\ g.start \in Nat /\ g.end \in Nat
    BY <1>8 DEF GapsTo, Span, n
  <2>2. g.end = t /\ \A j \in 1..k - 1 : InTurn(j).start # t
    BY <1>4, <1>8 DEF GapsTo, t
  <2>3. g.start < t
    BY <1>1, <2>1, <2>2
  <2>4. ASSUME NEW j \in 1..k - 1 PROVE InTurn(j).end <= g.start
    <3>1. InTurn(j).start < t /\ InTurn(j).start \in Nat /\ InTurn(j).end \in Nat
      BY <1>1, <1>2, <2>2
    <3>2. ~(InTurn(j).start < g.end /\ g.start < InTurn(j).end)
      BY <1>1, <1>2, <2>1 DEF Silent
    <3> QED
      BY <2>1, <2>2, <3>1, <3>2
  <2>5. shownTo <= g.start
    BY <2>1, <2>4 DEF ShownBefore
  <2>6. g.start <= shownTo
    <3>1. CASE g.start = 0
      BY <3>1
    <3>2. ASSUME NEW i \in ValidCues, Cue(i).end = g.start PROVE g.start <= shownTo
      <4>1. PICK j \in 1..Count : ByStart[j] = i
        BY <1>1
      <4>2. j \in 1..k - 1
        <5>1. ASSUME j >= k PROVE FALSE
          <6>1. t <= InTurn(j).start /\ InTurn(j).start <= InTurn(j).end
            BY <1>1, <5>1
          <6>2. InTurn(j).end = g.start /\ InTurn(j).start \in Nat
            BY <1>1, <3>2, <4>1
          <6> QED
            BY <1>1, <2>1, <2>3, <6>1, <6>2
        <5> QED
          BY <1>3, <5>1
      <4> QED
        BY <1>1, <3>2, <4>1, <4>2 DEF ShownBefore
    <3> QED
      BY <2>1, <3>1, <3>2 DEF Silent
  <2>7. g.start = shownTo
    BY <2>1, <2>5, <2>6
  <2>8. g = new
    BY <1>5, <2>1, <2>2, <2>7 DEF Span, new
  <2> QED
    BY <2>1, <2>2, <2>7, <2>8
<1>9. GapUpTo(t) = IF t - shownTo > n THEN gaps \cup {new} ELSE gaps
  BY DEF GapUpTo, n, new
<1>10. GapUpTo(t) = GapsTo(k + 1)
  <2>1. \A g : g \in GapUpTo(t) <=> g \in GapsTo(k) \/ (t - shownTo > n /\ g = new)
    BY <1>9
  <2> QED
    BY <1>6, <1>7, <1>8, <2>1
<1> QED
  BY <1>10 DEF t

LEMMA NextShown ==
    ASSUME IsDeck(deck), shownTo \in Nat, NEW k \in 1..Count, ShownBefore(k),
           UNCHANGED deck, shownTo' = Shown(ByStart[k])
    PROVE  shownTo' \in Nat /\ ShownBefore(k + 1)'
<1> DEFINE t == InTurn(k).end
<1>1. /\ Count \in Nat /\ k \in Nat /\ t \in Nat
      /\ \A j \in 1..Count : InTurn(j).end \in Nat
  BY TurnFacts
<1>2. \A j : j \in 1..(k + 1) - 1 <=> j \in 1..k - 1 \/ j = k
  BY <1>1
<1>3. \A j \in 1..k - 1 : j \in 1..Count
  BY <1>1
<1>4. shownTo' = Max({shownTo, t})
  BY DEF Shown, InTurn
<1>5. shownTo' \in {shownTo, t} /\ shownTo <= shownTo' /\ t <= shownTo'
  BY <1>1, <1>4, MaxOfTwo
<1>6. shownTo' \in Nat
  BY <1>1, <1>5
<1>7. shownTo' = 0 \/ \E j \in 1..(k + 1) - 1 : InTurn(j).end = shownTo'
  BY <1>2, <1>5 DEF ShownBefore
<1>8. \A j \in 1..(k + 1) - 1 : InTurn(j).end <= shownTo'
  <2>1. \A j \in 1..k - 1 : InTurn(j).end <= shownTo /\ InTurn(j).end \in Nat
    BY <1>1, <1>3 DEF ShownBefore
  <2> HIDE DEF t
  <2>2. InTurn(k).end = t
    BY DEF t
  <2> QED
    BY <1>1, <1>2, <1>5, <1>6, <2>1, <2>2
<1>9. \A j : InTurn(j)' = InTurn(j)
  BY SameDeck
<1> HIDE DEF t
<1>10. ShownBefore(k + 1)'
  BY <1>7, <1>8, <1>9 DEF ShownBefore
<1> QED
  BY <1>6, <1>10

\* Behind the last cue there is at most one more, up to the end of the video.
LEMMA LastGap ==
    ASSUME IsDeck(deck), shownTo \in Nat, gaps = GapsTo(Count + 1), ShownBefore(Count + 1)
    PROVE  (IF deck.video = Null THEN gaps ELSE GapUpTo(deck.video))
              = Silences(deck.params.gap)
<1> DEFINE all == IF deck.video = Null THEN gaps ELSE GapUpTo(deck.video)
           n == deck.params.gap
           new == [start |-> shownTo, end |-> deck.video]
           AtCue(g) == \E i \in ValidCues : Cue(i).start = g.end
           AtEnd(g) == /\ deck.video # Null /\ g.end = deck.video
                       /\ \A i \in ValidCues : Cue(i).end <= g.start
           Quiet(g) == g \in Span /\ g.end - g.start > n /\ Silent(g)
<1>1. /\ Count \in Nat /\ (Count + 1) - 1 = Count /\ n \in Nat
      /\ deck.video # Null => deck.video \in Nat
      /\ \A j \in 1..Count : ByStart[j] \in ValidCues
      /\ \A i \in ValidCues : \E j \in 1..Count : ByStart[j] = i
      /\ \A i \in ValidCues : Cue(i).start \in Nat /\ Cue(i).end \in Nat
      /\ \A j : InTurn(j) = Cue(ByStart[j])
  BY TurnFacts, CueFacts DEF InTurn
<1>2. \A g : g \in gaps <=> Quiet(g) /\ AtCue(g)
  <2>1. \A g : AtCue(g) <=> \E j \in 1..Count : InTurn(j).start = g.end
    BY <1>1
  <2>2. \A g : g \in gaps <=> Quiet(g) /\ \E j \in 1..Count : InTurn(j).start = g.end
    BY <1>1 DEF GapsTo
  <2> HIDE DEF AtCue, Quiet
  <2> QED
    BY <2>1, <2>2
<1>3. \A g : g \in Silences(n) <=> Quiet(g) /\ (AtCue(g) \/ AtEnd(g))
  BY <1>1, SilencesFacts
<1>4. /\ shownTo = 0 \/ \E i \in ValidCues : Cue(i).end = shownTo
      /\ \A i \in ValidCues : Cue(i).end <= shownTo
  BY <1>1 DEF ShownBefore
<1>5. ASSUME deck.video # Null, deck.video - shownTo > n
      PROVE  Quiet(new) /\ AtEnd(new)
  <2>1. new \in Span /\ new.start = shownTo /\ new.end = deck.video
    BY <1>1, <1>5 DEF Span
  <2> HIDE DEF new
  <2>2. \A i \in ValidCues : ~(Cue(i).start < new.end /\ new.start < Cue(i).end)
    BY <1>1, <1>4, <2>1
  <2> QED
    BY <1>4, <1>5, <2>1, <2>2 DEF Silent
<1>6. ASSUME NEW g, Quiet(g), AtEnd(g)
      PROVE  deck.video # Null /\ g = new /\ deck.video - shownTo > n
  <2>1. /\ g.start \in Nat /\ g.end = deck.video /\ g = [start |-> g.start, end |-> g.end]
        /\ deck.video \in Nat
    BY <1>1, <1>6 DEF Span
  <2>2. shownTo <= g.start
    BY <1>4, <1>6, <2>1
  <2>3. g.start <= shownTo
    <3>1. g.start = 0 \/ \E i \in ValidCues : Cue(i).end = g.start
      BY <1>6 DEF Silent
    <3> QED
      BY <1>4, <2>1, <3>1
  <2>4. g.start = shownTo
    BY <2>1, <2>2, <2>3
  <2> QED
    BY <1>6, <2>1, <2>4
<1>7. \A g : g \in all <=>
               g \in gaps \/ (deck.video # Null /\ deck.video - shownTo > n /\ g = new)
  <2>1. GapUpTo(deck.video) = IF deck.video - shownTo > n THEN gaps \cup {new} ELSE gaps
    BY DEF GapUpTo
  <2> HIDE DEF n, new
  <2> QED
    BY <2>1
<1> HIDE DEF AtCue, AtEnd, Quiet, new, n
<1>8. \A g : g \in all <=> g \in Silences(n)
  BY <1>2, <1>3, <1>5, <1>6, <1>7
<1> HIDE DEF all
<1>9. all \subseteq Silences(n) /\ Silences(n) \subseteq all
  BY <1>8
<1>10. all = Silences(n)
  BY <1>9
<1> QED
  BY <1>10 DEF all, n

----------------------------------------------------------------------------
(* The timeline.                                                           *)

\* The first segment that holds an instant maps it.
LEMMA MapFacts ==
    ASSUME IsDeck(deck), NEW t \in Nat
    PROVE  /\ Map(t) = Null <=> Places(t) = {}
           /\ Map(t) # Null => Map(t) \in Places(t)
<1> DEFINE hold == {k \in DOMAIN deck.timeline : Holds(deck.timeline[k], t)}
           first == Min(hold)
<1>1. /\ Len(deck.timeline) \in Nat /\ DOMAIN deck.timeline = 1..Len(deck.timeline)
      /\ \A k \in 1..Len(deck.timeline) : deck.timeline[k] \in Segment
  <2>1. deck.timeline \in Seq(Segment)
    BY DEF IsDeck
  <2> QED
    BY <2>1, ElementsFacts
<1>2. ASSUME NEW p \in Places(t) PROVE p \in Nat /\ p # Null
  <2>1. PICK s \in ToSet(deck.timeline) : Holds(s, t) /\ p = Place(s, t)
    BY DEF Places
  <2>2. s \in Segment
    BY <1>1, <2>1 DEF ToSet
  <2>3. t - s.from \in Nat /\ s.stretch \in Nat /\ s.at \in Nat
    BY <2>1, <2>2 DEF Segment, Holds
  <2>4. (t - s.from) * s.stretch \in Nat
    BY <2>3
  <2>5. p \in Nat
    BY <2>1, <2>3, <2>4 DEF Place
  <2> QED
    BY <2>5, NullAssumption
<1>3. CASE hold = {}
  <2>1. Map(t) = Null
    BY <1>3 DEF Map
  <2>2. Places(t) = {}
    BY <1>3 DEF Places, ToSet
  <2> QED
    BY <2>1, <2>2
<1>4. CASE hold # {}
  <2>1. hold \in SUBSET (1..Len(deck.timeline))
    BY <1>1
  <2>2. first \in hold
    <3> HIDE DEF hold
    <3>1. \E x \in hold : \A y \in hold : x <= y
      BY <1>1, <1>4, <2>1, LeastIndex
    <3> QED
      BY <3>1 DEF Min
  <2>3. Map(t) = Place(deck.timeline[first], t)
    BY <1>4 DEF Map
  <2>4. deck.timeline[first] \in ToSet(deck.timeline) /\ Holds(deck.timeline[first], t)
    BY <2>2 DEF ToSet
  <2>5. Map(t) \in Places(t)
    <3> HIDE DEF first, hold
    <3> QED
      BY <2>3, <2>4 DEF Places
  <2> QED
    BY <1>2, <2>5
<1> QED
  BY <1>3, <1>4

\* Only the deck says what is kept and what may be right or wrong.
LEMMA SameTimeline ==
    ASSUME UNCHANGED deck
    PROVE  \A k : /\ MayBeRight(k)' <=> MayBeRight(k)
                  /\ MayBeWrong(k)' <=> MayBeWrong(k)
                  /\ IsKept(k)' <=> IsKept(k)
<1>1. /\ \A t : Places(t)' = Places(t)
      /\ \A t : Kept(t)' = Kept(t)
      /\ \A s, t : Near(s, t)' = Near(s, t)
      /\ \A k : Cue(k)' = Cue(k)
  BY DEF Places, Kept, Place, Holds, Near, Cue
<1> QED
  BY <1>1 DEF MayBeRight, MayBeWrong, IsKept

\* What is kept is in some segment.
LEMMA KeptIsSomewhere ==
    ASSUME IsDeck(deck), NEW t \in Nat
    PROVE  Kept(t) # {} => Map(t) # Null
<1> SUFFICES ASSUME Kept(t) # {} PROVE Places(t) # {}
  BY MapFacts
<1>1. PICK s \in ToSet(deck.timeline) : s.from <= t /\ t < s.to
  BY DEF Kept
<1>2. s.from \in Nat /\ s.to \in Nat
  <2>1. PICK k \in DOMAIN deck.timeline : s = deck.timeline[k]
    BY DEF ToSet
  <2>2. deck.timeline \in Seq(Segment)
    BY DEF IsDeck
  <2>3. s \in Segment
    BY <2>1, <2>2
  <2> QED
    BY <2>3 DEF Segment
<1>3. Holds(s, t)
  BY <1>1, <1>2 DEF Holds
<1> QED
  BY <1>3 DEF Places

\* A cue that is where it is mapped to may be right, one that is not may be
\* wrong, and only one that is not kept is mapped nowhere.
LEMMA JudgedAsMapped ==
    ASSUME IsDeck(deck), deck.source # Null, NEW k \in DOMAIN deck.source
    PROVE  /\ Located(k) /\ InPlace(k) => MayBeRight(k)
           /\ Located(k) /\ ~InPlace(k) => MayBeWrong(k)
           /\ IsKept(k) => Located(k)
<1> DEFINE s == deck.source[k].start
           e == deck.source[k].end
<1>1. s \in Nat /\ e \in Nat
  <2>1. deck.source \in Seq(Span)
    BY DEF IsDeck
  <2>2. deck.source[k] \in Span
    BY <2>1
  <2> QED
    BY <2>2 DEF Span
<1>2. Located(k) <=> Map(s) # Null /\ Map(e) # Null
  BY DEF Located
<1>3. InPlace(k) <=> /\ Cue(k) # Null
                     /\ Near(Cue(k).start, Map(s)) /\ Near(Cue(k).end, Map(e))
  BY DEF InPlace
<1>4. MayBeRight(k) <=> /\ Cue(k) # Null
                        /\ \E p \in Places(s) : Near(Cue(k).start, p)
                        /\ \E p \in Places(e) : Near(Cue(k).end, p)
  BY DEF MayBeRight
<1>5. MayBeWrong(k) <=> /\ Places(s) # {} /\ Places(e) # {}
                        /\ \/ Cue(k) = Null
                           \/ \E p \in Places(s) : ~Near(Cue(k).start, p)
                           \/ \E p \in Places(e) : ~Near(Cue(k).end, p)
  BY DEF MayBeWrong
<1>6. IsKept(k) <=> Kept(s) # {} /\ Kept(e) # {}
  BY DEF IsKept
<1> HIDE DEF s, e
<1>7. /\ Map(s) # Null => Map(s) \in Places(s)
      /\ Map(e) # Null => Map(e) \in Places(e)
  BY <1>1, MapFacts
<1>8. IsKept(k) => Located(k)
  BY <1>1, <1>2, <1>6, KeptIsSomewhere
<1> QED
  BY <1>2, <1>3, <1>4, <1>5, <1>7, <1>8

\* What was found for all of the cues decides as TimelineIsJudged says.
LEMMA TimelineDecides ==
    ASSUME IsDeck(deck), deck.source # Null, Len(deck.cues) = Len(deck.source),
           UNCHANGED deck,
           mismatches = {k \in 1..Len(deck.source) : Located(k) /\ ~InPlace(k)},
           unresolved = {k \in 1..Len(deck.source) : ~Located(k)},
           timelineStatus' = IF mismatches # {} THEN "FAIL"
                             ELSE IF unresolved # {} THEN "UNKNOWN" ELSE "PASS"
    PROVE  TimelineIsJudged'
<1> DEFINE D == DOMAIN deck.source
<1>1. \A k \in D : /\ Located(k) /\ InPlace(k) => MayBeRight(k)
                   /\ Located(k) /\ ~InPlace(k) => MayBeWrong(k)
                   /\ IsKept(k) => Located(k)
  BY JudgedAsMapped
<1>2. D = 1..Len(deck.source)
  BY DEF IsDeck
<1>3. \A k \in D : /\ MayBeRight(k)' <=> MayBeRight(k)
                   /\ MayBeWrong(k)' <=> MayBeWrong(k)
                   /\ IsKept(k)' <=> IsKept(k)
  BY SameTimeline
<1>4. D' = D
  OBVIOUS
<1> HIDE DEF D
<1>5. timelineStatus' \in {"PASS", "FAIL", "UNKNOWN"}
  OBVIOUS
<1>6. timelineStatus' = "PASS" => \A k \in D : MayBeRight(k)
  BY <1>1, <1>2
<1>7. timelineStatus' = "FAIL" => \E k \in D : MayBeWrong(k)
  BY <1>1, <1>2
<1>8. timelineStatus' = "UNKNOWN" =>
         /\ \E k \in D : ~IsKept(k)
         /\ \A k \in D : IsKept(k) => MayBeRight(k)
  BY <1>1, <1>2
<1> QED
  BY <1>3, <1>4, <1>5, <1>6, <1>7, <1>8 DEF TimelineIsJudged, TimelineJudged, D

----------------------------------------------------------------------------
(* One step after the other.                                               *)

LEMMA InitSubInv == SubInit => SubInv
<1> SUFFICES ASSUME SubInit PROVE SubInv
  OBVIOUS
<1> USE DEF SubInit, SubStart
<1>1. Walking
  BY DeckAssumption DEF Walking, StepsToJudge
<1>2. OverlapsSoFar /\ GapsSoFar /\ TimelineSoFar
  BY DEF OverlapsSoFar, OverlapsAreFound, GapsSoFar, GapsAreEmpty, TimelineSoFar,
         TimelineIsJudged, TimelineJudged
<1> QED
  BY <1>1, <1>2 DEF SubInv

LEMMA SortKeepsSubInv ==
    ASSUME SubInv, SortCues
    PROVE  SubInv'
<1> USE DEF SubInv, SortCues
<1>1. /\ UNCHANGED deck /\ step = "sort" /\ step' = "overlaps" /\ IsDeck(deck)
      /\ valid' = ByStart /\ cueAt = 1 /\ cueAt' = 1
      /\ UNCHANGED <<overlaps, overlapStatus, gaps, shownTo, mismatches, unresolved,
                     timelineStatus>>
  BY DEF Walking, measured, compared, statuses
<1>2. Walking'
  BY <1>1, SameDeck DEF Walking, StepsToJudge
<1>3. OverlapsSoFar'
  <2>1. OverlapsTo(1) = {}
    BY DEF OverlapsTo
  <2>2. OverlapsTo(cueAt)' = {}
    BY <1>1, <2>1, SameDeck
  <2> QED
    BY <1>1, <2>2 DEF OverlapsSoFar, OverlapsAreFound
<1>4. GapsSoFar'
  BY <1>1 DEF GapsSoFar, GapsAreEmpty
<1>5. TimelineSoFar'
  BY <1>1 DEF TimelineSoFar, TimelineIsJudged, TimelineJudged
<1> QED
  BY <1>2, <1>3, <1>4, <1>5

LEMMA CompareKeepsSubInv ==
    ASSUME SubInv, CompareNeighbours
    PROVE  SubInv'
<1> USE DEF SubInv, CompareNeighbours
<1>1. /\ UNCHANGED deck /\ step = "overlaps" /\ step' = "overlaps" /\ IsDeck(deck)
      /\ valid = ByStart /\ valid' = ByStart /\ cueAt \in Nat \ {0} /\ cueAt' = cueAt + 1
      /\ cueAt < Count
      /\ UNCHANGED <<overlapStatus, gaps, shownTo, mismatches, unresolved, timelineStatus>>
  BY DEF Walking, Count, compared, statuses
<1>2. Walking'
  BY <1>1, SameDeck DEF Walking, StepsToJudge
<1>3. OverlapsSoFar'
  <2>1. overlaps = OverlapsTo(cueAt)
    BY <1>1 DEF OverlapsSoFar
  <2>2. overlaps' = IF InTurn(cueAt).end > InTurn(cueAt + 1).start
                    THEN overlaps \cup {<<ByStart[cueAt], ByStart[cueAt + 1]>>} ELSE overlaps
    BY <1>1 DEF InTurn
  <2>3. overlaps' = OverlapsTo(cueAt + 1)
    BY <1>1, <2>1, <2>2, NextNeighbours, TurnFacts
  <2>4. overlaps' = OverlapsTo(cueAt)'
    <3> DEFINE n == cueAt + 1
    <3>1. OverlapsTo(n) = OverlapsTo(cueAt)'
      BY <1>1, SameDeck DEF OverlapsTo
    <3> QED
      BY <2>3, <3>1
  <2> QED
    BY <1>1, <2>4 DEF OverlapsSoFar, OverlapsAreFound
<1>4. GapsSoFar'
  BY <1>1 DEF GapsSoFar, GapsAreEmpty
<1>5. TimelineSoFar'
  BY <1>1 DEF TimelineSoFar, TimelineIsJudged, TimelineJudged
<1> QED
  BY <1>2, <1>3, <1>4, <1>5

LEMMA JudgeOverlapsKeepsSubInv ==
    ASSUME SubInv, JudgeOverlaps
    PROVE  SubInv'
<1> USE DEF SubInv, JudgeOverlaps
<1>1. /\ UNCHANGED deck /\ step = "overlaps" /\ step' = "lengths" /\ IsDeck(deck)
      /\ valid = ByStart /\ valid' = ByStart /\ cueAt \in Nat \ {0} /\ UNCHANGED cueAt
      /\ cueAt >= Count
      /\ overlapStatus' = IF overlaps # {} THEN "FAIL" ELSE "PASS"
      /\ UNCHANGED <<overlaps, gaps, shownTo, mismatches, unresolved, timelineStatus>>
  BY DEF Walking, Count, measured, compared, statuses
<1>2. Walking'
  BY <1>1, SameDeck DEF Walking, StepsToJudge
<1>3. OverlapsSoFar'
  <2>1. overlaps # {} <=>
           \E i, j \in ValidCues : StartsBefore(i, j) /\ Cue(j).start < Cue(i).end
    BY <1>1, NeighboursSuffice DEF OverlapsSoFar
  <2>2. overlapStatus' = "FAIL" <=>
           \E i, j \in ValidCues : StartsBefore(i, j) /\ Cue(j).start < Cue(i).end
    BY <1>1, <2>1
  <2>3. OverlapsAreFound'
    <3>1. /\ ValidCues' = ValidCues /\ \A k : Cue(k)' = Cue(k)
          /\ \A i, j : StartsBefore(i, j)' = StartsBefore(i, j)
      BY <1>1, SameDeck
    <3> QED
      BY <2>2, <3>1 DEF OverlapsAreFound
  <2> QED
    BY <1>1, <2>3 DEF OverlapsSoFar
<1>4. GapsSoFar'
  BY <1>1 DEF GapsSoFar, GapsAreEmpty
<1>5. TimelineSoFar'
  BY <1>1 DEF TimelineSoFar, TimelineIsJudged, TimelineJudged
<1> QED
  BY <1>2, <1>3, <1>4, <1>5

\* Overlaps that were judged stay judged.
LEMMA LaterOverlaps ==
    ASSUME OverlapsSoFar, UNCHANGED <<deck, overlapStatus>>, step' \notin {"sort", "overlaps"}
    PROVE  OverlapsSoFar'
<1>1. /\ ValidCues' = ValidCues /\ \A k : Cue(k)' = Cue(k)
      /\ \A i, j : StartsBefore(i, j)' = StartsBefore(i, j)
  BY SameDeck
<1>2. OverlapsAreFound'
  BY <1>1 DEF OverlapsSoFar, OverlapsAreFound
<1> QED
  BY <1>2 DEF OverlapsSoFar

LEMMA JudgeLengthsKeepsSubInv ==
    ASSUME SubInv, JudgeLengths
    PROVE  SubInv'
<1> USE DEF SubInv, JudgeLengths
<1>1. /\ UNCHANGED deck /\ step = "lengths" /\ step' = "gaps" /\ IsDeck(deck)
      /\ valid = ByStart /\ valid' = ByStart /\ cueAt' = 1
      /\ gaps = {} /\ shownTo = 0 /\ shownTo' = 0
      /\ UNCHANGED <<gaps, overlapStatus, mismatches, unresolved, timelineStatus>>
  BY DEF Walking, GapsSoFar, compared
<1>2. Walking'
  BY <1>1, SameDeck DEF Walking, StepsToJudge
<1>3. OverlapsSoFar'
  BY <1>1, LaterOverlaps
<1>4. GapsSoFar'
  <2>1. Count \in Nat /\ Count' = Count
    BY <1>1, TurnFacts, SameDeck
  <2>2. GapsTo(cueAt)' = {} /\ ShownBefore(cueAt)'
    BY <1>1 DEF GapsTo, ShownBefore
  <2> QED
    BY <1>1, <2>1, <2>2 DEF GapsSoFar, GapsAreEmpty
<1>5. TimelineSoFar'
  BY <1>1 DEF TimelineSoFar, TimelineIsJudged, TimelineJudged
<1> QED
  BY <1>2, <1>3, <1>4, <1>5

LEMMA LookKeepsSubInv ==
    ASSUME SubInv, LookForGap
    PROVE  SubInv'
<1> USE DEF SubInv, LookForGap
<1>1. /\ UNCHANGED deck /\ step = "gaps" /\ step' = "gaps" /\ IsDeck(deck)
      /\ valid = ByStart /\ valid' = ByStart /\ cueAt \in Nat \ {0} /\ cueAt' = cueAt + 1
      /\ cueAt <= Count /\ shownTo \in Nat
      /\ gaps' = GapUpTo(InTurn(cueAt).start) /\ shownTo' = Shown(ByStart[cueAt])
      /\ UNCHANGED <<overlapStatus, mismatches, unresolved, timelineStatus>>
  BY DEF Walking, Count, InTurn, compared, statuses
<1>2. /\ Count \in Nat /\ Count' = Count /\ cueAt \in 1..Count
      /\ gaps = GapsTo(cueAt) /\ ShownBefore(cueAt)
  BY <1>1, TurnFacts, SameDeck DEF GapsSoFar
<1>3. gaps' = GapsTo(cueAt + 1)
  BY <1>1, <1>2, NextGap
<1>4. /\ shownTo' \in Nat
      /\ shownTo' = 0 \/ \E j \in 1..(cueAt + 1) - 1 : InTurn(j)'.end = shownTo'
      /\ \A j \in 1..(cueAt + 1) - 1 : InTurn(j)'.end <= shownTo'
  <2> DEFINE k == cueAt
  <2>1. \A n \in 1..Count : ShownBefore(n) /\ shownTo' = Shown(ByStart[n]) =>
           /\ shownTo' \in Nat
           /\ shownTo' = 0 \/ \E j \in 1..(n + 1) - 1 : InTurn(j)'.end = shownTo'
           /\ \A j \in 1..(n + 1) - 1 : InTurn(j)'.end <= shownTo'
    BY <1>1, NextShown DEF ShownBefore
  <2> QED
    BY <1>1, <1>2, <2>1
<1>5. Walking'
  BY <1>1, <1>4, SameDeck DEF Walking, StepsToJudge
<1>6. OverlapsSoFar'
  BY <1>1, LaterOverlaps
<1>7. GapsSoFar'
  <2>1. gaps' = GapsTo(cueAt)'
    <3>1. GapsTo(cueAt + 1) = GapsTo(cueAt)'
      BY <1>1, SameDeck DEF GapsTo, Silent
    <3> QED
      BY <1>3, <3>1
  <2>2. ShownBefore(cueAt)'
    BY <1>1, <1>4 DEF ShownBefore
  <2>3. cueAt' <= Count' + 1
    BY <1>1, <1>2
  <2> QED
    BY <1>1, <2>1, <2>2, <2>3 DEF GapsSoFar, GapsAreEmpty
<1>8. TimelineSoFar'
  BY <1>1 DEF TimelineSoFar, TimelineIsJudged, TimelineJudged
<1> QED
  BY <1>5, <1>6, <1>7, <1>8

LEMMA JudgeGapsKeepsSubInv ==
    ASSUME SubInv, JudgeGaps
    PROVE  SubInv'
<1> USE DEF SubInv, JudgeGaps
<1>1. /\ UNCHANGED deck /\ step = "gaps" /\ step' = "timeline" /\ IsDeck(deck)
      /\ valid = ByStart /\ valid' = ByStart /\ cueAt' = 1
      /\ cueAt > Count /\ cueAt \in Nat \ {0} /\ shownTo \in Nat
      /\ gaps' = IF deck.video = Null THEN gaps ELSE GapUpTo(deck.video)
      /\ gapStatus' = WarnAbout(deck.limits.gap,
                                {g \in gaps' : g.end - g.start > deck.limits.gap})
      /\ UNCHANGED <<shownTo, overlapStatus, mismatches, unresolved, timelineStatus>>
  BY DEF Walking, Count, compared
<1>2. cueAt = Count + 1 /\ gaps = GapsTo(cueAt) /\ ShownBefore(cueAt)
  BY <1>1, TurnFacts DEF GapsSoFar
<1>3. gaps' = Silences(deck.params.gap)
  BY <1>1, <1>2, LastGap
<1>4. gapStatus' = "WARN" => deck.limits.gap # Null /\ Silences(deck.limits.gap) # {}
  <2> SUFFICES ASSUME gapStatus' = "WARN"
               PROVE  deck.limits.gap # Null /\ Silences(deck.limits.gap) # {}
    OBVIOUS
  <2>1. /\ deck.limits.gap # Null
        /\ {g \in gaps' : g.end - g.start > deck.limits.gap} # {}
    BY <1>1 DEF WarnAbout
  <2>2. PICK g \in gaps' : g.end - g.start > deck.limits.gap
    BY <2>1
  <2>3. deck.limits.gap \in Nat /\ deck.params.gap \in Nat
    BY <1>1, <2>1, CueFacts
  <2>4. g \in Silences(deck.params.gap)
    BY <1>3
  <2>5. g \in Silences(deck.limits.gap)
    BY <1>1, <2>2, <2>3, <2>4, SilencesFacts
  <2> QED
    BY <2>1, <2>5
<1>5. Walking'
  BY <1>1, SameDeck DEF Walking, StepsToJudge
<1>6. OverlapsSoFar'
  BY <1>1, LaterOverlaps
<1>7. GapsSoFar'
  <2>1. \A n : Silences(n)' = Silences(n)
    BY <1>1, SameDeck
  <2>2. GapsAreEmpty'
    BY <1>1, <1>3, <1>4, <2>1 DEF GapsAreEmpty
  <2> QED
    BY <1>1, <2>2 DEF GapsSoFar
<1>8. TimelineSoFar'
  <2>1. mismatches' = {} /\ unresolved' = {} /\ timelineStatus' = "none"
    BY <1>1 DEF TimelineSoFar
  <2>2. ASSUME deck.source # Null, Len(deck.cues) = Len(deck.source)
        PROVE  1 <= Len(deck.source) + 1
    BY <1>1, <2>2, CueFacts
  <2>3. \A k : k \notin 1..1 - 1
    OBVIOUS
  <2> QED
    BY <1>1, <2>1, <2>2, <2>3 DEF TimelineSoFar, TimelineIsJudged, TimelineJudged
<1> QED
  BY <1>5, <1>6, <1>7, <1>8

\* Gaps that were judged stay judged.
LEMMA LaterGaps ==
    ASSUME GapsSoFar, UNCHANGED <<deck, gaps, gapStatus>>,
           step \in {"timeline", "done"}, step' \in {"timeline", "done"}
    PROVE  GapsSoFar'
<1>1. \A n : Silences(n)' = Silences(n)
  BY SameDeck
<1>2. GapsAreEmpty'
  BY <1>1 DEF GapsSoFar, GapsAreEmpty
<1> QED
  BY <1>2 DEF GapsSoFar

\* The steps of the timeline leave the rest as it is.
LEMMA TimelineAlone ==
    ASSUME SubInv, UNCHANGED <<deck, measured, overlapStatus, gapStatus>>,
           step = "timeline", step' \in {"timeline", "done"}, cueAt' \in Nat \ {0}
    PROVE  /\ Walking' /\ OverlapsSoFar' /\ GapsSoFar'
           /\ IsDeck(deck) /\ cueAt \in Nat \ {0}
<1> USE DEF SubInv
<1>1. /\ IsDeck(deck) /\ cueAt \in Nat \ {0} /\ valid = ByStart /\ shownTo \in Nat
      /\ UNCHANGED <<valid, shownTo, gaps>>
  BY DEF Walking, measured
<1>2. Walking'
  BY <1>1, SameDeck DEF Walking, StepsToJudge
<1>3. OverlapsSoFar'
  BY LaterOverlaps
<1>4. GapsSoFar'
  BY <1>1, LaterGaps
<1> QED
  BY <1>1, <1>2, <1>3, <1>4

LEMMA CompareCueKeepsSubInv ==
    ASSUME SubInv, CompareCue
    PROVE  SubInv'
<1> USE DEF CompareCue, Comparing, statuses
<1> DEFINE n == cueAt
           M(k) == {i \in 1..k - 1 : Located(i) /\ ~InPlace(i)}
           U(k) == {i \in 1..k - 1 : ~Located(i)}
<1>1. cueAt \in Nat \ {0} /\ cueAt' = cueAt + 1
  BY DEF SubInv, Walking
<1>2. /\ Walking' /\ OverlapsSoFar' /\ GapsSoFar' /\ IsDeck(deck)
  BY <1>1, TimelineAlone
<1>3. /\ mismatches = M(n) /\ unresolved = U(n) /\ timelineStatus' = "none"
      /\ cueAt <= Len(deck.source) /\ Len(deck.source) \in Nat
  BY <1>2, CueFacts DEF SubInv, TimelineSoFar
<1>4. \A i : i \in 1..(n + 1) - 1 <=> i \in 1..n - 1 \/ i = n
  BY <1>1
<1>5. /\ M(n + 1) = IF Located(n) /\ ~InPlace(n) THEN M(n) \cup {n} ELSE M(n)
      /\ U(n + 1) = IF ~Located(n) THEN U(n) \cup {n} ELSE U(n)
  BY <1>4
<1>6. /\ Located(n) <=> /\ Map(deck.source[n].start) # Null
                        /\ Map(deck.source[n].end) # Null
      /\ InPlace(n) <=> /\ Cue(n) # Null
                        /\ Near(Cue(n).start, Map(deck.source[n].start))
                        /\ Near(Cue(n).end, Map(deck.source[n].end))
  BY DEF Located, InPlace
<1> HIDE DEF M, U
<1>7. mismatches' = M(n + 1) /\ unresolved' = U(n + 1)
  <2>1. CASE ~Located(n)
    <3>1. unresolved' = unresolved \cup {n} /\ mismatches' = mismatches
      BY <1>6, <2>1
    <3> QED
      BY <1>3, <1>5, <2>1, <3>1
  <2>2. CASE Located(n)
    <3>1. /\ unresolved' = unresolved
          /\ mismatches' = IF InPlace(n) THEN mismatches ELSE mismatches \cup {n}
      BY <1>6, <2>2
    <3> QED
      BY <1>3, <1>5, <2>2, <3>1
  <2> QED
    BY <2>1, <2>2
<1>8. TimelineSoFar'
  <2>1. /\ \A k : Located(k)' = Located(k)
        /\ \A k : InPlace(k)' = InPlace(k)
    BY SameDeck
  <2>2. cueAt' <= Len(deck.source) + 1
    BY <1>1, <1>3
  <2>3. /\ mismatches' = {k \in 1..cueAt' - 1 : Located(k) /\ ~InPlace(k)}
        /\ unresolved' = {k \in 1..cueAt' - 1 : ~Located(k)}
    BY <1>1, <1>7 DEF M, U
  <2>4. step' = "timeline" /\ UNCHANGED deck
    OBVIOUS
  <2> HIDE DEF CompareCue, Comparing
  <2> QED
    BY <1>3, <2>1, <2>2, <2>3, <2>4 DEF TimelineSoFar, TimelineIsJudged, TimelineJudged
<1> QED
  BY <1>2, <1>8 DEF SubInv

LEMMA EndKeepsSubInv ==
    ASSUME SubInv, CountDiffers \/ JudgeTimeline \/ NoTimeline
    PROVE  SubInv'
<1> USE DEF CountDiffers, JudgeTimeline, NoTimeline, Comparing, statuses
<1>1. /\ UNCHANGED <<deck, measured, overlapStatus, gapStatus, cueAt>>
      /\ step = "timeline" /\ step' = "done" /\ cueAt' \in Nat \ {0}
  BY DEF SubInv, Walking
<1>2. Walking' /\ OverlapsSoFar' /\ GapsSoFar' /\ IsDeck(deck) /\ cueAt \in Nat \ {0}
  BY <1>1, TimelineAlone
<1>3. TimelineIsJudged'
  <2>1. CASE CountDiffers
    BY <1>1, <2>1 DEF TimelineIsJudged, TimelineJudged
  <2>2. CASE JudgeTimeline
    <3>1. /\ deck.source # Null /\ Len(deck.cues) = Len(deck.source)
          /\ cueAt > Len(deck.source) /\ Len(deck.source) \in Nat
          /\ timelineStatus' = IF mismatches # {} THEN "FAIL"
                               ELSE IF unresolved # {} THEN "UNKNOWN" ELSE "PASS"
      BY <1>2, <2>2, CueFacts
    <3>2. /\ cueAt <= Len(deck.source) + 1
          /\ mismatches = {k \in 1..cueAt - 1 : Located(k) /\ ~InPlace(k)}
          /\ unresolved = {k \in 1..cueAt - 1 : ~Located(k)}
      BY <1>1, <3>1 DEF SubInv, TimelineSoFar
    <3>3. cueAt - 1 = Len(deck.source)
      BY <1>2, <3>1, <3>2
    <3>4. /\ mismatches = {k \in 1..Len(deck.source) : Located(k) /\ ~InPlace(k)}
          /\ unresolved = {k \in 1..Len(deck.source) : ~Located(k)}
      BY <3>2, <3>3
    <3> HIDE DEF CountDiffers, JudgeTimeline, NoTimeline, Comparing
    <3> QED
      BY <1>1, <1>2, <3>1, <3>4, TimelineDecides
  <2>3. CASE NoTimeline
    <3>1. timelineStatus' = "none"
      BY <1>1, <2>3 DEF SubInv, TimelineSoFar
    <3> QED
      BY <3>1 DEF TimelineIsJudged, TimelineJudged
  <2> QED
    BY <2>1, <2>2, <2>3
<1>4. TimelineSoFar'
  BY <1>1, <1>3 DEF TimelineSoFar
<1> QED
  BY <1>2, <1>4 DEF SubInv

LEMMA StutterKeepsSubInv ==
    ASSUME SubInv, UNCHANGED subVars
    PROVE  SubInv'
<1> USE DEF SubInv
<1>1. UNCHANGED <<deck, step, cueAt, valid, overlaps, long, gaps, shownTo, mismatches,
                  unresolved, overlapStatus, cueStatus, gapStatus, timelineStatus>>
  BY DEF subVars, measured, compared, statuses
<1>2. Walking'
  BY <1>1, SameDeck DEF Walking
<1>3. OverlapsSoFar'
  BY <1>1, SameDeck DEF OverlapsSoFar, OverlapsAreFound, OverlapsTo
<1>4. GapsSoFar'
  <2>1. GapsAreEmpty'
    BY <1>1, SameDeck DEF GapsSoFar, GapsAreEmpty
  <2>2. /\ Count' = Count /\ ValidCues' = ValidCues
        /\ \A k : InTurn(k)' = InTurn(k)
        /\ \A k : Cue(k)' = Cue(k)
    BY <1>1, SameDeck
  <2>3. GapsTo(cueAt)' = GapsTo(cueAt) /\ ShownBefore(cueAt)' = ShownBefore(cueAt)
    BY <1>1, <2>2 DEF GapsTo, Silent, ShownBefore
  <2> QED
    BY <1>1, <2>1, <2>2, <2>3 DEF GapsSoFar
<1>5. TimelineSoFar'
  <2>1. TimelineIsJudged'
    <3>1. \A k : /\ MayBeRight(k)' <=> MayBeRight(k)
                 /\ MayBeWrong(k)' <=> MayBeWrong(k)
                 /\ IsKept(k)' <=> IsKept(k)
      BY <1>1, SameTimeline
    <3>2. TimelineIsJudged
      BY DEF TimelineSoFar
    <3> QED
      BY <1>1, <3>1, <3>2 DEF TimelineIsJudged, TimelineJudged
  <2>2. /\ \A k : Located(k)' = Located(k)
        /\ \A k : InPlace(k)' = InPlace(k)
    BY <1>1, SameDeck
  <2> QED
    BY <1>1, <2>1, <2>2 DEF TimelineSoFar
<1> QED
  BY <1>2, <1>3, <1>4, <1>5

LEMMA StepSubInv == SubInv /\ [SubNext]_subVars => SubInv'
BY SortKeepsSubInv, CompareKeepsSubInv, JudgeOverlapsKeepsSubInv, JudgeLengthsKeepsSubInv,
   LookKeepsSubInv, JudgeGapsKeepsSubInv, CompareCueKeepsSubInv, EndKeepsSubInv,
   StutterKeepsSubInv DEF SubNext

\* Each walk along the cues has, at every cue, found what there is to find in
\* the cues so far (subtitle.py 217-278, rules.py 969-1008).
THEOREM SubInvariant == SubSpec => []SubInv
BY InitSubInv, StepSubInv, PTL DEF SubSpec

----------------------------------------------------------------------------
\* Comparing neighbours in the order of their starts misses no two cues on
\* screen together, for any subtitles (subtitle.py 217-226).
THEOREM OverlapsAreNotMissed == SubSpec => []OverlapsAreFound
<1>1. SubInv => OverlapsAreFound
  BY DEF SubInv, OverlapsSoFar
<1> QED
  BY <1>1, SubInvariant, PTL

\* One pass that remembers how far something was shown finds exactly the longest
\* stretches without a cue, for any subtitles and limits (subtitle.py 271-278).
THEOREM GapsAreExact == SubSpec => []GapsAreEmpty
<1>1. SubInv => GapsAreEmpty
  BY DEF SubInv, GapsSoFar
<1> QED
  BY <1>1, SubInvariant, PTL

\* For any cues, timeline, speeds and tolerance, reordered and overlapping
\* segments included: PASS only if every cue is where some segments put it, FAIL
\* only if one is not where some segment puts it, and UNKNOWN only if one is not
\* wholly kept and none that is kept is misplaced (rules.py 932-1008).
THEOREM TimelinesAreJudged == SubSpec => []TimelineIsJudged
<1>1. SubInv => TimelineIsJudged
  BY DEF SubInv, TimelineSoFar
<1> QED
  BY <1>1, SubInvariant, PTL
=============================================================================
