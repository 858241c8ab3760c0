------------------------------- MODULE Cuts -------------------------------
(***************************************************************************)
(* The cuts a video was planned to have against those scdet detected: each *)
(* planned cut, in time order, takes the nearest detected one within a     *)
(* window that no earlier one took.                                        *)
(*                                                                         *)
(* Times are whole ticks.  A tick is longer than the tolerances of 1e-12 s *)
(* and 1e-9 s and than what rounding an error to 1/1000 of a frame can     *)
(* change, so that none of the three can turn a comparison of ticks.       *)
(***************************************************************************)
EXTENDS Integers, Sequences, FiniteSets, FiniteSetsExt, Sorting

CONSTANTS Plans   \* what was planned and what was detected, with the rule

\* detected is in time order; measured is FALSE when there is no list of cuts
\* or no frame rate.
IsPlan(p) ==
    /\ p.expected \in Seq(Nat) /\ p.detected \in Seq(Nat)
    /\ \A i, j \in DOMAIN p.detected : i < j => p.detected[i] < p.detected[j]
    /\ p.window \in Nat /\ p.maxError \in Nat
    /\ p.allowExtra \in BOOLEAN /\ p.measured \in BOOLEAN

ASSUME CutAssumption == \A p \in Plans : IsPlan(p)

VARIABLES plan,
          todo,      \* the planned cuts not looked at yet, in time order
          matched,   \* the pairs made: a planned time, the index of a detected cut
          missing,   \* the planned times without a detected cut
          cutStatus

cutVars == <<plan, todo, matched, missing, cutStatus>>

Apartness(s, t) == IF s < t THEN t - s ELSE s - t

\* Planned cuts at the same time cannot be told apart.
EarlierIn(e) ==
    {p \in (DOMAIN e) \X (DOMAIN e) :
        e[p[1]] < e[p[2]] \/ (e[p[1]] = e[p[2]] /\ p[1] < p[2])}
TimeOrder(e) == Sorted(DOMAIN e, EarlierIn(e))

CutStart ==
    /\ todo = [k \in DOMAIN plan.expected |-> plan.expected[TimeOrder(plan.expected)[k]]]
    /\ matched = <<>> /\ missing = <<>>
    /\ cutStatus = "none"

CutInit == plan \in Plans /\ CutStart

Distance(e, i) == Apartness(plan.detected[i], e)

Used == {matched[k].index : k \in DOMAIN matched}

AnyInReach(e) == {i \in DOMAIN plan.detected : Distance(e, i) <= plan.window}
InReach(e) == {i \in DOMAIN plan.detected \ Used : Distance(e, i) <= plan.window}

\* Of two at the same distance the earlier one.
FirstInReach(e) == Min(InReach(e))
Nearest(e) ==
    CHOOSE i \in InReach(e) :
        \A j \in InReach(e) : \/ Distance(e, i) < Distance(e, j)
                              \/ Distance(e, i) = Distance(e, j) /\ i <= j

\* A cut list or a frame rate that is not known leaves the check undecided.
CutsUnknown ==
    /\ cutStatus = "none" /\ ~plan.measured
    /\ cutStatus' = "UNKNOWN"
    /\ UNCHANGED <<plan, todo, matched, missing>>

MatchCut ==
    /\ cutStatus = "none" /\ plan.measured /\ todo # <<>>
    /\ InReach(Head(todo)) # {}
    /\ matched' = Append(matched, [time |-> Head(todo), index |-> Nearest(Head(todo))])
    /\ todo' = Tail(todo)
    /\ UNCHANGED <<plan, missing, cutStatus>>

MissCut ==
    /\ cutStatus = "none" /\ plan.measured /\ todo # <<>>
    /\ InReach(Head(todo)) = {}
    /\ missing' = Append(missing, Head(todo))
    /\ todo' = Tail(todo)
    /\ UNCHANGED <<plan, matched, cutStatus>>

CutErrors == {Distance(matched[k].time, matched[k].index) : k \in DOMAIN matched}

Extra == DOMAIN plan.detected \ Used

Violated ==
    \/ missing # <<>>
    \/ \E d \in CutErrors : d > plan.maxError
    \/ Extra # {} /\ ~plan.allowExtra

JudgeCuts ==
    /\ cutStatus = "none" /\ plan.measured /\ todo = <<>>
    /\ cutStatus' = IF Violated THEN "FAIL" ELSE "PASS"
    /\ UNCHANGED <<plan, todo, matched, missing>>

CutNext == CutsUnknown \/ MatchCut \/ MissCut \/ JudgeCuts

CutSpec == CutInit /\ [][CutNext]_cutVars

----------------------------------------------------------------------------
\* No detected cut is taken twice, and no planned cut is lost on the way.
CutTypeOK ==
    /\ IsPlan(plan)
    /\ todo \in Seq(Nat) /\ missing \in Seq(Nat)
    /\ matched \in Seq([time : Nat, index : DOMAIN plan.detected])
    /\ cutStatus \in {"none", "PASS", "FAIL", "UNKNOWN"}
    /\ Cardinality(Used) = Len(matched)
    /\ Len(todo) + Len(matched) + Len(missing) = Len(plan.expected)

\* Whatever the order in which cuts were planned, no cut that was detected and
\* left over is within the window of one reported missing, and none is nearer
\* to a planned cut than the one it was paired with (rules.py 512-534).
NothingBetterIsFree ==
    cutStatus \in {"PASS", "FAIL"} =>
        \A i \in Extra :
            /\ \A k \in DOMAIN missing : Distance(missing[k], i) > plan.window
            /\ \A k \in DOMAIN matched :
                  Distance(matched[k].time, i) >= Distance(matched[k].time, matched[k].index)

\* Ways to give planned cuts detected ones of their own, near enough to pass.
Pairings ==
    LET near(k, i) == Distance(plan.expected[k], i) <= Min({plan.window, plan.maxError})
    IN  {m \in [DOMAIN plan.expected -> DOMAIN plan.detected] :
            /\ \A k \in DOMAIN m : near(k, m[k])
            /\ \A j, k \in DOMAIN m : m[j] = m[k] => j = k
            /\ plan.allowExtra \/ {m[k] : k \in DOMAIN m} = DOMAIN plan.detected}

Apart ==
    \A j, k \in DOMAIN plan.expected :
        j < k => Apartness(plan.expected[j], plan.expected[k]) > 2 * plan.window

\* A video passes only if its planned and detected cuts can be paired within the
\* tolerances.  Cuts planned so far apart that their windows do not overlap are
\* failed only if they cannot; nearer ones may be, because the pairing takes the
\* nearest and never reconsiders (rules.py 512-559).
PassIsAPairing ==
    /\ cutStatus = "PASS" => Pairings # {}
    /\ cutStatus = "FAIL" /\ Apart => Pairings = {}
=============================================================================
