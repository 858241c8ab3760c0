--------------------------- MODULE VerdictsProofs ---------------------------
(***************************************************************************)
(* A report says PASS or WARN only for what was measured, or for a silence *)
(* of unknown length: proved for every set of requests, with any number of *)
(* artifacts, as long as ffmpeg never stops early unnoticed.  The          *)
(* argument: a pass leaves either nothing or everything it measures, and   *)
(* the baseline check of the same pass, which is UNKNOWN if there is       *)
(* nothing, is in every report that has one of the checks whose missing    *)
(* measurement counts as nothing found.                                    *)
(***************************************************************************)
EXTENDS Verdicts, TLAPS

Measurable == {"video", "audio", "delivery"}

\* The streams of i were probed, and its subtitle was parsed or is not there.
ProbeSeen(i) ==
    \A s \in LookedFor(req.assets[i].type) \ {"subtitle"} : stream[i][s] = (s \in has[i])

SubtitleSeen(i) == stream[i]["subtitle"] = ("subtitle" \in has[i])

TypeInv ==
    /\ req \in Requests
    /\ has \in [Assets -> SUBSET Streams] /\ there \in [Assets -> BOOLEAN]
    /\ at \in 1..Len(req.assets) + 1
    /\ left \subseteq Passes
    /\ stream \in [Assets -> [Streams -> BOOLEAN \cup {None}]]
    /\ lacks \in [Assets -> SUBSET {"duration", "frame_rate", "resolution"}]
    /\ facts \in [Assets -> [Checks -> Values \ {"cut"}]]
    /\ outcome \in {"running", "error", "done"}
    /\ \A r \in report : r.status \in Status

\* Only an artifact of a package may be missing, and nothing is looked for or
\* seen in a file that is not there.
AbsentInv ==
    /\ \A i \in Assets : there[i] \/ req.kind = "delivery_package"
    /\ \A i \in Assets : \A s \in Streams : stream[i][s] = TRUE => s \in has[i]
    /\ \A i \in Assets : has[i] # {} => there[i]
    /\ \A i \in Assets : ~there[i] => \A s \in Streams : stream[i][s] = None
    /\ at \in Assets /\ ~there[at] => left \subseteq {"stat"}

\* The asset being measured has what is left still before it, those ahead of
\* it in the request have nothing.
DoneInv ==
    /\ \A i \in Assets : i < at /\ there[i] =>
          /\ req.assets[i].type \in Measurable => ProbeSeen(i)
          /\ req.assets[i].type \in {"subtitle", "delivery"} => SubtitleSeen(i)
    /\ at \in Assets /\ there[at] =>
          LET type == req.assets[at].type
              waits == req.kind = "delivery_package" /\ "stat" \in left
          IN  /\ type \in Measurable => waits \/ "probe" \in left \/ ProbeSeen(at)
              /\ type = "delivery" => "probe" \in left \/ "parse" \in left \/ SubtitleSeen(at)
              /\ type = "subtitle" => waits \/ "parse" \in left \/ SubtitleSeen(at)
              /\ type = "subtitle" => "probe" \notin left

\* A pass has found something for each of its checks, or for none.
GroupInv ==
    \A i \in Assets :
        /\ facts[i]["video.decodes"] # None =>
              \A c \in Measures.decode : Applies(i, c) => facts[i][c] # None
        /\ facts[i]["audio.decodes"] # None =>
              (Applies(i, "audio.silence") => facts[i]["audio.silence"] # None)
        /\ stream[i]["subtitle"] = TRUE =>
              \A c \in Measures.parse \cap Defaulted : Applies(i, c) => facts[i][c] # None

IInv == TypeInv /\ AbsentInv /\ DoneInv /\ GroupInv /\ VerdictIsBacked

----------------------------------------------------------------------------
\* The aggregate is a status, PASS only of PASS, and hides neither UNKNOWN
\* nor FAIL behind PASS or WARN (QCStatus.aggregate).
LEMMA AggregateSound ==
    ASSUME NEW S \in SUBSET Status
    PROVE  /\ Aggregate(S) \in Status
           /\ Aggregate(S) = "PASS" => S \subseteq {"PASS"}
           /\ Aggregate(S) = "WARN" => S \subseteq {"PASS", "WARN"}
           /\ "FAIL" \in S => Aggregate(S) = "FAIL"
<1>1. CASE S = {}
  BY <1>1 DEF Aggregate, Status
<1>2. CASE S # {}
  <2>1. \A s \in Status : Rank(s) \in 0..3
    BY DEF Rank, Status
  <2>2. /\ Rank("PASS") = 0 /\ Rank("WARN") = 1
        /\ Rank("UNKNOWN") = 2 /\ Rank("FAIL") = 3
    BY DEF Rank
  <2>3. \E s \in S : \A t \in S : Rank(t) <= Rank(s)
    <3>1. CASE "FAIL" \in S
      BY <3>1, <2>1, <2>2 DEF Status
    <3>2. CASE "FAIL" \notin S /\ "UNKNOWN" \in S
      BY <3>2, <2>2 DEF Status
    <3>3. CASE "FAIL" \notin S /\ "UNKNOWN" \notin S /\ "WARN" \in S
      BY <3>3, <2>2 DEF Status
    <3>4. CASE S \subseteq {"PASS"}
      <4>1. \A t \in S : t = "PASS"
        BY <3>4
      <4>2. "PASS" \in S
        BY <4>1, <1>2
      <4> QED BY <4>1, <4>2, <2>2
    <3> QED BY <3>1, <3>2, <3>3, <3>4 DEF Status
  <2>4. Aggregate(S) \in S /\ \A t \in S : Rank(t) <= Rank(Aggregate(S))
    BY <1>2, <2>3 DEF Aggregate
  <2>5. \A t \in S : t \in {"PASS", "WARN", "UNKNOWN", "FAIL"}
    BY DEF Status
  <2>6. Aggregate(S) \in Status
    BY <2>4
  <2>7. ASSUME Aggregate(S) = "PASS", NEW t \in S PROVE t = "PASS"
    <3>1. Rank(t) <= 0
      BY <2>2, <2>4, <2>7
    <3> QED BY <3>1, <2>2, <2>5
  <2>8. ASSUME Aggregate(S) = "WARN", NEW t \in S PROVE t \in {"PASS", "WARN"}
    <3>1. Rank(t) <= 1
      BY <2>2, <2>4, <2>8
    <3> QED BY <3>1, <2>2, <2>5
  <2>9. ASSUME "FAIL" \in S PROVE Aggregate(S) = "FAIL"
    <3>1. 3 <= Rank(Aggregate(S))
      BY <2>2, <2>4, <2>9
    <3> QED BY <3>1, <2>2, <2>6, <2>5, <2>4
  <2> QED BY <2>6, <2>7, <2>8, <2>9
<1> QED BY <1>1, <1>2

\* What a pass finds is never cut short, and never missing for a check whose
\* missing measurement would count as nothing found.
LEMMA FindingsSound ==
    ASSUME NEW c \in Checks
    PROVE  /\ Findings(c) \subseteq Values \ {"cut"}
           /\ c \in Defaulted \cup {"video.decodes", "audio.decodes"} => None \notin Findings(c)
<1>1. None \notin {"fine", "bad", "open", "cut"}
  BY NoneAssumption
<1> QED BY <1>1 DEF Findings, Values, Defaulted, Measures, Checks, FileChecks, VideoChecks,
               AudioChecks, SubtitleChecks

\* The requests of the assumption, for the request of a state.
LEMMA RequestSound ==
    ASSUME req \in Requests
    PROVE  /\ Len(req.assets) \in Nat /\ Assets = 1..Len(req.assets)
           /\ req.kind \in Kinds
           /\ \A i \in Assets : req.assets[i] \in Asset
           /\ req.durations \subseteq Assets
           /\ req.dependencies \subseteq Assets \X Assets
           /\ \A i \in Assets :
                 /\ req.kind = "delivery_package" => req.assets[i].type \in ArtifactTypes
                 /\ req.kind # "delivery_package" => req.assets[i].type = req.kind
                 /\ req.kind = "delivery_package" /\ ~req.assets[i].ruled =>
                       req.assets[i].given = {} /\ req.assets[i].wants = {}
<1>1. req.assets \in Seq(Asset)
  BY RequestAssumption
<1>2. Len(req.assets) \in Nat /\ Assets = 1..Len(req.assets)
      /\ \A i \in Assets : req.assets[i] \in Asset
  BY <1>1 DEF Assets
<1>3. req.kind # "delivery_package" => Len(req.assets) = 1 /\ req.assets[1].type = req.kind
  BY RequestAssumption
<1>4. \A i \in Assets : req.kind # "delivery_package" => req.assets[i].type = req.kind
  BY <1>2, <1>3
<1> QED BY <1>2, <1>4, RequestAssumption DEF Assets

\* What Record changes.
LEMMA RecordFindings ==
    ASSUME TypeInv, at \in Assets, NEW p \in DOMAIN Measures, NEW more,
           Record(p, Findings, more)
    PROVE  /\ facts' \in [Assets -> [Checks -> Values \ {"cut"}]]
           /\ \A i \in Assets \ {at} : facts'[i] = facts[i]
           /\ \A c \in Checks :
                 IF c \in Measures[p] /\ Applies(at, c)
                 THEN facts'[at][c] \in Findings(c)
                 ELSE facts'[at][c] = facts[at][c]
           /\ left' = (left \ {p}) \cup more
<1> DEFINE D == {c \in Measures[p] : Applies(at, c)}
<1>1. PICK f \in [D -> Values] :
         /\ \A c \in D : f[c] \in Findings(c)
         /\ facts' = [facts EXCEPT ![at] =
                         [c \in Checks |-> IF c \in D THEN f[c] ELSE facts[at][c]]]
  BY DEF Record
<1>2. facts'[at] = [c \in Checks |-> IF c \in D THEN f[c] ELSE facts[at][c]]
  BY <1>1 DEF TypeInv
<1>3. \A c \in Checks : facts'[at][c] \in Values \ {"cut"}
  BY <1>1, <1>2, FindingsSound DEF TypeInv
<1>4. facts' \in [Assets -> [Checks -> Values \ {"cut"}]]
  BY <1>1, <1>2, <1>3 DEF TypeInv
<1>5. left' = (left \ {p}) \cup more
  BY DEF Record
<1> QED BY <1>1, <1>2, <1>4, <1>5 DEF TypeInv

----------------------------------------------------------------------------
(* Evaluation. *)

LEMMA VerdictCases ==
    ASSUME NEW c \in Checks, NEW v \in Values \ {"cut"}
    PROVE  /\ Verdict(c, v) \in Status
           /\ Verdict(c, v) = "PASS" =>
                 \/ v = "fine"
                 \/ v = None /\ c \in Defaulted
                 \/ v = "open" /\ c \in Overlooked
           /\ Verdict(c, v) = "WARN" => v = "bad" /\ c \in Warned
<1>1. None \notin {"fine", "bad", "open", "cut"}
  BY NoneAssumption
<1>2. CASE v = "bad"
  BY <1>2, <1>1 DEF Verdict, Status
<1>3. CASE v = "fine"
  BY <1>3, <1>1 DEF Verdict, Status
<1>4. CASE v = "open"
  BY <1>4, <1>1 DEF Verdict, Status
<1>5. CASE v = None
  BY <1>5, <1>1 DEF Verdict, Status
<1> QED BY <1>2, <1>3, <1>4, <1>5 DEF Values

LEMMA StatusOfChecks ==
    ASSUME TypeInv
    PROVE  \A r \in AllChecks : r.status \in Status
<1> DEFINE Ok(S) == \A r \in S : r.status \in Status
<1>1. \A b : PassOrFail(b) \in Status
  BY DEF PassOrFail, Status
<1>2. \A i \in Assets, c \in Checks : Verdict(c, facts[i][c]) \in Status
  BY VerdictCases DEF TypeInv
<1>3. \A i, c, st : Check(i, c, st).status = st
  BY DEF Check
<1>4. ASSUME NEW i \in Assets PROVE Ok(FileVerdicts(i))
  BY <1>2, <1>3 DEF FileVerdicts, Checks
<1>5. ASSUME NEW i \in Assets, NEW s \in Streams PROVE Ok(StreamChecks(i, s))
  <2>1. Ok(PresenceChecks(i, s))
    BY <1>1, <1>3 DEF PresenceChecks
  <2>2. ChecksOf(s) \subseteq Checks
    BY DEF ChecksOf, Checks
  <2>3. Ok({Check(i, c, Verdict(c, facts[i][c])) :
               c \in {c \in ChecksOf(s) : Present(i, s) /\ Applies(i, c)}})
    BY <1>2, <1>3, <2>2
  <2> QED BY <2>1, <2>3 DEF StreamChecks
<1>6. \A i \in Assets : Evaluated(i) \subseteq Streams
  BY RequestSound DEF Evaluated, TypeInv, Asset, Kinds
<1>7. ASSUME NEW i \in Assets PROVE Ok(UNION {StreamChecks(i, s) : s \in Evaluated(i)})
  BY <1>5, <1>6
<1>8. ASSUME NEW i \in Assets PROVE Ok(ArtifactChecks(i))
  <2>1. Ok({Check(i, "artifact_present", PassOrFail(there[i] \/ ~req.assets[i].required))})
    BY <1>1, <1>3
  <2> QED BY <2>1, <1>4, <1>7 DEF ArtifactChecks
<1>9. Ok(CrossChecks)
  <2>1. "UNKNOWN" \in Status
    BY DEF Status
  <2>2. Ok({Check(0, "duration_consistent",
                 IF \E i \in req.durations : ~HasDuration(i) THEN "UNKNOWN"
                 ELSE PassOrFail(agree))})
    BY <1>1, <1>3, <2>1
  <2>3. Ok({Check(d[1], "dependency_satisfied", PassOrFail(there[d[2]])) :
               d \in {d \in req.dependencies : there[d[1]]}})
    BY <1>1, <1>3
  <2> QED BY <2>2, <2>3 DEF CrossChecks
<1>10. CASE req.kind = "delivery_package"
  <2> DEFINE OfArtifacts == UNION {ArtifactChecks(i) : i \in Assets}
  <2>1. Ok(OfArtifacts)
    BY <1>8
  <2>2. AllChecks = CrossChecks \cup OfArtifacts
    BY <1>10 DEF AllChecks
  <2> HIDE DEF OfArtifacts
  <2> QED BY <2>1, <2>2, <1>9
<1>11. CASE req.kind # "delivery_package"
  <2>1. ASSUME NEW i \in Assets
        PROVE  Ok(FileVerdicts(i) \cup UNION {StreamChecks(i, s) : s \in Evaluated(i)})
    BY <1>4, <1>7
  <2>2. Ok(UNION {FileVerdicts(i) \cup UNION {StreamChecks(i, s) : s \in Evaluated(i)}
                 : i \in Assets})
    BY <2>1
  <2> QED BY <1>11, <2>2 DEF AllChecks
<1> QED BY <1>10, <1>11

\* Every check that concerns something there is in the report.
LEMMA ConcernsReported ==
    ASSUME TypeInv, AbsentInv, DoneInv, at \notin Assets,
           NEW i \in Assets, NEW c \in Checks, Concerns(i, c)
    PROVE  /\ Check(i, c, Verdict(c, facts[i][c])) \in AllChecks
           /\ c \notin FileChecks =>
                 \E s \in Evaluated(i) : Present(i, s) /\ c \in ChecksOf(s)
                                         /\ StreamChecks(i, s) \subseteq AllChecks
<1>1. i < at
  BY RequestSound DEF TypeInv
<1>2. there[i]
  BY DEF Concerns, AbsentInv
<1>3. ASSUME req.assets[i].given # {} \/ req.assets[i].wants # {}, req.kind = "delivery_package"
      PROVE  req.assets[i].ruled
  BY <1>3, RequestSound DEF TypeInv
<1>4. CASE c \in FileChecks /\ c \in req.assets[i].wants
  <2>1. Check(i, c, Verdict(c, facts[i][c])) \in FileVerdicts(i)
    BY <1>4 DEF FileVerdicts
  <2>2. FileVerdicts(i) \subseteq AllChecks
    <3>1. CASE req.kind = "delivery_package"
      <4>1. FileVerdicts(i) \subseteq ArtifactChecks(i)
        BY <1>2, <1>3, <1>4, <3>1 DEF ArtifactChecks
      <4> QED BY <4>1, <3>1 DEF AllChecks
    <3>2. CASE req.kind # "delivery_package"
      BY <3>2 DEF AllChecks
    <3> QED BY <3>1, <3>2
  <2> QED BY <1>4, <2>1, <2>2
<1>5. CASE ~(c \in FileChecks /\ c \in req.assets[i].wants)
  <2>1. PICK s \in Evaluated(i) \cap has[i] :
           c \in ChecksOf(s) /\ s \in LookedFor(req.assets[i].type)
    BY <1>5 DEF Concerns
  <2>2. Applies(i, c)
    BY <1>5 DEF Concerns
  <2>3. Present(i, s)
    <3>1. req.assets[i].type \in Streams \cup {"delivery"}
      BY <2>1 DEF LookedFor, Streams
    <3>2. s \in Streams
      BY <2>1 DEF LookedFor, Streams
    <3>3. CASE s = "subtitle"
      <4>1. req.assets[i].type \in {"subtitle", "delivery"}
        BY <2>1, <3>1, <3>3 DEF LookedFor, Streams
      <4>2. SubtitleSeen(i)
        BY <1>1, <1>2, <4>1 DEF DoneInv
      <4> QED BY <4>2, <2>1, <3>3 DEF SubtitleSeen, Present
    <3>4. CASE s # "subtitle"
      <4>1. req.assets[i].type \in Measurable
        BY <2>1, <3>1, <3>4 DEF LookedFor, Streams, Measurable
      <4>2. ProbeSeen(i)
        BY <1>1, <1>2, <4>1 DEF DoneInv
      <4> QED BY <4>2, <2>1, <3>4 DEF ProbeSeen, Present
    <3> QED BY <3>3, <3>4
  <2>4. Check(i, c, Verdict(c, facts[i][c])) \in StreamChecks(i, s)
    BY <2>1, <2>2, <2>3 DEF StreamChecks
  <2>5. StreamChecks(i, s) \subseteq AllChecks
    <3>1. StreamChecks(i, s) \subseteq UNION {StreamChecks(i, t) : t \in Evaluated(i)}
      BY <2>1
    <3>2. CASE req.kind = "delivery_package"
      <4>1. req.assets[i].ruled
        BY <1>3, <2>1, <3>2 DEF Evaluated
      <4>2. StreamChecks(i, s) \subseteq ArtifactChecks(i)
        BY <1>2, <4>1, <3>1 DEF ArtifactChecks
      <4> QED BY <4>2, <3>2 DEF AllChecks
    <3>3. CASE req.kind # "delivery_package"
      BY <3>1, <3>3 DEF AllChecks
    <3> QED BY <3>2, <3>3
  <2> QED BY <2>1, <2>3, <2>4, <2>5
<1> QED BY <1>4, <1>5

\* What VerdictIsBacked says of a report is true of the one Evaluate makes.
LEMMA EvaluateSound ==
    ASSUME TypeInv, AbsentInv, DoneInv, GroupInv, at \notin Assets,
           NEW A, A = Aggregate({r.status : r \in AllChecks}), A \in {"PASS", "WARN"}
    PROVE  /\ \A i \in Assets, c \in Checks : Concerns(i, c) =>
                 \/ facts[i][c] = "fine"
                 \/ facts[i][c] = "bad" /\ c \in Warned /\ A = "WARN"
                 \/ facts[i][c] = "open" /\ c \in Overlooked
           /\ req.durations # {} => agree /\ \A i \in req.durations : there[i]
           /\ \A d \in req.dependencies : there[d[1]] => there[d[2]]
<1>1. \A r \in AllChecks :
         /\ r.status \in {"PASS", "WARN"}
         /\ A = "PASS" => r.status = "PASS"
  <2>1. {r.status : r \in AllChecks} \in SUBSET Status
    BY StatusOfChecks
  <2> QED BY <2>1, AggregateSound
<1>2. \A i, c, st : Check(i, c, st).status = st
  BY DEF Check
<1>3. ASSUME NEW i \in Assets, NEW c \in Checks, Check(i, c, Verdict(c, facts[i][c])) \in AllChecks
      PROVE  /\ \/ facts[i][c] = "fine"
                \/ facts[i][c] = "bad" /\ c \in Warned /\ A = "WARN"
                \/ facts[i][c] = "open" /\ c \in Overlooked
                \/ facts[i][c] = None /\ c \in Defaulted
             /\ c \notin Defaulted => facts[i][c] # None
  <2>1. facts[i][c] \in Values \ {"cut"}
    BY DEF TypeInv
  <2>2. Verdict(c, facts[i][c]) \in {"PASS", "WARN"}
        /\ (A = "PASS" => Verdict(c, facts[i][c]) = "PASS")
    BY <1>1, <1>2, <1>3
  <2>3. None # "fine" /\ None # "bad" /\ None # "open"
    BY NoneAssumption
  <2> QED BY <2>1, <2>2, <2>3, VerdictCases
<1>4. ASSUME NEW i \in Assets, NEW c \in Checks, Concerns(i, c) PROVE facts[i][c] # None \/ c \notin Defaulted
  <2> SUFFICES ASSUME c \in Defaulted PROVE facts[i][c] # None
    OBVIOUS
  <2>1. c \notin FileChecks
    BY DEF Defaulted, FileChecks, Measures
  <2>2. PICK s \in Evaluated(i) : Present(i, s) /\ c \in ChecksOf(s)
                                  /\ StreamChecks(i, s) \subseteq AllChecks
    BY <1>4, <2>1, ConcernsReported
  <2>3. Applies(i, c)
    BY <1>4, <2>1 DEF Concerns
  <2>4. ASSUME NEW b \in Checks \cap Baseline, b \in ChecksOf(s), b \notin Defaulted
        PROVE  facts[i][b] # None
    <3>1. Check(i, b, Verdict(b, facts[i][b])) \in AllChecks
      BY <2>2, <2>4 DEF StreamChecks, Applies
    <3> QED BY <3>1, <1>3, <2>4
  <2>5. CASE c \in {"video.black", "video.freeze", "video.luminance"}
    <3>1. s = "video"
      BY <2>2, <2>5, RequestSound
         DEF TypeInv, ChecksOf, AudioChecks, SubtitleChecks, Measures
    <3>2. facts[i]["video.decodes"] # None
      BY <2>4, <3>1 DEF ChecksOf, VideoChecks, Checks, Measures, Baseline, Defaulted
    <3> QED BY <3>2, <2>3, <2>5 DEF GroupInv, Measures
  <2>6. CASE c = "audio.silence"
    <3>1. s = "audio"
      BY <2>2, <2>6 DEF ChecksOf, VideoChecks, SubtitleChecks, Measures
    <3>2. facts[i]["audio.decodes"] # None
      BY <2>4, <3>1 DEF ChecksOf, AudioChecks, Checks, Measures, Baseline, Defaulted
    <3> QED BY <3>2, <2>3, <2>6 DEF GroupInv
  <2>7. CASE c \in {"subtitle.structure", "subtitle.empty", "subtitle.overlaps", "subtitle.limits"}
    <3>1. s \notin {"video", "audio"}
      BY <2>2, <2>7 DEF ChecksOf, VideoChecks, AudioChecks, Measures
    <3>2. s = "subtitle"
      BY <3>1, RequestSound DEF TypeInv, Evaluated, Asset, Kinds, Streams
    <3> QED BY <3>2, <2>2, <2>3, <2>7 DEF GroupInv, Present, Measures, Defaulted
  <2> QED BY <2>5, <2>6, <2>7 DEF Defaulted
<1>5. \A i \in Assets, c \in Checks : Concerns(i, c) =>
         \/ facts[i][c] = "fine"
         \/ facts[i][c] = "bad" /\ c \in Warned /\ A = "WARN"
         \/ facts[i][c] = "open" /\ c \in Overlooked
  BY <1>3, <1>4, ConcernsReported
<1>6. ASSUME req.durations # {} \/ req.dependencies # {} PROVE CrossChecks \subseteq AllChecks
  <2>1. req.kind = "delivery_package"
    BY <1>6, RequestAssumption DEF TypeInv
  <2> DEFINE OfArtifacts == UNION {ArtifactChecks(i) : i \in Assets}
  <2>2. AllChecks = CrossChecks \cup OfArtifacts
    BY <2>1 DEF AllChecks
  <2> HIDE DEF OfArtifacts
  <2> QED BY <2>2
<1>7. ASSUME req.durations # {} PROVE agree /\ \A i \in req.durations : there[i]
  <2> DEFINE status == IF \E i \in req.durations : ~HasDuration(i) THEN "UNKNOWN"
                       ELSE PassOrFail(agree)
  <2>1. Check(0, "duration_consistent", status) \in CrossChecks
    BY <1>7 DEF CrossChecks
  <2>2. status \in {"PASS", "WARN"}
    BY <2>1, <1>1, <1>2, <1>6, <1>7
  <2>3. agree /\ \A i \in req.durations : HasDuration(i)
    BY <2>2 DEF PassOrFail
  <2>4. None # TRUE
    BY NoneAssumption
  <2>5. \A i \in Assets : HasDuration(i) => there[i]
    BY <2>4 DEF HasDuration, Present, AbsentInv, Streams
  <2> QED BY <2>3, <2>5, RequestSound DEF TypeInv
<1>8. ASSUME NEW d \in req.dependencies, there[d[1]] PROVE there[d[2]]
  <2>1. Check(d[1], "dependency_satisfied", PassOrFail(there[d[2]])) \in CrossChecks
    BY <1>8 DEF CrossChecks
  <2>2. PassOrFail(there[d[2]]) \in {"PASS", "WARN"}
    BY <2>1, <1>1, <1>2, <1>6, <1>8
  <2> QED BY <2>2 DEF PassOrFail
<1> QED BY <1>5, <1>7, <1>8
----------------------------------------------------------------------------
(* The invariant is inductive. *)

LEMMA PassesAre ==
    Passes = {"stat", "reference", "probe", "decode", "temporal", "text", "compare",
              "analyse", "parse"}
<1>1. /\ Order[1] = "stat" /\ Order[2] = "reference" /\ Order[3] = "probe"
      /\ Order[4] = "decode" /\ Order[5] = "temporal" /\ Order[6] = "text"
      /\ Order[7] = "compare" /\ Order[8] = "analyse" /\ Order[9] = "parse"
  BY DEF Order
<1>2. DOMAIN Order = 1..9
  BY DEF Order
<1>3. \A k \in 1..9 : k = 1 \/ k = 2 \/ k = 3 \/ k = 4 \/ k = 5 \/ k = 6 \/ k = 7 \/ k = 8 \/ k = 9
  OBVIOUS
<1>4. 1 \in 1..9 /\ 2 \in 1..9 /\ 3 \in 1..9 /\ 4 \in 1..9 /\ 5 \in 1..9 /\ 6 \in 1..9
      /\ 7 \in 1..9 /\ 8 \in 1..9 /\ 9 \in 1..9
  OBVIOUS
<1> HIDE DEF Order
<1>5. ASSUME NEW x \in Passes
      PROVE  x \in {"stat", "reference", "probe", "decode", "temporal", "text", "compare",
                    "analyse", "parse"}
  BY <1>1, <1>2, <1>3 DEF Passes
<1>6. ASSUME NEW x \in {"stat", "reference", "probe", "decode", "temporal", "text", "compare",
                        "analyse", "parse"}
      PROVE  x \in Passes
  BY <1>1, <1>2, <1>4 DEF Passes
<1> QED BY <1>5, <1>6

\* The passes an asset starts with are enough to look at all there is in it.
LEMMA FirstPassesSound ==
    ASSUME req \in Requests, NEW i \in Assets
    PROVE  /\ FirstPasses(req, i) \subseteq Passes
           /\ req.kind = "delivery_package" =>
                 FirstPasses(req, i) = {"stat"} /\ req.assets[i].type # "delivery"
           /\ req.kind # "delivery_package" =>
                 /\ req.assets[i].type \in Measurable => "probe" \in FirstPasses(req, i)
                 /\ req.assets[i].type = "subtitle" =>
                       "parse" \in FirstPasses(req, i) /\ "probe" \notin FirstPasses(req, i)
<1>1. /\ req.kind = "delivery_package" => req.assets[i].type \in ArtifactTypes
      /\ req.kind # "delivery_package" => req.assets[i].type = req.kind
  BY RequestSound
<1>2. \A t : Looking(t) \subseteq {"probe", "parse"}
  BY DEF Looking
<1>3. FirstPasses(req, i) \subseteq Passes
  BY <1>2, PassesAre DEF FirstPasses
<1>4. CASE req.kind = "delivery_package"
  BY <1>1, <1>3, <1>4 DEF FirstPasses, ArtifactTypes, Streams
<1>5. CASE req.kind # "delivery_package"
  <2>1. ASSUME req.assets[i].type \in Measurable PROVE "probe" \in FirstPasses(req, i)
    BY <1>5, <2>1 DEF FirstPasses, Looking, Measurable
  <2>2. ASSUME req.assets[i].type = "subtitle"
        PROVE  "parse" \in FirstPasses(req, i) /\ "probe" \notin FirstPasses(req, i)
    BY <1>1, <1>5, <2>2 DEF FirstPasses, Looking
  <2> QED BY <1>3, <1>5, <2>1, <2>2
<1> QED BY <1>4, <1>5

LEMMA InitInv == Init => IInv
<1> SUFFICES ASSUME Init PROVE IInv
  OBVIOUS
<1>1. req \in Requests
  BY DEF Init
<1>2. Len(req.assets) \in Nat /\ Assets = 1..Len(req.assets) /\ at = 1
  BY <1>1, RequestSound DEF Init
<1>3. at \in Assets => left = FirstPasses(req, at)
  BY <1>2 DEF Init
<1>4. TypeInv
  <2>1. left \subseteq Passes
    BY <1>1, <1>3, <1>2, FirstPassesSound DEF Init
  <2>2. facts \in [Assets -> [Checks -> Values \ {"cut"}]]
    BY NoneAssumption DEF Init, Values
  <2>3. stream \in [Assets -> [Streams -> BOOLEAN \cup {None}]]
        /\ lacks \in [Assets -> SUBSET {"duration", "frame_rate", "resolution"}]
        /\ \A r \in report : r.status \in Status
    BY DEF Init
  <2> QED BY <1>1, <1>2, <2>1, <2>2, <2>3 DEF Init, TypeInv
<1>5. AbsentInv
  <2>1. ASSUME at \in Assets, ~there[at] PROVE left \subseteq {"stat"}
    BY <1>1, <1>3, <2>1, FirstPassesSound DEF Init
  <2>2. /\ \A i \in Assets : has[i] # {} => there[i]
        /\ \A i \in Assets : \A s \in Streams : stream[i][s] = None
        /\ \A i \in Assets : there[i] \/ req.kind = "delivery_package"
    BY DEF Init
  <2>3. None # TRUE
    BY NoneAssumption
  <2> QED BY <2>1, <2>2, <2>3 DEF AbsentInv
<1>6. DoneInv
  <2>1. \A i \in Assets : ~(i < at)
    BY <1>2
  <2>2. at \in Assets => left = FirstPasses(req, at)
    BY <1>3
  <2> QED BY <1>1, <2>1, <2>2, FirstPassesSound DEF DoneInv, Measurable
<1>7. GroupInv
  BY NoneAssumption DEF Init, GroupInv, Checks, Streams, VideoChecks, AudioChecks, Measures
<1>8. VerdictIsBacked
  BY DEF Init, VerdictIsBacked, NothingBehind
<1> QED BY <1>4, <1>5, <1>6, <1>7, <1>8 DEF IInv

\* A pass disturbs only what it measures.
LEMMA GroupKept ==
    ASSUME TypeInv, GroupInv, at \in Assets, UNCHANGED <<req, at>>,
           \A i \in Assets \ {at} : facts'[i] = facts[i] /\ stream'[i] = stream[i],
           NEW p \in DOMAIN Measures,
           \A c \in Checks :
              IF c \in Measures[p] /\ Applies(at, c)
              THEN p = "probe" \/ facts'[at][c] \in Findings(c)
              ELSE facts'[at][c] = facts[at][c],
           stream'[at]["subtitle"] = TRUE => p = "parse" \/ stream[at]["subtitle"] = TRUE
    PROVE  GroupInv'
<1> DEFINE Of(i) ==
        /\ facts[i]["video.decodes"] # None =>
              \A c \in Measures.decode : Applies(i, c) => facts[i][c] # None
        /\ facts[i]["audio.decodes"] # None =>
              (Applies(i, "audio.silence") => facts[i]["audio.silence"] # None)
        /\ stream[i]["subtitle"] = TRUE =>
              \A c \in Measures.parse \cap Defaulted : Applies(i, c) => facts[i][c] # None
<1>1. \A i \in Assets : Of(i)
  BY DEF GroupInv
<1>2. \A i, c : Applies(i, c)' <=> Applies(i, c)
  BY DEF Applies
<1>3. ASSUME NEW i \in Assets \ {at} PROVE Of(i)'
  BY <1>1, <1>2
<1>4. DOMAIN Measures = {"stat", "probe", "decode", "temporal", "text", "compare",
                         "analyse", "parse"}
  BY DEF Measures
<1>5. \A c \in {"video.decodes", "audio.decodes", "audio.silence"} \cup Measures.decode
              \cup Measures.parse : c \in Checks
  BY DEF Measures, Checks, VideoChecks, AudioChecks, SubtitleChecks
<1>6. Of(at)'
  <2>1. ASSUME facts'[at]["video.decodes"] # None, NEW c \in Measures.decode, Applies(at, c)
        PROVE  facts'[at][c] # None
    <3>1. CASE p = "decode"
      <4>1. facts'[at][c] \in Findings(c)
        BY <1>5, <2>1, <3>1
      <4>2. c \in Defaulted \cup {"video.decodes", "audio.decodes"}
        BY DEF Measures, Defaulted
      <4> QED BY <4>1, <4>2, <1>5, FindingsSound
    <3>2. CASE p # "decode"
      <4>1. c \notin Measures[p] /\ "video.decodes" \notin Measures[p]
        BY <1>4, <3>2 DEF Measures
      <4>2. facts'[at][c] = facts[at][c] /\ facts'[at]["video.decodes"] = facts[at]["video.decodes"]
        BY <1>5, <4>1
      <4> QED BY <1>1, <2>1, <4>2
    <3> QED BY <3>1, <3>2
  <2>2. ASSUME facts'[at]["audio.decodes"] # None, Applies(at, "audio.silence")
        PROVE  facts'[at]["audio.silence"] # None
    <3>1. CASE p = "analyse"
      <4>1. "audio.silence" \in Measures[p] /\ "audio.silence" \in Defaulted
        BY <3>1 DEF Measures, Defaulted
      <4>2. facts'[at]["audio.silence"] \in Findings("audio.silence")
        BY <1>5, <2>2, <3>1, <4>1
      <4> QED BY <4>1, <4>2, <1>5, FindingsSound
    <3>2. CASE p # "analyse"
      <4>1. "audio.silence" \notin Measures[p] /\ "audio.decodes" \notin Measures[p]
        BY <1>4, <3>2 DEF Measures
      <4>2. /\ facts'[at]["audio.silence"] = facts[at]["audio.silence"]
            /\ facts'[at]["audio.decodes"] = facts[at]["audio.decodes"]
        BY <1>5, <4>1
      <4> QED BY <1>1, <2>2, <4>2
    <3> QED BY <3>1, <3>2
  <2>3. ASSUME stream'[at]["subtitle"] = TRUE, NEW c \in Measures.parse \cap Defaulted,
               Applies(at, c)
        PROVE  facts'[at][c] # None
    <3>1. CASE p = "parse"
      <4>1. facts'[at][c] \in Findings(c)
        BY <1>5, <2>3, <3>1
      <4> QED BY <4>1, <1>5, FindingsSound
    <3>2. CASE p # "parse"
      <4>1. c \notin Measures[p]
        BY <1>4, <3>2 DEF Measures
      <4>2. facts'[at][c] = facts[at][c]
        BY <1>5, <4>1
      <4> QED BY <1>1, <2>3, <3>2, <4>2
    <3> QED BY <3>1, <3>2
  <2> QED BY <1>2, <2>1, <2>2, <2>3
<1>7. Assets' = Assets
  BY DEF Assets
<1> QED BY <1>3, <1>6, <1>7 DEF GroupInv

\* The passes that look into a stream once the probe has seen it.
LEMMA PassKept ==
    ASSUME IInv, NEW p \in {"decode", "temporal", "text", "compare", "analyse"},
           Measuring(p), Record(p, Findings, {}),
           UNCHANGED <<world, at, stream, lacks, outcome, report>>
    PROVE  IInv'
<1>1. at \in Assets /\ outcome = "running" /\ p \in left
  BY DEF Measuring
<1>2. p \in DOMAIN Measures
  BY DEF Measures
<1>3. /\ facts' \in [Assets -> [Checks -> Values \ {"cut"}]]
      /\ \A i \in Assets \ {at} : facts'[i] = facts[i]
      /\ \A c \in Checks :
            IF c \in Measures[p] /\ Applies(at, c)
            THEN facts'[at][c] \in Findings(c)
            ELSE facts'[at][c] = facts[at][c]
      /\ left' = (left \ {p}) \cup {}
  <2>1. TypeInv
    BY DEF IInv
  <2>2. Record(p, Findings, {})
    OBVIOUS
  <2> QED BY <1>1, <1>2, <2>1, <2>2, RecordFindings
<1>4. UNCHANGED <<req, has, there, agree, tools, at, stream, lacks, outcome, report>>
  BY DEF world
<1>5. Assets' = Assets
  BY <1>4 DEF Assets
<1>6. TypeInv'
  BY <1>3, <1>4, <1>5 DEF IInv, TypeInv
<1>7. AbsentInv'
  BY <1>3, <1>4, <1>5 DEF IInv, AbsentInv
<1>8. DoneInv'
  <2>1. /\ \A i : ProbeSeen(i)' <=> ProbeSeen(i)
        /\ \A i : SubtitleSeen(i)' <=> SubtitleSeen(i)
    BY <1>4 DEF ProbeSeen, SubtitleSeen
  <2>2. \A q \in {"stat", "probe", "parse"} : q \in left' <=> q \in left
    BY <1>3
  <2> QED BY <1>4, <1>5, <2>1, <2>2 DEF IInv, DoneInv
<1>9. GroupInv'
  BY <1>1, <1>2, <1>3, <1>4, GroupKept DEF IInv
<1>10. VerdictIsBacked'
  BY <1>1, <1>4 DEF VerdictIsBacked, NothingBehind
<1> QED BY <1>6, <1>7, <1>8, <1>9, <1>10 DEF IInv

LEMMA StatKept == IInv /\ Stat => IInv'
<1> SUFFICES ASSUME IInv, Stat PROVE IInv'
  OBVIOUS
<1> DEFINE more == IF req.kind = "delivery_package" THEN Looking(Current.type) ELSE {}
<1>1. at \in Assets /\ outcome = "running" /\ "stat" \in left
  BY DEF Stat, Measuring
<1>2. UNCHANGED <<req, has, there, agree, tools, at, stream, lacks, outcome, report>>
  BY DEF Stat, world
<1>3. Assets' = Assets
  BY <1>2 DEF Assets
<1>4. /\ \A i : ProbeSeen(i)' <=> ProbeSeen(i)
      /\ \A i : SubtitleSeen(i)' <=> SubtitleSeen(i)
  BY <1>2 DEF ProbeSeen, SubtitleSeen
<1>5. VerdictIsBacked'
  BY <1>1, <1>2 DEF VerdictIsBacked, NothingBehind
<1>6. CASE there[at]
  <2>1. Record("stat", Findings, more)
    BY <1>6 DEF Stat
  <2>2. "stat" \in DOMAIN Measures
    BY DEF Measures
  <2>3. /\ facts' \in [Assets -> [Checks -> Values \ {"cut"}]]
        /\ \A i \in Assets \ {at} : facts'[i] = facts[i]
        /\ \A c \in Checks :
              IF c \in Measures["stat"] /\ Applies(at, c)
              THEN facts'[at][c] \in Findings(c)
              ELSE facts'[at][c] = facts[at][c]
        /\ left' = (left \ {"stat"}) \cup more
    BY <1>1, <2>1, <2>2, RecordFindings DEF IInv
  <2>4. more \subseteq {"probe", "parse"}
    BY DEF Looking
  <2>5. TypeInv'
    BY <1>2, <1>3, <2>3, <2>4, PassesAre DEF IInv, TypeInv
  <2>6. AbsentInv'
    BY <1>2, <1>3, <1>6 DEF IInv, AbsentInv
  <2>7. DoneInv'
    <3> DEFINE type == req.assets[at].type
    <3>1. \A q \in {"probe", "parse"} : q \in left => q \in left'
      BY <2>3
    <3>2. req.kind = "delivery_package" =>
             /\ type \in Measurable => "probe" \in left'
             /\ type = "subtitle" => "parse" \in left'
      BY <2>3 DEF Looking, Current, Measurable
    <3>3. type = "subtitle" /\ "probe" \notin left => "probe" \notin left'
      BY <2>3 DEF Looking, Current
    <3> HIDE DEF more
    <3> QED BY <1>1, <1>2, <1>3, <1>4, <1>6, <3>1, <3>2, <3>3 DEF IInv, DoneInv
  <2>8. GroupInv'
    BY <1>1, <1>2, <2>2, <2>3, GroupKept DEF IInv
  <2> QED BY <1>5, <2>5, <2>6, <2>7, <2>8 DEF IInv
<1>7. CASE ~there[at]
  <2>1. left' = left \ {"stat"} /\ facts' = facts
    BY <1>7 DEF Stat, Skip
  <2>2. TypeInv'
    BY <1>2, <1>3, <2>1 DEF IInv, TypeInv
  <2>3. AbsentInv'
    BY <1>2, <1>3, <2>1 DEF IInv, AbsentInv
  <2>4. DoneInv'
    BY <1>2, <1>3, <1>4, <1>7 DEF IInv, DoneInv
  <2>5. GroupInv'
    BY <1>2, <1>3, <2>1 DEF IInv, GroupInv, Applies
  <2> QED BY <1>5, <2>2, <2>3, <2>4, <2>5 DEF IInv
<1> QED BY <1>6, <1>7

\* A pass other than stat is taken on a file that is there.
LEMMA MeasuredIsThere ==
    ASSUME AbsentInv, NEW p, Measuring(p), p # "stat"
    PROVE  at \in Assets /\ there[at] /\ p \in left /\ outcome = "running"
BY DEF AbsentInv, Measuring

LEMMA ReferenceKept == IInv /\ Reference => IInv'
<1> SUFFICES ASSUME IInv, Reference PROVE IInv'
  OBVIOUS
<1>1. at \in Assets /\ outcome = "running"
  BY DEF Reference, Measuring
<1>2. /\ UNCHANGED <<req, has, there, agree, tools, at, stream, facts, outcome, report>>
      /\ left' = left \ {"reference"}
  BY DEF Reference, Skip, world
<1>3. PICK l \in SUBSET {"duration"} : lacks' = [lacks EXCEPT ![at] = l]
  BY DEF Reference
<1>4. Assets' = Assets
  BY <1>2 DEF Assets
<1>5. TypeInv'
  BY <1>1, <1>2, <1>3, <1>4 DEF IInv, TypeInv
<1>6. AbsentInv'
  BY <1>2, <1>4 DEF IInv, AbsentInv
<1>7. DoneInv'
  <2>1. /\ \A i : ProbeSeen(i)' <=> ProbeSeen(i)
        /\ \A i : SubtitleSeen(i)' <=> SubtitleSeen(i)
    BY <1>2 DEF ProbeSeen, SubtitleSeen
  <2>2. \A q \in {"stat", "probe", "parse"} : q \in left' <=> q \in left
    BY <1>2
  <2> QED BY <1>2, <1>4, <2>1, <2>2 DEF IInv, DoneInv
<1>8. GroupInv'
  BY <1>2, <1>4 DEF IInv, GroupInv, Applies
<1>9. VerdictIsBacked'
  BY <1>1, <1>2 DEF VerdictIsBacked, NothingBehind
<1> QED BY <1>5, <1>6, <1>7, <1>8, <1>9 DEF IInv

LEMMA ProbeKept == IInv /\ Probe => IInv'
<1> SUFFICES ASSUME IInv, Probe PROVE IInv'
  OBVIOUS
<1> DEFINE type == req.assets[at].type
           more == VideoPasses \cup AudioPasses
                   \cup (IF type = "delivery" THEN {"parse"} ELSE {})
           D == {c \in Measures["probe"] : Applies(at, c)}
<1>1. at \in Assets /\ there[at] /\ "probe" \in left /\ outcome = "running"
  BY MeasuredIsThere DEF IInv, Probe
<1>2. UNCHANGED <<req, has, there, agree, tools, at, outcome, report>>
  BY DEF Probe, world
<1>3. Assets' = Assets
  BY <1>2 DEF Assets
<1>4. PICK l \in SUBSET {"duration", "frame_rate", "resolution"} :
         lacks' = [lacks EXCEPT ![at] = l]
  BY DEF Probe
<1>5. stream' = [stream EXCEPT ![at] =
                    [s \in Streams |->
                        IF s # "subtitle" /\ s \in LookedFor(type) THEN s \in has[at] ELSE None]]
  BY DEF Probe, Current
<1>6. /\ \A i \in Assets \ {at} : stream'[i] = stream[i]
      /\ stream'[at] = [s \in Streams |->
            IF s # "subtitle" /\ s \in LookedFor(type) THEN s \in has[at] ELSE None]
  BY <1>1, <1>5 DEF IInv, TypeInv
<1>7. Record("probe", Missable, more)
  BY DEF Probe, Current
<1>8. PICK f \in [D -> Values] :
         /\ \A c \in D : f[c] \in Missable(c)
         /\ facts' = [facts EXCEPT ![at] =
                         [c \in Checks |-> IF c \in D THEN f[c] ELSE facts[at][c]]]
  BY <1>7 DEF Record
<1>9. /\ \A i \in Assets \ {at} : facts'[i] = facts[i]
      /\ facts'[at] = [c \in Checks |-> IF c \in D THEN f[c] ELSE facts[at][c]]
  BY <1>1, <1>8 DEF IInv, TypeInv
<1>10. left' = (left \ {"probe"}) \cup more
  BY <1>7 DEF Record
<1>11. \A c : Missable(c) \subseteq Values \ {"cut"}
  BY NoneAssumption DEF Missable, Values
<1>12. more \subseteq {"decode", "temporal", "text", "compare", "analyse", "parse"}
  BY DEF VideoPasses, AudioPasses
<1>13. TypeInv'
  <2>1. facts' \in [Assets -> [Checks -> Values \ {"cut"}]]
    <3>1. \A c \in Checks : facts'[at][c] \in Values \ {"cut"}
      BY <1>1, <1>8, <1>9, <1>11 DEF IInv, TypeInv
    <3> HIDE DEF D
    <3> QED BY <1>8, <1>9, <3>1 DEF IInv, TypeInv
  <2>2. left' \subseteq Passes
    <3> HIDE DEF more
    <3> QED BY <1>10, <1>12, PassesAre DEF IInv, TypeInv
  <2>3. stream' \in [Assets -> [Streams -> BOOLEAN \cup {None}]]
    <3>1. \A s \in Streams : stream'[at][s] \in BOOLEAN \cup {None}
      BY <1>6
    <3>2. stream'[at] \in [Streams -> BOOLEAN \cup {None}]
      BY <1>6, <3>1
    <3> QED BY <1>5, <1>6, <3>2 DEF IInv, TypeInv
  <2>4. lacks' \in [Assets -> SUBSET {"duration", "frame_rate", "resolution"}]
    BY <1>4 DEF IInv, TypeInv
  <2> QED BY <1>2, <1>3, <2>1, <2>2, <2>3, <2>4 DEF IInv, TypeInv
<1>14. AbsentInv'
  <2>1. None # TRUE
    BY NoneAssumption
  <2>2. \A s \in Streams : stream'[at][s] = TRUE => s \in has[at]
    BY <1>6, <2>1
  <2> QED BY <1>1, <1>2, <1>3, <1>6, <2>2 DEF IInv, AbsentInv
<1>15. DoneInv'
  <2>1. \A i \in Assets \ {at} : /\ ProbeSeen(i)' <=> ProbeSeen(i)
                                 /\ SubtitleSeen(i)' <=> SubtitleSeen(i)
    BY <1>2, <1>6 DEF ProbeSeen, SubtitleSeen
  <2>2. ProbeSeen(at)'
    BY <1>1, <1>2, <1>6 DEF ProbeSeen, LookedFor, Streams
  <2>3. type # "subtitle"
    BY <1>1 DEF IInv, DoneInv
  <2>4. type = "delivery" => "parse" \in left'
    BY <1>10
  <2>5. at \in Nat
    BY RequestSound DEF IInv, TypeInv
  <2>6. \A i \in Assets : i < at => i # at
    BY <2>5, RequestSound DEF IInv, TypeInv
  <2> QED BY <1>1, <1>2, <1>3, <2>1, <2>2, <2>3, <2>4, <2>6 DEF IInv, DoneInv
<1>16. GroupInv'
  <2>1. "probe" \in DOMAIN Measures
    BY DEF Measures
  <2>2. \A c \in Checks : ~(c \in Measures["probe"] /\ Applies(at, c)) =>
           facts'[at][c] = facts[at][c]
    BY <1>9
  <2>3. stream'[at]["subtitle"] # TRUE
    BY <1>6, NoneAssumption DEF Streams
  <2>4. UNCHANGED <<req, at>>
    BY <1>2
  <2>5. TypeInv /\ GroupInv
    BY DEF IInv
  <2>6. \A i \in Assets \ {at} : facts'[i] = facts[i] /\ stream'[i] = stream[i]
    BY <1>6, <1>9
  <2> QED BY <1>1, <2>1, <2>2, <2>3, <2>4, <2>5, <2>6, GroupKept
<1>17. VerdictIsBacked'
  BY <1>1, <1>2 DEF VerdictIsBacked, NothingBehind
<1> QED BY <1>13, <1>14, <1>15, <1>16, <1>17 DEF IInv

LEMMA ParseKept == IInv /\ Parse => IInv'
<1> SUFFICES ASSUME IInv, Parse PROVE IInv'
  OBVIOUS
<1>1. at \in Assets /\ there[at] /\ "parse" \in left /\ outcome = "running"
  BY MeasuredIsThere DEF IInv, Parse
<1>2. UNCHANGED <<req, has, there, agree, tools, at, lacks, outcome, report>>
  BY DEF Parse, world
<1>3. Assets' = Assets
  BY <1>2 DEF Assets
<1>4. /\ \A i \in Assets \ {at} : stream'[i] = stream[i]
      /\ stream'[at]["subtitle"] = ("subtitle" \in has[at])
      /\ \A s \in Streams \ {"subtitle"} : stream'[at][s] = stream[at][s]
      /\ stream' \in [Assets -> [Streams -> BOOLEAN \cup {None}]]
  BY <1>1 DEF Parse, IInv, TypeInv, Streams
<1>5. /\ facts' \in [Assets -> [Checks -> Values \ {"cut"}]]
      /\ \A i \in Assets \ {at} : facts'[i] = facts[i]
      /\ \A c \in Checks :
            IF c \in Measures["parse"] /\ Applies(at, c)
            THEN facts'[at][c] \in Findings(c) \/ (facts' = facts /\ "subtitle" \notin has[at])
            ELSE facts'[at][c] = facts[at][c]
      /\ left' = (left \ {"parse"}) \cup {}
  <2>1. CASE "subtitle" \in has[at]
    <3>1. Record("parse", Findings, {})
      BY <2>1 DEF Parse
    <3>2. "parse" \in DOMAIN Measures
      BY DEF Measures
    <3>3. TypeInv
      BY DEF IInv
    <3>4. /\ facts' \in [Assets -> [Checks -> Values \ {"cut"}]]
          /\ \A i \in Assets \ {at} : facts'[i] = facts[i]
          /\ \A c \in Checks :
                IF c \in Measures["parse"] /\ Applies(at, c)
                THEN facts'[at][c] \in Findings(c)
                ELSE facts'[at][c] = facts[at][c]
          /\ left' = (left \ {"parse"}) \cup {}
      BY <1>1, <3>1, <3>2, <3>3, RecordFindings
    <3> QED BY <3>4
  <2>2. CASE "subtitle" \notin has[at]
    <3>1. facts' = facts /\ left' = left \ {"parse"}
      BY <2>2 DEF Parse, Skip
    <3> QED BY <2>2, <3>1 DEF IInv, TypeInv
  <2> QED BY <2>1, <2>2
<1>6. TypeInv'
  BY <1>2, <1>3, <1>4, <1>5 DEF IInv, TypeInv
<1>7. AbsentInv'
  <2>1. \A s \in Streams : stream'[at][s] = TRUE => s \in has[at]
    BY <1>1, <1>4 DEF IInv, AbsentInv
  <2> QED BY <1>1, <1>2, <1>3, <1>4, <2>1 DEF IInv, AbsentInv
<1>8. DoneInv'
  <2>1. \A i \in Assets \ {at} : /\ ProbeSeen(i)' <=> ProbeSeen(i)
                                 /\ SubtitleSeen(i)' <=> SubtitleSeen(i)
    BY <1>2, <1>4 DEF ProbeSeen, SubtitleSeen
  <2>2. ProbeSeen(at)' <=> ProbeSeen(at)
    BY <1>2, <1>4 DEF ProbeSeen, LookedFor, Streams
  <2>3. SubtitleSeen(at)'
    BY <1>2, <1>4 DEF SubtitleSeen
  <2>4. \A q \in {"stat", "probe"} : q \in left' <=> q \in left
    BY <1>5
  <2>5. \A i \in Assets : i < at => i # at
    BY RequestSound DEF IInv, TypeInv
  <2> QED BY <1>1, <1>2, <1>3, <2>1, <2>2, <2>3, <2>4, <2>5 DEF IInv, DoneInv
<1>9. GroupInv'
  <2>1. CASE "subtitle" \in has[at]
    <3>1. "parse" \in DOMAIN Measures /\ UNCHANGED <<req, at>> /\ TypeInv /\ GroupInv
      BY <1>2 DEF Measures, IInv
    <3>2. \A c \in Checks :
             IF c \in Measures["parse"] /\ Applies(at, c)
             THEN facts'[at][c] \in Findings(c)
             ELSE facts'[at][c] = facts[at][c]
      BY <1>5, <2>1
    <3> QED BY <1>1, <1>4, <1>5, <3>1, <3>2, GroupKept
  <2>2. CASE "subtitle" \notin has[at]
    <3>1. facts' = facts
      BY <2>2 DEF Parse, Skip
    <3>2. \A i \in Assets : stream'[i]["subtitle"] = TRUE => stream[i]["subtitle"] = TRUE
      BY <1>4, <2>2
    <3> QED BY <1>2, <1>3, <3>1, <3>2 DEF IInv, GroupInv, Applies
  <2> QED BY <2>1, <2>2
<1>10. VerdictIsBacked'
  BY <1>1, <1>2 DEF VerdictIsBacked, NothingBehind
<1> QED BY <1>6, <1>7, <1>8, <1>9, <1>10 DEF IInv

LEMMA FailKept == IInv /\ Fail => IInv'
<1> SUFFICES ASSUME IInv, Fail PROVE IInv'
  OBVIOUS
<1>1. /\ UNCHANGED <<req, has, there, agree, tools, at, left, stream, lacks, facts, report>>
      /\ outcome' = "error"
  BY DEF Fail, world
<1>2. Assets' = Assets
  BY <1>1 DEF Assets
<1>3. TypeInv'
  BY <1>1, <1>2 DEF IInv, TypeInv
<1>4. AbsentInv'
  BY <1>1, <1>2 DEF IInv, AbsentInv
<1>5. DoneInv'
  BY <1>1, <1>2 DEF IInv, DoneInv, ProbeSeen, SubtitleSeen
<1>6. GroupInv'
  BY <1>1, <1>2 DEF IInv, GroupInv, Applies
<1>7. VerdictIsBacked'
  BY <1>1 DEF VerdictIsBacked, NothingBehind
<1> QED BY <1>3, <1>4, <1>5, <1>6, <1>7 DEF IInv

LEMMA NextAssetKept == IInv /\ NextAsset => IInv'
<1> SUFFICES ASSUME IInv, NextAsset PROVE IInv'
  OBVIOUS
<1>1. /\ UNCHANGED <<req, has, there, agree, tools, stream, lacks, facts, outcome, report>>
      /\ outcome = "running" /\ at \in Assets /\ left = {}
      /\ at' = at + 1
      /\ at + 1 \in Assets => left' = FirstPasses(req, at + 1)
      /\ at + 1 \notin Assets => left' = {}
  BY DEF NextAsset, world
<1>2. Assets' = Assets
  BY <1>1 DEF Assets
<1>3. req \in Requests /\ Len(req.assets) \in Nat /\ Assets = 1..Len(req.assets)
  BY RequestSound DEF IInv, TypeInv
<1>4. /\ \A i : ProbeSeen(i)' <=> ProbeSeen(i)
      /\ \A i : SubtitleSeen(i)' <=> SubtitleSeen(i)
  BY <1>1 DEF ProbeSeen, SubtitleSeen
<1>5. TypeInv'
  <2>1. at' \in 1..Len(req.assets) + 1
    BY <1>1, <1>3
  <2>2. left' \subseteq Passes
    BY <1>1, <1>3, FirstPassesSound
  <2> QED BY <1>1, <1>2, <2>1, <2>2 DEF IInv, TypeInv
<1>6. \A i \in Assets : ~there[i] => req.kind = "delivery_package"
  BY DEF IInv, AbsentInv
<1>7. AbsentInv'
  <2>1. ASSUME at + 1 \in Assets, ~there[at + 1] PROVE left' \subseteq {"stat"}
    BY <1>1, <1>3, <1>6, <2>1, FirstPassesSound
  <2> QED BY <1>1, <1>2, <2>1 DEF IInv, AbsentInv
<1>8. DoneInv'
  <2>1. ASSUME NEW i \in Assets, i < at + 1, there[i]
        PROVE  /\ req.assets[i].type \in Measurable => ProbeSeen(i)
               /\ req.assets[i].type \in {"subtitle", "delivery"} => SubtitleSeen(i)
    <3>1. i < at \/ i = at
      BY <1>1, <1>3, <2>1
    <3>2. CASE i < at
      BY <2>1, <3>2 DEF IInv, DoneInv
    <3>3. CASE i = at
      BY <1>1, <2>1, <3>3 DEF IInv, DoneInv
    <3> QED BY <3>1, <3>2, <3>3
  <2>2. ASSUME at + 1 \in Assets
        PROVE  /\ req.kind = "delivery_package" => "stat" \in left' /\ req.assets[at + 1].type # "delivery"
                                                  /\ "probe" \notin left'
               /\ req.kind # "delivery_package" =>
                     /\ req.assets[at + 1].type \in Measurable => "probe" \in left'
                     /\ req.assets[at + 1].type = "subtitle" => "parse" \in left' /\ "probe" \notin left'
    BY <1>1, <1>3, <2>2, FirstPassesSound
  <2> QED BY <1>1, <1>2, <1>4, <2>1, <2>2 DEF DoneInv, Measurable
<1>9. GroupInv'
  BY <1>1, <1>2 DEF IInv, GroupInv, Applies
<1>10. VerdictIsBacked'
  BY <1>1 DEF VerdictIsBacked, NothingBehind
<1> QED BY <1>5, <1>7, <1>8, <1>9, <1>10 DEF IInv

LEMMA EvaluateKept == IInv /\ Evaluate => IInv'
<1> SUFFICES ASSUME IInv, Evaluate PROVE IInv'
  OBVIOUS
<1>1. /\ UNCHANGED <<req, has, there, agree, tools, at, left, stream, lacks, facts>>
      /\ at \notin Assets /\ outcome' = "done"
      /\ report' = IF req.inspect THEN {} ELSE AllChecks
  BY DEF Evaluate, world
<1>2. Assets' = Assets
  BY <1>1 DEF Assets
<1>3. TypeInv'
  <2>1. \A r \in report' : r.status \in Status
    BY <1>1, StatusOfChecks DEF IInv
  <2> QED BY <1>1, <1>2, <2>1 DEF IInv, TypeInv
<1>4. AbsentInv'
  BY <1>1, <1>2 DEF IInv, AbsentInv
<1>5. DoneInv'
  <2>1. /\ \A i : ProbeSeen(i)' <=> ProbeSeen(i)
        /\ \A i : SubtitleSeen(i)' <=> SubtitleSeen(i)
    BY <1>1 DEF ProbeSeen, SubtitleSeen
  <2> QED BY <1>1, <1>2, <2>1 DEF IInv, DoneInv
<1>6. GroupInv'
  BY <1>1, <1>2 DEF IInv, GroupInv, Applies
<1>7. Overall' = Aggregate({r.status : r \in report'})
  BY DEF Overall, Aggregate, Rank
<1>8. \A i, c : Concerns(i, c)' <=> Concerns(i, c)
  BY <1>1 DEF Concerns, Applies, Evaluated, LookedFor
<1>9. VerdictIsBacked'
  <2>1. CASE req.inspect
    <3>1. Overall' = "UNKNOWN"
      BY <1>1, <1>7, <2>1 DEF Aggregate
    <3> QED BY <3>1 DEF VerdictIsBacked, NothingBehind
  <2>2. CASE ~req.inspect
    <3>1. Overall' = Aggregate({r.status : r \in AllChecks})
      BY <1>1, <1>7, <2>2
    <3>2. ASSUME Overall' \in {"PASS", "WARN"}
          PROVE  /\ \A i \in Assets, c \in Checks : Concerns(i, c) =>
                       \/ facts[i][c] = "fine"
                       \/ facts[i][c] = "bad" /\ c \in Warned /\ Overall' = "WARN"
                       \/ facts[i][c] = "open" /\ c \in Overlooked
                 /\ req.durations # {} => agree /\ \A i \in req.durations : there[i]
                 /\ \A d \in req.dependencies : there[d[1]] => there[d[2]]
      <4>1. TypeInv /\ AbsentInv /\ DoneInv /\ GroupInv /\ at \notin Assets
        BY <1>1 DEF IInv
      <4> DEFINE A == Aggregate({r.status : r \in AllChecks})
      <4>2. A \in {"PASS", "WARN"}
        BY <3>1, <3>2
      <4>3. A = Aggregate({r.status : r \in AllChecks})
        OBVIOUS
      <4>4. A = Overall'
        BY <3>1
      <4> HIDE DEF A
      <4> QED BY <4>1, <4>2, <4>3, <4>4, EvaluateSound
    <3> QED BY <1>1, <1>2, <1>8, <3>2 DEF VerdictIsBacked, NothingBehind
  <2> QED BY <2>1, <2>2
<1> QED BY <1>3, <1>4, <1>5, <1>6, <1>9 DEF IInv

\* IInv holds throughout, if ffmpeg never stops early unnoticed.
LEMMA Inductive ==
    ASSUME MayStop = FALSE
    PROVE  Spec => []IInv
<1>1. IInv /\ [Next]_vars => IInv'
  <2> SUFFICES ASSUME IInv, [Next]_vars PROVE IInv'
    OBVIOUS
  <2>1. CASE Stat
    BY <2>1, StatKept
  <2>2. CASE Reference
    BY <2>2, ReferenceKept
  <2>3. CASE Probe
    BY <2>3, ProbeKept
  <2>4. CASE Decode
    BY <2>4, PassKept DEF Decode, Analyse
  <2>5. CASE Temporal
    BY <2>5, PassKept DEF Temporal, Analyse
  <2>6. CASE Text
    BY <2>6, PassKept DEF Text
  <2>7. CASE Compare
    BY <2>7, PassKept DEF Compare
  <2>8. CASE AnalyseAudio
    BY <2>8, PassKept DEF AnalyseAudio, Analyse
  <2>9. CASE Parse
    BY <2>9, ParseKept
  <2>10. CASE Fail
    BY <2>10, FailKept
  <2>11. CASE NextAsset
    BY <2>11, NextAssetKept
  <2>12. CASE Evaluate
    BY <2>12, EvaluateKept
  <2>13. CASE UNCHANGED vars
    <3>1. UNCHANGED <<req, has, there, agree, tools, at, left, stream, lacks, facts,
                      outcome, report>>
      BY <2>13 DEF vars, world
    <3>2. Assets' = Assets
      BY <3>1 DEF Assets
    <3>3. TypeInv' /\ AbsentInv' /\ GroupInv'
      BY <3>1, <3>2 DEF IInv, TypeInv, AbsentInv, GroupInv, Applies
    <3>4. DoneInv'
      <4>1. /\ \A i : ProbeSeen(i)' <=> ProbeSeen(i)
            /\ \A i : SubtitleSeen(i)' <=> SubtitleSeen(i)
        BY <3>1 DEF ProbeSeen, SubtitleSeen
      <4> QED BY <3>1, <3>2, <4>1 DEF IInv, DoneInv
    <3>5. VerdictIsBacked'
      <4>1. \A i, c : Concerns(i, c)' <=> Concerns(i, c)
        BY <3>1 DEF Concerns, Applies, Evaluated, LookedFor
      <4>2. Overall' = Overall
        BY <3>1 DEF Overall, Aggregate, Rank
      <4> QED BY <3>1, <3>2, <4>1, <4>2 DEF IInv, VerdictIsBacked, NothingBehind
    <3> QED BY <3>3, <3>4, <3>5 DEF IInv
  <2> QED BY <2>1, <2>2, <2>3, <2>4, <2>5, <2>6, <2>7, <2>8, <2>9, <2>10, <2>11, <2>12, <2>13
          DEF Next
<1> QED BY <1>1, InitInv, PTL DEF Spec

\* A report says PASS or WARN only for what was measured and is fine or worth
\* no more than a warning, with the one exception that the code makes of a
\* silence whose end is not known.
THEOREM SoundVerdicts ==
    ASSUME MayStop = FALSE
    PROVE  Spec => []VerdictIsBacked
<1>1. IInv => VerdictIsBacked
  BY DEF IInv
<1> QED BY <1>1, Inductive, PTL

\* Every variable keeps its type, the verdict is one of the four statuses, and
\* no pass but stat is taken on a file that is not there.
THEOREM TypeCorrect ==
    ASSUME MayStop = FALSE
    PROVE  Spec => []TypeOK
<1>1. IInv => TypeOK
  <2> SUFFICES ASSUME IInv PROVE TypeOK
    OBVIOUS
  <2>1. {r.status : r \in report} \in SUBSET Status
    BY DEF IInv, TypeInv
  <2>2. Overall \in Status
    BY <2>1, AggregateSound DEF Overall
  <2>3. facts \in [Assets -> [Checks -> Values]]
    BY DEF IInv, TypeInv
  <2> QED BY <2>2, <2>3 DEF IInv, TypeInv, AbsentInv, TypeOK
<1> QED BY <1>1, Inductive, PTL

----------------------------------------------------------------------------
(* A violation found is a report that fails. *)

\* The checks of a stream that rules are given for are in the report.
LEMMA StreamReported ==
    ASSUME TypeInv, NEW i \in Assets, NEW s \in Evaluated(i), there[i]
    PROVE  StreamChecks(i, s) \subseteq AllChecks
<1>1. StreamChecks(i, s) \subseteq UNION {StreamChecks(i, t) : t \in Evaluated(i)}
  OBVIOUS
<1>2. CASE req.kind = "delivery_package"
  <2>1. req.assets[i].ruled
    BY <1>2, RequestSound DEF TypeInv, Evaluated
  <2>2. StreamChecks(i, s) \subseteq ArtifactChecks(i)
    BY <1>1, <2>1 DEF ArtifactChecks
  <2> QED BY <1>2, <2>2 DEF AllChecks
<1>3. CASE req.kind # "delivery_package"
  BY <1>1, <1>3 DEF AllChecks
<1> QED BY <1>2, <1>3

\* A stream that the rules ask for and that is not there is a FAIL.
LEMMA MissingReported ==
    ASSUME TypeInv, AbsentInv, NEW i \in Assets, NEW s \in Streams, Missing(i, s)
    PROVE  \E r \in AllChecks : r.status = "FAIL"
<1>1. s \in Evaluated(i) /\ s \notin has[i] /\ there[i]
  BY DEF Missing
<1>2. stream[i][s] # TRUE
  BY <1>1 DEF AbsentInv
<1>3. Requirement(i, s) = TRUE
  <2>1. CASE s = "video"
    BY <2>1, NoneAssumption DEF Missing, Requirement
  <2>2. CASE s # "video" /\ req.assets[i].own[s] # None
    BY <2>2 DEF Missing, Requirement
  <2>3. CASE s # "video" /\ req.assets[i].own[s] = None
    BY <2>3 DEF Missing, Requirement
  <2> QED BY <2>1, <2>2, <2>3
<1>4. PassOrFail(FALSE) = "FAIL" /\ TRUE # None
  BY NoneAssumption DEF PassOrFail
<1>5. \A c, st : Check(i, c, st).status = st
  BY DEF Check
<1>6. \E r \in PresenceChecks(i, s) : r.status = "FAIL"
  <2>1. CASE s = "video"
    <3>1. PresenceChecks(i, s) = {Check(i, "video.stream_present", "FAIL")}
      BY <1>2, <1>3, <1>4, <2>1 DEF PresenceChecks, Present, PassOrFail
    <3> QED BY <3>1, <1>5
  <2>2. CASE s = "audio"
    <3>1. PresenceChecks(i, s) = {Check(i, "audio.stream_present", "FAIL")}
      BY <1>2, <1>3, <1>4, <2>2 DEF PresenceChecks, PassOrFail
    <3> QED BY <3>1, <1>5
  <2>3. CASE s = "subtitle"
    <3>1. PresenceChecks(i, s) = {Check(i, "subtitle.presence", "FAIL")}
      BY <1>2, <1>3, <1>4, <2>3 DEF PresenceChecks, Present, PassOrFail
    <3> QED BY <3>1, <1>5
  <2> QED BY <2>1, <2>2, <2>3 DEF Streams
<1>7. PresenceChecks(i, s) \subseteq AllChecks
  BY <1>1, StreamReported DEF StreamChecks
<1> QED BY <1>6, <1>7

\* What ViolationFails says of a report is true of the one Evaluate makes.
LEMMA EvaluateFails ==
    ASSUME TypeInv, AbsentInv, DoneInv, at \notin Assets,
           NEW A, A = Aggregate({r.status : r \in AllChecks})
    PROVE  /\ \A i \in Assets, c \in Checks \ Warned :
                 Concerns(i, c) /\ facts[i][c] = "bad" => A = "FAIL"
           /\ \A i \in Assets :
                 /\ \A s \in Streams : Missing(i, s) => A = "FAIL"
                 /\ /\ req.kind = "delivery_package" /\ ~there[i]
                    /\ req.assets[i].ruled /\ req.assets[i].required
                    => A = "FAIL"
<1>1. ASSUME NEW r \in AllChecks, r.status = "FAIL" PROVE A = "FAIL"
  <2>1. {t.status : t \in AllChecks} \in SUBSET Status
    BY StatusOfChecks
  <2>2. "FAIL" \in {t.status : t \in AllChecks}
    BY <1>1
  <2> DEFINE S == {t.status : t \in AllChecks}
  <2>3. S \in SUBSET Status /\ "FAIL" \in S /\ A = Aggregate(S)
    BY <2>1, <2>2
  <2> HIDE DEF S
  <2> QED BY <2>3, AggregateSound
<1>2. \A i, c, st : Check(i, c, st).status = st
  BY DEF Check
<1>3. ASSUME NEW i \in Assets, NEW c \in Checks \ Warned, Concerns(i, c), facts[i][c] = "bad"
      PROVE  A = "FAIL"
  <2>1. Verdict(c, facts[i][c]) = "FAIL"
    BY <1>3 DEF Verdict
  <2>2. Check(i, c, Verdict(c, facts[i][c])) \in AllChecks
    BY <1>3, ConcernsReported
  <2> QED BY <1>1, <1>2, <2>1, <2>2
<1>4. ASSUME NEW i \in Assets, NEW s \in Streams, Missing(i, s) PROVE A = "FAIL"
  BY <1>1, <1>4, MissingReported
<1>5. ASSUME NEW i \in Assets, req.kind = "delivery_package", ~there[i],
             req.assets[i].ruled, req.assets[i].required
      PROVE  A = "FAIL"
  <2> DEFINE present == Check(i, "artifact_present",
                             PassOrFail(there[i] \/ ~req.assets[i].required))
  <2>1. present.status = "FAIL"
    BY <1>2, <1>5 DEF PassOrFail
  <2>2. present \in ArtifactChecks(i)
    BY <1>5 DEF ArtifactChecks
  <2> HIDE DEF present
  <2>3. present \in AllChecks
    BY <1>5, <2>2 DEF AllChecks
  <2> QED BY <1>1, <2>1, <2>3
<1> QED BY <1>3, <1>4, <1>5

\* A violation found, a stream required that is not there, a required artifact
\* that is missing: the report says FAIL, whatever else is UNKNOWN.
THEOREM ViolationsFail ==
    ASSUME MayStop = FALSE
    PROVE  Spec => []ViolationFails
<1>1. Init => ViolationFails
  BY DEF Init, ViolationFails
<1>2. ASSUME IInv, ViolationFails, [Next]_vars PROVE ViolationFails'
  <2>1. CASE Evaluate
    <3>1. /\ UNCHANGED <<req, has, there, agree, tools, at, left, stream, lacks, facts>>
          /\ at \notin Assets
          /\ report' = IF req.inspect THEN {} ELSE AllChecks
      BY <2>1 DEF Evaluate, world
    <3>2. SUFFICES ASSUME ~req.inspect PROVE ViolationFails'
      BY <3>1 DEF ViolationFails
    <3>3. Overall' = Aggregate({r.status : r \in AllChecks})
      <4>1. Overall' = Aggregate({r.status : r \in report'})
        BY DEF Overall, Aggregate, Rank
      <4> QED BY <3>1, <3>2, <4>1
    <3>4. TypeInv /\ AbsentInv /\ DoneInv
      BY <1>2 DEF IInv
    <3> DEFINE A == Aggregate({r.status : r \in AllChecks})
    <3>5. A = Aggregate({r.status : r \in AllChecks}) /\ Overall' = A
      BY <3>3
    <3> HIDE DEF A
    <3>6. /\ \A i \in Assets, c \in Checks \ Warned :
                Concerns(i, c) /\ facts[i][c] = "bad" => A = "FAIL"
          /\ \A i \in Assets :
                /\ \A s \in Streams : Missing(i, s) => A = "FAIL"
                /\ /\ req.kind = "delivery_package" /\ ~there[i]
                   /\ req.assets[i].ruled /\ req.assets[i].required
                   => A = "FAIL"
      BY <3>1, <3>4, <3>5, EvaluateFails
    <3>7. /\ \A i, c : Concerns(i, c)' <=> Concerns(i, c)
          /\ \A i, s : Missing(i, s)' <=> Missing(i, s)
      BY <3>1 DEF Concerns, Missing, Applies, Evaluated, LookedFor
    <3>8. Assets' = Assets
      BY <3>1 DEF Assets
    <3> QED BY <3>1, <3>5, <3>6, <3>7, <3>8 DEF ViolationFails
  <2>2. CASE UNCHANGED vars
    <3>1. UNCHANGED <<req, has, there, facts, outcome, report>>
      BY <2>2 DEF vars, world
    <3>2. Overall' = Overall /\ Assets' = Assets
      BY <3>1 DEF Overall, Aggregate, Rank, Assets
    <3>3. /\ \A i, c : Concerns(i, c)' <=> Concerns(i, c)
          /\ \A i, s : Missing(i, s)' <=> Missing(i, s)
      BY <3>1 DEF Concerns, Missing, Applies, Evaluated, LookedFor
    <3> QED BY <1>2, <3>1, <3>2, <3>3 DEF ViolationFails
  <2>3. CASE ~Evaluate /\ ~UNCHANGED vars
    <3>1. outcome' # "done"
      <4>1. \A p : Measuring(p) => outcome = "running"
        BY DEF Measuring
      <4>2. CASE Stat
        BY <4>1, <4>2 DEF Stat
      <4>3. CASE Reference
        BY <4>1, <4>3 DEF Reference
      <4>4. CASE Probe
        BY <4>1, <4>4 DEF Probe
      <4>5. CASE Decode \/ Temporal \/ Text \/ Compare \/ AnalyseAudio
        BY <4>1, <4>5 DEF Decode, Temporal, Text, Compare, AnalyseAudio
      <4>6. CASE Parse
        BY <4>1, <4>6 DEF Parse
      <4>7. CASE Fail
        BY <4>7 DEF Fail
      <4>8. CASE NextAsset
        BY <4>8 DEF NextAsset
      <4> QED BY <1>2, <2>3, <4>2, <4>3, <4>4, <4>5, <4>6, <4>7, <4>8 DEF Next
    <3> QED BY <3>1 DEF ViolationFails
  <2> QED BY <2>1, <2>2, <2>3
<1>3. Spec => [](IInv /\ ViolationFails)
  <2>1. IInv /\ ViolationFails /\ [Next]_vars => ViolationFails'
    BY <1>2
  <2> QED BY <1>1, <2>1, Inductive, PTL DEF Spec
<1> QED BY <1>3, PTL
=============================================================================
