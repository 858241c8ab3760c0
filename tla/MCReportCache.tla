--------------------------- MODULE MCReportCache ---------------------------
EXTENDS ReportCache

CONSTANTS p1, k1, k2, m1, m2, r1, r2

MCMetaOf == [k \in Keys |-> IF k = k1 THEN m1 ELSE m2]

\* What an edit may leave, one content of each kind: deleted; cut short; not
\* text; of another format or metadata; the report removed; the hash removed;
\* the report altered under the old hash.
MCEditForms ==
    {None, Truncated, Undecodable}
       \cup {[NewEntry(k1, r1) EXCEPT !.format = "other"],
             [NewEntry(k1, r1) EXCEPT !.meta = m2],
             [NewEntry(k1, r1) EXCEPT !.report = None],
             [NewEntry(k1, r1) EXCEPT !.hash = None],
             [NewEntry(k1, r1) EXCEPT !.report = r2]}

\* The same, and the file of one key copied over that of the other.
MCEditFormsTwoKeys ==
    MCEditForms \cup {NewEntry(k, r) : k \in Keys, r \in Reports}

\* One content per branch of get: those of its branches race with a set.
MCEditFormsRaces ==
    {None, Truncated, Undecodable, [NewEntry(k1, r1) EXCEPT !.report = r2]}

----------------------------------------------------------------------------
(* Two scenes, told apart from the start.  In "races" two processes and an *)
(* edit meet at one key, and one temporary file is left behind, by a kill  *)
(* or by a removal that fails.  In "damage" one process uses two keys,     *)
(* whose files are edited in every way, twice.                             *)

VARIABLE scene

MCVars == <<vars, scene>>

MCInit ==
    /\ scene \in {"races", "damage"}
    /\ Init
    /\ \A p \in Procs : scene = "races" \/ p # p1 => key[p] = k1 /\ arg[p] = r1

Meets(p, k) == IF scene = "races" THEN k = k1 ELSE p = p1

MayLeave(c) ==
    scene = "races" => edits = 0 /\ c \in MCEditFormsRaces

\* Temporary names are interchangeable: each set takes the first that is free.
Free(t) == temp[t] = None /\ \A p \in Procs : mine[p] # t

TempOrder ==
    CHOOSE f \in [1..Cardinality(TempNames) -> TempNames] :
       \A t \in TempNames : \E i \in DOMAIN f : f[i] = t

TakesFirstFree ==
    \A i, j \in 1..Cardinality(TempNames) :
       i < j /\ Free(TempOrder[i]) => temp'[TempOrder[j]] = None \/ ~Free(TempOrder[j])

MCNext ==
    /\ UNCHANGED scene
    /\ \/ \E p \in Procs :
             \/ \E k \in Keys : Meets(p, k) /\ CallGet(p, k)
             \/ \E k \in Keys, r \in Reports :
                      Meets(p, k) /\ (k = k1 \/ r = r2) /\ CallSet(p, k, r)
             \/ Get(p) \/ Set(p) \/ (scene = "races" /\ Crash(p))
       \/ \E k \in Keys, c \in EditForms : MayLeave(c) /\ Edit(k, c)
    /\ crashes' + stuck' <= 1 /\ TakesFirstFree

MCSpec == MCInit /\ [][MCNext]_MCVars /\ Fairness
=============================================================================
