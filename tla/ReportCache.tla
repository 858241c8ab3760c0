---------------------------- MODULE ReportCache ----------------------------
(***************************************************************************)
(* QCReportCache (cache.py) at the granularity of its file operations.     *)
(* Several qc processes share one cache directory without any lock; each   *)
(* may be killed between two file operations, a file operation may fail,   *)
(* and somebody may edit, truncate or delete a cache file at any time.     *)
(*                                                                         *)
(* A report stands for its own hash: stable_hash is taken to be            *)
(* collision-free, so "hash = report" is the recomputed-hash test.  The    *)
(* metadata the engine passes is a function of the key (engine.py 432-449: *)
(* every metadata field is hashed into the key).                           *)
(***************************************************************************)
EXTENDS Naturals, FiniteSets

CONSTANTS Procs, Keys, Metas, Reports,
          TempNames,   \* names tempfile.mkstemp can produce
          Miss, Stored, Raised,   \* how a call ends, if not with a report
          None,        \* no file, no report, no temporary file
          Truncated,   \* a file json.load rejects with JSONDecodeError
          Undecodable, \* one it fails on otherwise, or that is no object
          MetaOf,      \* MetaOf[k]: the metadata that goes with key k
          EditForms,   \* the contents an edit from outside may leave
          MaxEdits,    \* bound on edits from outside
          MaxCrashes,  \* bound on killed processes
          MaxStuck     \* bound on temporary files that cannot be removed

Formats == {"qc-cache/1", "other"}

Entry == [format: Formats, key: Keys, meta: Metas,
          hash: Reports \cup {None}, report: Reports \cup {None}]

Contents == Entry \cup {None, Truncated, Undecodable}

ASSUME MetaOfAssumption == MetaOf \in [Keys -> Metas]
ASSUME EditAssumption == EditForms \subseteq Contents
ASSUME NoneAssumption ==
    None \notin Reports \cup Entry \cup TempNames \cup {Truncated, Undecodable}
ASSUME ReportAssumption ==
    Reports \cap {None, Miss, Stored, Raised} = {}
ASSUME EntryAssumption ==
    Entry \cap {Truncated, Undecodable} = {} /\ Truncated # Undecodable
ASSUME BoundAssumption ==
    MaxEdits \in Nat /\ MaxCrashes \in Nat /\ MaxStuck \in Nat

VARIABLES file,      \* file[k]: what <key>.json holds
          temp,      \* temp[t]: what the temporary file t holds
          pc, key, arg, result, mine,   \* the call each process is in
          edits, crashes,
          stuck,     \* history: how many removals of a temporary file failed
          published, \* history: every <<key, report>> a replace made visible
          edited     \* history: keys whose file was edited from outside

disk == <<file, temp>>
env == <<edits, crashes, stuck, edited>>
vars == <<file, temp, pc, key, arg, result, mine, edits, crashes, stuck,
          published, edited>>

PCs == {"idle", "exists", "load", "invalidate",
        "mkstemp", "write", "replace", "stored", "failed"}

Outcomes == Reports \cup {None, Miss, Stored, Raised}

MatchesAnyKey(k, e) == e.format = "qc-cache/1" /\ e.meta = MetaOf[k]
\* The checks of get, in the order it makes them.
Matches(k, e) == e.format = "qc-cache/1" /\ e.key = k /\ e.meta = MetaOf[k]

IsHit(k, c) ==
    /\ c \in Entry
    /\ Matches(k, c)
    /\ c.report # None
    /\ c.hash = c.report

IsStaleHash(k, c) ==
    /\ c \in Entry
    /\ Matches(k, c)
    /\ c.report # None
    /\ c.hash # c.report

NewEntry(k, r) ==
    [format |-> "qc-cache/1", key |-> k, meta |-> MetaOf[k],
     hash |-> r, report |-> r]

\* An entry as set wrote it for key k.
Intact(k, c) == \E r \in Reports : c = NewEntry(k, r)

Init ==
    /\ file = [k \in Keys |-> None]
    /\ temp = [t \in TempNames |-> None]
    /\ pc = [p \in Procs |-> "idle"]
    /\ key \in [Procs -> Keys]
    /\ arg \in [Procs -> Reports]
    /\ result = [p \in Procs |-> None]
    /\ mine = [p \in Procs |-> None]
    /\ edits = 0 /\ crashes = 0 /\ stuck = 0
    /\ published = {} /\ edited = {}

----------------------------------------------------------------------------
Goto(p, l) == pc' = [pc EXCEPT ![p] = l]

Return(p, r) ==
    /\ Goto(p, "idle")
    /\ result' = [result EXCEPT ![p] = r]

CallGet(p, k) ==
    /\ pc[p] = "idle"
    /\ Goto(p, "exists")
    /\ key' = [key EXCEPT ![p] = k]
    /\ result' = [result EXCEPT ![p] = None]
    /\ UNCHANGED <<disk, arg, mine, env, published>>

\* get, 31-33: path.exists() comes before the open and may be out of date.
\* Where stat itself fails it says no or raises, by the version of Python.
GetExists(p) ==
    /\ pc[p] = "exists"
    /\ \/ Return(p, Miss)
       \/ Return(p, Raised)
       \/ file[key[p]] # None /\ Goto(p, "load") /\ UNCHANGED result
    /\ UNCHANGED <<disk, key, arg, mine, env, published>>

GetLoadWholeEntry(p) ==
    /\ pc[p] = "load"
    /\ Return(p, IF IsHit(key[p], file[key[p]]) THEN file[key[p]] ELSE Miss)
    /\ UNCHANGED <<disk, key, arg, mine, env, published>>
GetLoadWaits(p) ==
    /\ pc[p] = "load"
    /\ IsHit(key[p], file[key[p]])
    /\ Return(p, file[key[p]].report)
    /\ UNCHANGED <<disk, key, arg, mine, env, published>>
\* get, 34-56: os.replace swaps whole files, so one open sees one content.
\* An OSError of the open or the read is a miss, whatever the file holds.
GetLoad(p) ==
    LET c == file[key[p]] IN
    /\ pc[p] = "load"
    /\ \/ IsHit(key[p], c) /\ Return(p, c.report)
       \/ IsStaleHash(key[p], c) /\ Goto(p, "invalidate") /\ UNCHANGED result
       \/ c = Undecodable /\ Return(p, Raised)
       \/ Return(p, Miss)
    /\ UNCHANGED <<disk, key, arg, mine, env, published>>

\* _invalidate unlinks whatever the path holds by now; a failure is ignored.
GetInvalidate(p) ==
    /\ pc[p] = "invalidate"
    /\ file' \in {file, [file EXCEPT ![key[p]] = None]}
    /\ Return(p, Miss)
    /\ UNCHANGED <<temp, key, arg, mine, env, published>>

CallSet(p, k, r) ==
    /\ pc[p] = "idle"
    /\ Goto(p, "mkstemp")
    /\ key' = [key EXCEPT ![p] = k]
    /\ arg' = [arg EXCEPT ![p] = r]
    /\ result' = [result EXCEPT ![p] = None]
    /\ UNCHANGED <<disk, mine, env, published>>

\* set, 60-68: mkstemp creates an empty file under a name nobody uses; the
\* OSError of mkdir or mkstemp leaves set before its try.
SetMkstemp(p) ==
    /\ pc[p] = "mkstemp"
    /\ \/ \E t \in TempNames :
             /\ temp[t] = None
             /\ \A q \in Procs : mine[q] # t
             /\ temp' = [temp EXCEPT ![t] = Truncated]
             /\ mine' = [mine EXCEPT ![p] = t]
             /\ Goto(p, "write")
             /\ UNCHANGED result
       \/ Return(p, Raised) /\ UNCHANGED <<temp, mine>>
    /\ UNCHANGED <<file, key, arg, env, published>>

SetWriteRemovesFirst(p) ==
    /\ pc[p] = "write"
    /\ temp' = [temp EXCEPT ![mine[p]] = NewEntry(key[p], arg[p])]
    /\ file' = [file EXCEPT ![key[p]] = None]
    /\ Goto(p, "replace")
    /\ UNCHANGED <<key, arg, result, mine, env, published>>
SetWriteIgnoresErrors(p) ==
    /\ pc[p] = "write"
    /\ \/ temp' = [temp EXCEPT ![mine[p]] = NewEntry(key[p], arg[p])]
       \/ UNCHANGED temp
    /\ Goto(p, "replace")
    /\ UNCHANGED <<file, key, arg, result, mine, env, published>>
\* set, 70-71.  On a failed write the temporary file stays incomplete.
SetWrite(p) ==
    /\ pc[p] = "write"
    /\ \/ /\ temp' = [temp EXCEPT ![mine[p]] = NewEntry(key[p], arg[p])]
          /\ Goto(p, "replace")
       \/ Goto(p, "failed") /\ UNCHANGED temp
    /\ UNCHANGED <<file, key, arg, result, mine, env, published>>

SetReplaceIgnoresErrors(p) ==
    /\ pc[p] = "replace"
    /\ Goto(p, "stored")
    /\ UNCHANGED <<disk, key, arg, result, mine, env, published>>
SetReplace(p) ==
    /\ pc[p] = "replace"
    /\ \/ /\ file' = [file EXCEPT ![key[p]] = temp[mine[p]]]
          /\ temp' = [temp EXCEPT ![mine[p]] = None]
          /\ published' = published \cup {<<key[p], arg[p]>>}
          /\ Goto(p, "stored")
       \/ Goto(p, "failed") /\ UNCHANGED <<disk, published>>
    /\ UNCHANGED <<key, arg, result, mine, env>>

SetFinallyKeepsTemp(p) ==
    /\ pc[p] \in {"stored", "failed"}
    /\ mine' = [mine EXCEPT ![p] = None]
    /\ Return(p, IF pc[p] = "stored" THEN Stored ELSE Raised)
    /\ UNCHANGED <<disk, key, arg, env, published>>
\* set, 73-75: the finally clause, on both ways out of the try.  After a
\* failure os.path.exists may say no, or os.remove raise: the file stays.
SetFinally(p) ==
    /\ pc[p] \in {"stored", "failed"}
    /\ \/ temp' = [temp EXCEPT ![mine[p]] = None] /\ UNCHANGED stuck
       \/ /\ pc[p] = "failed" /\ stuck < MaxStuck
          /\ stuck' = stuck + 1
          /\ UNCHANGED temp
    /\ mine' = [mine EXCEPT ![p] = None]
    /\ Return(p, IF pc[p] = "stored" THEN Stored ELSE Raised)
    /\ UNCHANGED <<file, key, arg, edits, crashes, edited, published>>

----------------------------------------------------------------------------
\* The process is killed; its temporary file, if it has one, stays.
Crash(p) ==
    /\ pc[p] # "idle"
    /\ crashes < MaxCrashes
    /\ crashes' = crashes + 1
    /\ mine' = [mine EXCEPT ![p] = None]
    /\ Return(p, None)
    /\ UNCHANGED <<disk, key, arg, edits, edited, stuck, published>>

\* Somebody edits, truncates or deletes an existing cache file.  An edit
\* that rebuilds a matching hash is not an edit the cache can see.
Edit(k, c) ==
    /\ edits < MaxEdits
    /\ file[k] # None
    /\ ~Intact(k, c)
    /\ edits' = edits + 1
    /\ edited' = edited \cup {k}
    /\ file' = [file EXCEPT ![k] = c]
    /\ UNCHANGED <<temp, pc, key, arg, result, mine, crashes, stuck, published>>

Get(p) == GetExists(p) \/ GetLoad(p) \/ GetInvalidate(p)

Set(p) == SetMkstemp(p) \/ SetWrite(p) \/ SetReplace(p) \/ SetFinally(p)

Next ==
    \/ \E p \in Procs :
          \/ \E k \in Keys : CallGet(p, k)
          \/ \E k \in Keys, r \in Reports : CallSet(p, k, r)
          \/ Get(p) \/ Set(p) \/ Crash(p)
    \/ \E k \in Keys, c \in EditForms : Edit(k, c)

\* A process inside a call keeps running unless it is killed: nothing in
\* get or set waits for another process.
Fairness == \A p \in Procs : WF_vars(Get(p) \/ Set(p))

SafeSpec == Init /\ [][Next]_vars

Spec == SafeSpec /\ Fairness

----------------------------------------------------------------------------
TypeOK ==
    /\ file \in [Keys -> Contents]
    /\ temp \in [TempNames -> Contents]
    /\ pc \in [Procs -> PCs]
    /\ key \in [Procs -> Keys]
    /\ arg \in [Procs -> Reports]
    /\ result \in [Procs -> Outcomes]
    /\ mine \in [Procs -> TempNames \cup {None}]
    /\ edits \in Nat /\ crashes \in Nat /\ stuck \in Nat
    /\ published \subseteq Keys \X Reports
    /\ edited \subseteq Keys

\* A get that answers with a report answers with one that some set made
\* visible under the very key the get asked for, whatever was edited and
\* whoever was killed in between (cache.py 3-7).
HitIsPublished ==
    \A p \in Procs : result[p] \in Reports => <<key[p], result[p]>> \in published

\* A key nobody edited holds no file or a complete, matching entry: no
\* crash, failed write or concurrent set exposes a half-written report.
NeverTorn ==
    \A k \in Keys \ edited : file[k] # None => Intact(k, file[k])

\* Every temporary file belongs to a set call still running, except one per
\* killed process and one per removal that itself failed (the finally clause
\* of set, cache.py 73-75): no other failure leaves a file behind.
UnownedTemps == {t \in TempNames : temp[t] # None /\ \A p \in Procs : mine[p] # t}

TempsRemoved == Cardinality(UnownedTemps) <= crashes + stuck

\* As long as nobody edits the file of a key, an entry once stored is never
\* lost again: set replaces entries and get removes only edited ones.
EntriesPersist ==
    [][\A k \in Keys \ edited' : Intact(k, file[k]) => Intact(k, file'[k])]_vars

\* No call waits for another process: each ends, or its process is killed.
CallsReturn == \A p \in Procs : pc[p] # "idle" ~> pc[p] = "idle"

\* The abstract register this cache implements.
curBar == [k \in Keys |-> IF Intact(k, file[k]) THEN file[k].report ELSE None]

phaseBar ==
    [p \in Procs |->
        CASE pc[p] \in {"exists", "load"} -> "looking"
          [] pc[p] = "invalidate" -> "missing"
          [] pc[p] \in {"mkstemp", "write", "replace"} -> "setting"
          [] OTHER -> pc[p]]

Abs == INSTANCE AbstractCache WITH cur <- curBar, phase <- phaseBar

ImplementsAbstractCache == Abs!Spec

----------------------------------------------------------------------------
(* What the documentation says of a damaged cache file. *)

\* docs/architecture.md 118-119: a corrupted or hand-edited cache file is
\* treated as a miss, so no get ends in an exception.
DamagedIsAMiss ==
    [][\A p \in Procs :
          pc[p] = "load" /\ pc'[p] = "idle" => result'[p] # Raised]_vars
=============================================================================
