------------------------- MODULE ReportCacheProofs -------------------------
(***************************************************************************)
(* Theorems about ReportCache for any number of processes, keys and        *)
(* reports, any edits and any crashes.                                     *)
(***************************************************************************)
EXTENDS ReportCache, FiniteSetTheorems, TLAPS

(***************************************************************************)
(* The inductive invariant.  HitIsPublished alone is not inductive: that   *)
(* what a get loads is published rests on what the files hold (Backed),    *)
(* that on what a set moves into place (Written), and that on no process   *)
(* writing another's temporary file (OwnTemp).                             *)
(***************************************************************************)
InSet(p) == pc[p] \in {"write", "replace", "stored", "failed"}

OwnTemp ==
    /\ \A p \in Procs : InSet(p) <=> mine[p] # None
    /\ \A p, q \in Procs : p # q /\ mine[p] # None => mine[p] # mine[q]

Written ==
    \A p \in Procs : pc[p] = "replace" => temp[mine[p]] = NewEntry(key[p], arg[p])

Backed ==
    \A k \in Keys : Intact(k, file[k]) => <<k, file[k].report>> \in published

InvalidatesEdited ==
    \A p \in Procs : pc[p] = "invalidate" => key[p] \in edited

IInv ==
    /\ TypeOK /\ OwnTemp /\ Written /\ Backed
    /\ HitIsPublished /\ NeverTorn /\ InvalidatesEdited

\* The entry set writes is a well-typed file content holding its report.
LEMMA NewEntryIsIntact ==
    ASSUME NEW k \in Keys, NEW r \in Reports
    PROVE  /\ NewEntry(k, r) \in Entry
           /\ Intact(k, NewEntry(k, r))
           /\ NewEntry(k, r).report = r
           /\ NewEntry(k, r) # None
<1>1. NewEntry(k, r) \in Entry
  BY MetaOfAssumption DEF NewEntry, Entry, Formats
<1> QED
  BY <1>1, NoneAssumption DEF NewEntry, Intact

\* The checks of get (cache.py 40-54) accept an entry for key k exactly when
\* it is one that set writes for k (cache.py 61-67), field for field.
THEOREM GetAcceptsWhatSetWrites ==
    ASSUME NEW k \in Keys, NEW c
    PROVE  IsHit(k, c) <=> Intact(k, c)
<1>1. ASSUME IsHit(k, c) PROVE Intact(k, c)
  <2>1. c.report \in Reports
    BY <1>1 DEF IsHit, Entry
  <2>2. c = NewEntry(k, c.report)
    BY <1>1 DEF IsHit, Matches, Entry, NewEntry
  <2> QED
    BY <2>1, <2>2 DEF Intact
<1>2. ASSUME NEW r \in Reports, c = NewEntry(k, r) PROVE IsHit(k, c)
  <2>1. r # None
    BY NoneAssumption
  <2> QED
    BY <1>2, <2>1, NewEntryIsIntact DEF IsHit, Matches, NewEntry
<1> QED
  BY <1>1, <1>2 DEF Intact

\* No edited content passes for an entry of its key.
LEMMA DamageIsNoHit ==
    ASSUME NEW k \in Keys
    PROVE  /\ ~Intact(k, None)
           /\ ~Intact(k, Undecodable)
           /\ \A c : IsStaleHash(k, c) => ~Intact(k, c) /\ c # None
<1>1. \A c : IsStaleHash(k, c) => ~IsHit(k, c) /\ c # None
  BY NoneAssumption DEF IsStaleHash, IsHit
<1> QED
  BY <1>1, NewEntryIsIntact, GetAcceptsWhatSetWrites, EntryAssumption DEF Intact

\* The initial states satisfy the invariant.
LEMMA InitIInv == Init => IInv
<1> SUFFICES ASSUME Init PROVE IInv
  OBVIOUS
<1> USE DEF Init
<1>1. TypeOK
  BY BoundAssumption DEF TypeOK, Contents, PCs, Outcomes
<1>2. OwnTemp /\ Written /\ InvalidatesEdited
  BY DEF OwnTemp, InSet, Written, InvalidatesEdited
<1>3. Backed /\ NeverTorn
  BY DamageIsNoHit DEF Backed, NeverTorn
<1>4. HitIsPublished
  BY ReportAssumption DEF HitIsPublished
<1> QED
  BY <1>1, <1>2, <1>3, <1>4 DEF IInv

\* Every step keeps the types.
LEMMA StepTypeOK == ASSUME IInv, [Next]_vars PROVE TypeOK'
<1> USE DEF IInv, TypeOK, Outcomes, PCs, disk, env, Goto, Return
<1>1. ASSUME NEW p \in Procs, NEW k \in Keys, CallGet(p, k) PROVE TypeOK'
  BY <1>1 DEF CallGet
<1>2. ASSUME NEW p \in Procs, NEW k \in Keys, NEW r \in Reports, CallSet(p, k, r)
      PROVE TypeOK'
  BY <1>2 DEF CallSet
<1>3. ASSUME NEW p \in Procs, GetExists(p) PROVE TypeOK'
  BY <1>3 DEF GetExists
<1>4. ASSUME NEW p \in Procs, GetLoad(p) PROVE TypeOK'
  <2>1. IsHit(key[p], file[key[p]]) => file[key[p]].report \in Reports
    BY DEF IsHit, Entry
  <2> QED
    BY <1>4, <2>1 DEF GetLoad
<1>5. ASSUME NEW p \in Procs, GetInvalidate(p) PROVE TypeOK'
  BY <1>5 DEF GetInvalidate, Contents
<1>6. ASSUME NEW p \in Procs, SetMkstemp(p) PROVE TypeOK'
  BY <1>6 DEF SetMkstemp, Contents
<1>7. ASSUME NEW p \in Procs, SetWrite(p) PROVE TypeOK'
  <2>1. NewEntry(key[p], arg[p]) \in Contents
    BY NewEntryIsIntact DEF Contents
  <2> QED
    BY <1>7, <2>1 DEF SetWrite
<1>8. ASSUME NEW p \in Procs, SetReplace(p) PROVE TypeOK'
  <2>1. mine[p] \in TempNames
    BY <1>8 DEF SetReplace, OwnTemp, InSet
  <2> QED
    BY <1>8, <2>1 DEF SetReplace, Contents
<1>9. ASSUME NEW p \in Procs, SetFinally(p) PROVE TypeOK'
  BY <1>9 DEF SetFinally, Contents
<1>10. ASSUME NEW p \in Procs, Crash(p) PROVE TypeOK'
  BY <1>10 DEF Crash
<1>11. ASSUME NEW k \in Keys, NEW c \in EditForms, Edit(k, c) PROVE TypeOK'
  BY <1>11, EditAssumption DEF Edit
<1>12. CASE UNCHANGED vars
  BY <1>12 DEF vars
<1> QED
  BY <1>1, <1>2, <1>3, <1>4, <1>5, <1>6, <1>7, <1>8, <1>9, <1>10, <1>11,
     <1>12 DEF Next, Get, Set

\* What a step can do to the file of a key: nothing, put there an entry that
\* is published in the same step, or leave no hit in a file edited before.
FileStep(k) ==
    \/ file'[k] = file[k]
    \/ \E r \in Reports : file'[k] = NewEntry(k, r) /\ <<k, r>> \in published'
    \/ k \in edited' /\ ~Intact(k, file'[k])

LEMMA FileSteps ==
    ASSUME IInv, [Next]_vars
    PROVE  /\ \A k \in Keys : FileStep(k)
           /\ published \subseteq published'
           /\ edited \subseteq edited'
<1> USE DEF FileStep, IInv
<1>1. CASE UNCHANGED <<file, published, edited>>
  BY <1>1
<1>2. ASSUME NEW p \in Procs, GetInvalidate(p)
      PROVE /\ \A k \in Keys : FileStep(k)
            /\ UNCHANGED <<published, edited>>
  <2>1. key[p] \in edited
    BY <1>2 DEF GetInvalidate, InvalidatesEdited
  <2>2. ~Intact(key[p], None)
    BY DamageIsNoHit DEF TypeOK
  <2> QED
    BY <1>2, <2>1, <2>2 DEF GetInvalidate, env, TypeOK
<1>3. ASSUME NEW p \in Procs, SetReplace(p)
      PROVE /\ \A k \in Keys : FileStep(k)
            /\ published \subseteq published' /\ UNCHANGED edited
  <2>1. key[p] \in Keys /\ arg[p] \in Reports
    BY DEF TypeOK
  <2>2. temp[mine[p]] = NewEntry(key[p], arg[p])
    BY <1>3 DEF SetReplace, Written
  <2> QED
    BY <1>3, <2>1, <2>2 DEF SetReplace, env, disk, TypeOK
<1>4. ASSUME NEW j \in Keys, NEW c \in EditForms, Edit(j, c)
      PROVE /\ \A k \in Keys : FileStep(k)
            /\ UNCHANGED published /\ edited \subseteq edited'
  BY <1>4 DEF Edit, TypeOK
<1>5. ASSUME NEW p \in Procs,
             \/ \E k \in Keys : CallGet(p, k)
             \/ \E k \in Keys, r \in Reports : CallSet(p, k, r)
             \/ GetExists(p) \/ GetLoad(p)
             \/ SetMkstemp(p) \/ SetWrite(p) \/ SetFinally(p) \/ Crash(p)
      PROVE UNCHANGED <<file, published, edited>>
  BY <1>5 DEF CallGet, CallSet, GetExists, GetLoad, SetMkstemp, SetWrite,
              SetFinally, Crash, disk, env
<1> QED
  BY <1>1, <1>2, <1>3, <1>4, <1>5 DEF Next, Get, Set, vars

\* The files go on holding published reports only, and complete ones.
LEMMA StepFiles == ASSUME IInv, [Next]_vars PROVE Backed' /\ NeverTorn'
<1>1. ASSUME NEW k \in Keys, Intact(k, file'[k])
      PROVE <<k, file'[k].report>> \in published'
  BY <1>1, FileSteps, NewEntryIsIntact DEF FileStep, IInv, Backed
<1>2. ASSUME NEW k \in Keys, k \notin edited', file'[k] # None
      PROVE Intact(k, file'[k])
  BY <1>2, FileSteps, NewEntryIsIntact DEF FileStep, IInv, NeverTorn
<1> QED
  BY <1>1, <1>2 DEF Backed, NeverTorn

\* A get heads for _invalidate only from a file that was edited.
LEMMA StepInvalidates == ASSUME IInv, [Next]_vars PROVE InvalidatesEdited'
<1> USE DEF IInv, InvalidatesEdited, TypeOK, Goto, Return
<1> SUFFICES ASSUME NEW q \in Procs, pc'[q] = "invalidate"
             PROVE  key'[q] \in edited'
  OBVIOUS
<1>1. CASE pc[q] = "invalidate" /\ key'[q] = key[q]
  BY <1>1, FileSteps
<1>2. ASSUME NEW p \in Procs, GetLoad(p) PROVE key'[q] \in edited'
  <2>1. CASE p = q /\ pc[q] # "invalidate"
    <3>1. IsStaleHash(key[q], file[key[q]])
      BY <1>2, <2>1 DEF GetLoad
    <3>2. file[key[q]] # None /\ ~Intact(key[q], file[key[q]])
      BY <3>1, DamageIsNoHit
    <3> QED
      BY <1>2, <3>2 DEF GetLoad, NeverTorn, env
  <2>2. CASE p # q \/ pc[q] = "invalidate"
    BY <1>2, <2>2 DEF GetLoad, env
  <2> QED
    BY <2>1, <2>2
<1>3. ASSUME NEW p \in Procs,
             \/ \E k \in Keys : CallGet(p, k)
             \/ \E k \in Keys, r \in Reports : CallSet(p, k, r)
             \/ GetExists(p) \/ GetInvalidate(p) \/ Set(p) \/ Crash(p)
      PROVE pc[q] = "invalidate" /\ key'[q] = key[q]
  BY <1>3 DEF CallGet, CallSet, GetExists, GetInvalidate, Set, SetMkstemp,
              SetWrite, SetReplace, SetFinally, Crash
<1>4. ASSUME NEW k \in Keys, NEW c \in EditForms, Edit(k, c)
      PROVE pc[q] = "invalidate" /\ key'[q] = key[q]
  BY <1>4 DEF Edit
<1>5. CASE UNCHANGED vars
  BY <1>1, <1>5 DEF vars
<1> QED
  BY <1>1, <1>2, <1>3, <1>4, <1>5 DEF Next, Get

\* The answer of a get stays published, and only a load makes a new one.
LEMMA StepHits == ASSUME IInv, [Next]_vars PROVE HitIsPublished'
<1> USE DEF IInv, HitIsPublished, TypeOK, Goto, Return
<1> SUFFICES ASSUME NEW q \in Procs, result'[q] \in Reports
             PROVE  <<key'[q], result'[q]>> \in published'
  OBVIOUS
<1>0. ASSUME NEW s \in {None, Miss, Stored, Raised} PROVE s \notin Reports
  BY ReportAssumption
<1>1. CASE result'[q] = result[q] /\ key'[q] = key[q]
  BY <1>1, FileSteps
<1>2. ASSUME NEW p \in Procs, GetLoad(p)
      PROVE <<key'[q], result'[q]>> \in published'
  <2>1. CASE p = q /\ IsHit(key[q], file[key[q]])
    <3>1. /\ \/ result'[q] = file[key[q]].report
             \/ result'[q] = result[q]
             \/ result'[q] \in {Raised, Miss}
          /\ key'[q] = key[q]
      BY <1>2, <2>1 DEF GetLoad
    <3>2. <<key[q], file[key[q]].report>> \in published
      BY <2>1, GetAcceptsWhatSetWrites DEF Backed
    <3> QED
      BY <3>1, <3>2, <1>0, <1>1, FileSteps
  <2>2. CASE p # q \/ ~IsHit(key[q], file[key[q]])
    <3>1. /\ result'[q] = result[q] \/ result'[q] \in {Raised, Miss}
          /\ key'[q] = key[q]
      BY <1>2, <2>2 DEF GetLoad
    <3> QED
      BY <3>1, <1>0, <1>1
  <2> QED
    BY <2>1, <2>2
<1>3. ASSUME NEW p \in Procs,
             \/ \E k \in Keys : CallGet(p, k)
             \/ \E k \in Keys, r \in Reports : CallSet(p, k, r)
      PROVE result'[q] = result[q] /\ key'[q] = key[q]
  BY <1>3, <1>0 DEF CallGet, CallSet
<1>4. ASSUME NEW p \in Procs,
             GetExists(p) \/ GetInvalidate(p) \/ Set(p) \/ Crash(p)
      PROVE result'[q] = result[q] /\ key'[q] = key[q]
  BY <1>4, <1>0 DEF GetExists, GetInvalidate, Set, SetMkstemp, SetWrite,
                    SetReplace, SetFinally, Crash
<1>5. ASSUME NEW k \in Keys, NEW c \in EditForms, Edit(k, c)
      PROVE result'[q] = result[q] /\ key'[q] = key[q]
  BY <1>5 DEF Edit
<1>6. CASE UNCHANGED vars
  BY <1>1, <1>6 DEF vars
<1> QED
  BY <1>1, <1>2, <1>3, <1>4, <1>5, <1>6 DEF Next, Get

\* No two processes ever write the same temporary file, and what a set is
\* about to move into place is the whole entry it was asked to store.
LEMMA StepTemps == ASSUME IInv, [Next]_vars PROVE OwnTemp' /\ Written'
<1> USE DEF IInv, TypeOK, OwnTemp, Written, InSet, Goto, Return
<1>1. ASSUME NEW p \in Procs,
             \/ \E k \in Keys : CallGet(p, k)
             \/ \E k \in Keys, r \in Reports : CallSet(p, k, r)
      PROVE OwnTemp' /\ Written'
  BY <1>1 DEF CallGet, CallSet, disk
<1>2. ASSUME NEW p \in Procs, GetExists(p) \/ GetLoad(p) \/ GetInvalidate(p)
      PROVE OwnTemp' /\ Written'
  BY <1>2 DEF GetExists, GetLoad, GetInvalidate, disk
<1>3. ASSUME NEW p \in Procs, SetMkstemp(p) PROVE OwnTemp' /\ Written'
  <2>1. ASSUME NEW t \in TempNames,
               \A q \in Procs : mine[q] # t,
               temp' = [temp EXCEPT ![t] = Truncated],
               mine' = [mine EXCEPT ![p] = t],
               pc[p] = "mkstemp", Goto(p, "write"), UNCHANGED <<key, arg>>
        PROVE  OwnTemp' /\ Written'
    BY <2>1, NoneAssumption
  <2>2. CASE Return(p, Raised) /\ UNCHANGED <<temp, mine, key, arg>>
    BY <1>3, <2>2 DEF SetMkstemp
  <2> QED
    BY <1>3, <2>1, <2>2 DEF SetMkstemp
<1>4. ASSUME NEW p \in Procs, SetWrite(p) PROVE OwnTemp' /\ Written'
  <2>1. OwnTemp'
    BY <1>4 DEF SetWrite
  <2>2. mine[p] \in TempNames
    BY <1>4 DEF SetWrite
  <2> QED
    BY <1>4, <2>1, <2>2 DEF SetWrite
<1>5. ASSUME NEW p \in Procs, SetReplace(p) PROVE OwnTemp' /\ Written'
  <2>1. OwnTemp'
    BY <1>5 DEF SetReplace, disk
  <2>2. mine[p] # None
    BY <1>5 DEF SetReplace
  <2> QED
    BY <1>5, <2>1, <2>2 DEF SetReplace, disk
<1>6. ASSUME NEW p \in Procs, SetFinally(p) PROVE OwnTemp' /\ Written'
  <2>1. mine[p] # None
    BY <1>6 DEF SetFinally
  <2> QED
    BY <1>6, <2>1 DEF SetFinally
<1>7. ASSUME NEW p \in Procs, Crash(p) PROVE OwnTemp' /\ Written'
  BY <1>7 DEF Crash, disk
<1>8. ASSUME NEW k \in Keys, NEW c \in EditForms, Edit(k, c)
      PROVE OwnTemp' /\ Written'
  BY <1>8 DEF Edit
<1>9. CASE UNCHANGED vars
  BY <1>9 DEF vars
<1> QED
  BY <1>1, <1>2, <1>3, <1>4, <1>5, <1>6, <1>7, <1>8, <1>9 DEF Next, Get, Set

\* The invariant holds throughout.
THEOREM Invariance == SafeSpec => []IInv
<1>1. IInv /\ [Next]_vars => IInv'
  BY StepTypeOK, StepTemps, StepFiles, StepHits, StepInvalidates DEF IInv
<1> QED
  BY InitIInv, <1>1, PTL DEF SafeSpec

----------------------------------------------------------------------------
\* The variables keep their types.
THEOREM TypeCorrect == SafeSpec => []TypeOK
BY Invariance, PTL DEF IInv

\* A report returned by get was published under that key (cache.py 3-7).
THEOREM HitsArePublished == SafeSpec => []HitIsPublished
BY Invariance, PTL DEF IInv

\* Crashes and failed writes never show a half-written entry.
THEOREM FilesNeverTorn == SafeSpec => []NeverTorn
BY Invariance, PTL DEF IInv

\* The file of a key nobody edits, once a hit, remains one.
THEOREM EntriesStay == SafeSpec => EntriesPersist
<1>1. ASSUME IInv, [Next]_vars, NEW k \in Keys \ edited', Intact(k, file[k])
      PROVE  Intact(k, file'[k])
  BY <1>1, FileSteps, NewEntryIsIntact DEF FileStep
<1>2. IInv /\ [Next]_vars =>
         [\A k \in Keys \ edited' : Intact(k, file[k]) => Intact(k, file'[k])]_vars
  BY <1>1
<1> QED
  BY Invariance, <1>2, PTL DEF SafeSpec, EntriesPersist

----------------------------------------------------------------------------
(* Temporary files: only a killed process and a removal that fails leave    *)
(* one behind, and only their own.                                          *)
TempsInv == IsFiniteSet(UnownedTemps) /\ TempsRemoved

\* No step but a crash and a failed removal adds to the files without an
\* owner, and each adds none but that of its own process.
LEMMA TempSteps ==
    ASSUME IInv, [Next]_vars
    PROVE  \/ UnownedTemps' \subseteq UnownedTemps /\ UNCHANGED <<crashes, stuck>>
           \/ \E t : /\ UnownedTemps' \subseteq UnownedTemps \cup {t}
                    /\ crashes' + stuck' = crashes + stuck + 1
<1> DEFINE Fewer == UnownedTemps' \subseteq UnownedTemps /\ UNCHANGED <<crashes, stuck>>
<1> USE DEF IInv, TypeOK, OwnTemp, InSet, UnownedTemps, Goto, Return
<1>1. CASE UNCHANGED <<temp, mine, crashes, stuck>>
  BY <1>1
<1>2. ASSUME NEW p \in Procs, SetMkstemp(p) PROVE Fewer
  BY <1>2, NoneAssumption DEF SetMkstemp, env
<1>3. ASSUME NEW p \in Procs, SetWrite(p) \/ SetReplace(p) PROVE Fewer
  <2>1. mine[p] \in TempNames /\ UNCHANGED <<mine, crashes, stuck>>
    BY <1>3 DEF SetWrite, SetReplace, env
  <2>2. ASSUME NEW t \in TempNames, t # mine[p] PROVE temp'[t] = temp[t]
    BY <1>3, <2>2 DEF SetWrite, SetReplace, disk
  <2> QED
    BY <2>1, <2>2
<1>4. ASSUME NEW p \in Procs, SetFinally(p)
      PROVE  \/ Fewer
             \/ /\ UnownedTemps' \subseteq UnownedTemps \cup {mine[p]}
                /\ crashes' + stuck' = crashes + stuck + 1
  <2>1. /\ mine[p] \in TempNames /\ UNCHANGED crashes
        /\ mine' = [mine EXCEPT ![p] = None]
    BY <1>4 DEF SetFinally
  <2>2. CASE temp' = [temp EXCEPT ![mine[p]] = None] /\ UNCHANGED stuck
    BY <2>1, <2>2
  <2>3. CASE UNCHANGED temp /\ stuck' = stuck + 1
    <3>1. UnownedTemps' \subseteq UnownedTemps \cup {mine[p]}
      BY <2>1, <2>3
    <3> QED
      BY <2>1, <2>3, <3>1
  <2> QED
    BY <1>4, <2>2, <2>3 DEF SetFinally
<1>5. ASSUME NEW p \in Procs, Crash(p)
      PROVE  /\ UnownedTemps' \subseteq UnownedTemps \cup {mine[p]}
             /\ crashes' + stuck' = crashes + stuck + 1
  BY <1>5 DEF Crash, disk
<1>6. ASSUME NEW p \in Procs,
             \/ \E k \in Keys : CallGet(p, k)
             \/ \E k \in Keys, r \in Reports : CallSet(p, k, r)
             \/ Get(p)
      PROVE  UNCHANGED <<temp, mine, crashes, stuck>>
  BY <1>6 DEF CallGet, CallSet, Get, GetExists, GetLoad, GetInvalidate, disk, env
<1>7. ASSUME (\E k \in Keys, c \in EditForms : Edit(k, c)) \/ UNCHANGED vars
      PROVE  UNCHANGED <<temp, mine, crashes, stuck>>
  BY <1>7 DEF Edit, vars
<1> QED
  BY <1>1, <1>2, <1>3, <1>4, <1>5, <1>6, <1>7 DEF Next, Set

\* The finally clause of set (cache.py 73-75) and mkstemp's fresh names: at
\* any time there are no more temporary files without a running set than
\* there were processes killed and removals that failed, whatever else fails
\* and whoever sets what at once.
THEOREM TempsAreRemoved == SafeSpec => []TempsRemoved
<1>1. Init => TempsInv
  <2>1. Init => UnownedTemps = {} /\ crashes + stuck = 0
    BY DEF Init, UnownedTemps
  <2> QED
    BY <2>1, FS_EmptySet DEF TempsInv, TempsRemoved
<1>2. ASSUME IInv, TempsInv, [Next]_vars PROVE TempsInv'
  <2>1. /\ IsFiniteSet(UnownedTemps) /\ Cardinality(UnownedTemps) \in Nat
        /\ Cardinality(UnownedTemps) <= crashes + stuck
        /\ crashes \in Nat /\ stuck \in Nat
    BY <1>2, FS_CardinalityType DEF TempsInv, TempsRemoved, IInv, TypeOK
  <2>2. CASE UnownedTemps' \subseteq UnownedTemps /\ UNCHANGED <<crashes, stuck>>
    <3>1. /\ IsFiniteSet(UnownedTemps') /\ Cardinality(UnownedTemps') \in Nat
          /\ Cardinality(UnownedTemps') <= Cardinality(UnownedTemps)
      BY <2>1, <2>2, FS_Subset, FS_CardinalityType
    <3> QED
      BY <2>1, <2>2, <3>1 DEF TempsInv, TempsRemoved
  <2>3. ASSUME NEW t, UnownedTemps' \subseteq UnownedTemps \cup {t},
               crashes' + stuck' = crashes + stuck + 1
        PROVE  TempsInv'
    <3>1. /\ IsFiniteSet(UnownedTemps \cup {t})
          /\ Cardinality(UnownedTemps \cup {t}) \in
                {Cardinality(UnownedTemps), Cardinality(UnownedTemps) + 1}
      BY <2>1, FS_AddElement
    <3>2. /\ IsFiniteSet(UnownedTemps') /\ Cardinality(UnownedTemps') \in Nat
          /\ Cardinality(UnownedTemps') <= Cardinality(UnownedTemps \cup {t})
      BY <2>3, <3>1, FS_Subset, FS_CardinalityType
    <3> QED
      BY <2>1, <2>3, <3>1, <3>2 DEF TempsInv, TempsRemoved
  <2> QED
    BY <1>2, <2>2, <2>3, TempSteps
<1>3. TempsInv => TempsRemoved
  BY DEF TempsInv
<1> QED
  BY <1>1, <1>2, <1>3, Invariance, PTL DEF SafeSpec

----------------------------------------------------------------------------
(* The file-level cache implements the lossy register of AbstractCache.    *)

\* The register a key's file stands for.
RegisterOf(k, c) == IF Intact(k, c) THEN c.report ELSE None

LEMMA Register ==
    /\ curBar = [k \in Keys |-> RegisterOf(k, file[k])]
    /\ curBar' = [k \in Keys |-> RegisterOf(k, file'[k])]
    /\ \A k \in Keys : RegisterOf(k, None) = None
    /\ \A k \in Keys, r \in Reports : RegisterOf(k, NewEntry(k, r)) = r
<1>1. \A k \in Keys : RegisterOf(k, None) = None
  BY DamageIsNoHit DEF RegisterOf
<1>2. \A k \in Keys, r \in Reports : RegisterOf(k, NewEntry(k, r)) = r
  BY NewEntryIsIntact DEF RegisterOf
<1> QED
  BY <1>1, <1>2 DEF curBar, RegisterOf

\* Moving process p to location l moves its abstract phase to that of l.
PhaseOf(l) ==
    CASE l \in {"exists", "load"} -> "looking"
      [] l = "invalidate" -> "missing"
      [] l \in {"mkstemp", "write", "replace"} -> "setting"
      [] OTHER -> l

LEMMA Phases ==
    /\ \A p \in Procs : phaseBar[p] = PhaseOf(pc[p])
    /\ \A p \in Procs, l \in PCs :
          pc \in [Procs -> PCs] /\ Goto(p, l)
             => phaseBar' = [phaseBar EXCEPT ![p] = PhaseOf(l)]
    /\ UNCHANGED pc => UNCHANGED phaseBar
<1>1. phaseBar = [p \in Procs |-> PhaseOf(pc[p])]
  BY DEF phaseBar, PhaseOf
<1>2. phaseBar' = [p \in Procs |-> PhaseOf(pc'[p])]
  BY DEF phaseBar, PhaseOf
<1> QED
  BY <1>1, <1>2 DEF Goto

LEMMA PhaseValues ==
    /\ PhaseOf("idle") = "idle"
    /\ PhaseOf("exists") = "looking" /\ PhaseOf("load") = "looking"
    /\ PhaseOf("invalidate") = "missing"
    /\ PhaseOf("mkstemp") = "setting" /\ PhaseOf("write") = "setting"
    /\ PhaseOf("replace") = "setting"
    /\ PhaseOf("stored") = "stored" /\ PhaseOf("failed") = "failed"
BY DEF PhaseOf

LEMMA RefinesInit == Init => Abs!Init
<1> SUFFICES ASSUME Init PROVE Abs!Init
  OBVIOUS
<1>1. curBar = [k \in Keys |-> None]
  BY Register DEF Init
<1>2. phaseBar = [p \in Procs |-> "idle"]
  BY DEF Init, phaseBar
<1> QED
  BY <1>1, <1>2 DEF Init, Abs!Init

\* Each step of a call is a step of the abstract call, or a stutter.
LEMMA RefinesGet ==
    ASSUME IInv, NEW p \in Procs, Get(p)
    PROVE  [Abs!Next]_(Abs!vars)
<1> USE Phases, PhaseValues DEF IInv, TypeOK, PCs
<1>k. key[p] \in Keys
  OBVIOUS
<1>1. CASE GetExists(p)
  <2>1. UNCHANGED curBar
    BY <1>1, Register DEF GetExists, disk
  <2>2. CASE Return(p, Miss) \/ Return(p, Raised)
    <3>1. Abs!GetMiss(p)
      BY <1>1, <2>1, <2>2 DEF GetExists, Return, Abs!GetMiss, Abs!Return, disk
    <3> QED
      BY <3>1 DEF Abs!Next
  <2>3. CASE Goto(p, "load") /\ UNCHANGED result
    <3>1. phaseBar' = [phaseBar EXCEPT ![p] = "looking"]
      BY <2>3
    <3>2. phaseBar[p] = "looking"
      BY <1>1 DEF GetExists
    <3>3. phaseBar' = phaseBar
      BY <3>1, <3>2 DEF phaseBar
    <3> QED
      BY <1>1, <2>1, <2>3, <3>3 DEF GetExists, Abs!vars
  <2> QED
    BY <1>1, <2>2, <2>3 DEF GetExists
<1>2. CASE GetLoad(p)
  <2>1. UNCHANGED <<curBar, key, arg>>
    BY <1>2, Register DEF GetLoad, disk
  <2>2. CASE IsHit(key[p], file[key[p]]) /\ Return(p, file[key[p]].report)
    <3>1. curBar[key[p]] = file[key[p]].report /\ curBar[key[p]] # None
      BY <2>2, <1>k, Register, GetAcceptsWhatSetWrites DEF RegisterOf, IsHit
    <3>2. Abs!GetHit(p)
      BY <1>2, <2>1, <2>2, <3>1 DEF GetLoad, Return, Abs!GetHit, Abs!Return
    <3> QED
      BY <3>2 DEF Abs!Next
  <2>3. CASE /\ IsStaleHash(key[p], file[key[p]])
             /\ Goto(p, "invalidate") /\ UNCHANGED result
    <3>1. curBar[key[p]] = None
      BY <2>3, <1>k, Register, DamageIsNoHit DEF RegisterOf
    <3>2. Abs!GetMiss(p)
      BY <1>2, <2>1, <2>3, <3>1 DEF GetLoad, Abs!GetMiss
    <3> QED
      BY <3>2 DEF Abs!Next
  <2>4. CASE Return(p, Raised) \/ Return(p, Miss)
    <3>1. Abs!Return(p, Raised) \/ Abs!Return(p, Miss)
      BY <2>4 DEF Return, Abs!Return
    <3>2. phaseBar[p] = "looking"
      BY <1>2 DEF GetLoad
    <3>3. Abs!GetMiss(p)
      BY <2>1, <3>1, <3>2 DEF Abs!GetMiss
    <3> QED
      BY <3>3 DEF Abs!Next
  <2> QED
    BY <1>2, <2>2, <2>3, <2>4 DEF GetLoad
<1>3. CASE GetInvalidate(p)
  <2>1. curBar' \in {curBar, [curBar EXCEPT ![key[p]] = None]}
    <3>1. CASE file' = file
      BY <3>1, Register
    <3>2. CASE file' = [file EXCEPT ![key[p]] = None]
      <4>1. curBar' = [curBar EXCEPT ![key[p]] = None]
        BY <3>2, <1>k, Register
      <4> QED
        BY <4>1
    <3> QED
      BY <1>3, <3>1, <3>2 DEF GetInvalidate
  <2>2. Abs!FinishMiss(p)
    BY <1>3, <2>1 DEF GetInvalidate, Return, Abs!FinishMiss, Abs!Return
  <2> QED
    BY <2>2 DEF Abs!Next
<1> QED
  BY <1>1, <1>2, <1>3 DEF Get

LEMMA RefinesSet ==
    ASSUME IInv, NEW p \in Procs, Set(p)
    PROVE  [Abs!Next]_(Abs!vars)
<1> USE Phases, PhaseValues DEF IInv, TypeOK, PCs
<1>k. key[p] \in Keys /\ arg[p] \in Reports
  OBVIOUS
\* Preparing the temporary file is invisible to the register.
<1>s. ASSUME NEW l \in {"write", "replace"}, pc[p] \in {"mkstemp", "write"},
             Goto(p, l), UNCHANGED <<file, key, arg, result>>
      PROVE  [Abs!Next]_(Abs!vars)
  <2>1. UNCHANGED curBar
    BY <1>s, Register
  <2>2. phaseBar' = [phaseBar EXCEPT ![p] = "setting"] /\ phaseBar[p] = "setting"
    BY <1>s
  <2>3. phaseBar' = phaseBar
    BY <2>2 DEF phaseBar
  <2> QED
    BY <1>s, <2>1, <2>3 DEF Abs!vars
\* So is giving up, except that the set can no longer take effect.
<1>f. ASSUME pc[p] \in {"mkstemp", "write", "replace"},
             \/ Return(p, Raised)
             \/ Goto(p, "failed") /\ UNCHANGED result,
             UNCHANGED <<file, key, arg>>
      PROVE  [Abs!Next]_(Abs!vars)
  <2>1. UNCHANGED curBar /\ phaseBar[p] = "setting"
    BY <1>f, Register
  <2>2. \/ Abs!Return(p, Raised)
        \/ phaseBar' = [phaseBar EXCEPT ![p] = "failed"] /\ UNCHANGED result
    BY <1>f DEF Return, Abs!Return
  <2>3. Abs!FailSet(p)
    BY <1>f, <2>1, <2>2 DEF Abs!FailSet
  <2> QED
    BY <2>3 DEF Abs!Next
<1>1. CASE SetMkstemp(p)
  BY <1>1, <1>s, <1>f DEF SetMkstemp
<1>2. CASE SetWrite(p)
  BY <1>2, <1>s, <1>f DEF SetWrite
<1>3. CASE SetReplace(p)
  <2>1. CASE /\ file' = [file EXCEPT ![key[p]] = temp[mine[p]]]
             /\ Goto(p, "stored")
    <3>1. file' = [file EXCEPT ![key[p]] = NewEntry(key[p], arg[p])]
      BY <1>3, <2>1 DEF SetReplace, Written
    <3>2. curBar' = [curBar EXCEPT ![key[p]] = arg[p]]
      BY <3>1, <1>k, Register
    <3>3. Abs!Put(p)
      BY <1>3, <2>1, <3>2 DEF SetReplace, Abs!Put
    <3> QED
      BY <3>3 DEF Abs!Next
  <2>2. CASE Goto(p, "failed") /\ UNCHANGED disk
    BY <1>3, <1>f, <2>2 DEF SetReplace, disk
  <2> QED
    BY <1>3, <2>1, <2>2 DEF SetReplace
<1>4. CASE SetFinally(p)
  <2>1. UNCHANGED curBar
    BY <1>4, Register DEF SetFinally
  <2>2. phaseBar[p] = pc[p]
    BY <1>4 DEF SetFinally
  <2>3. Abs!Return(p, IF pc[p] = "stored" THEN Stored ELSE Raised)
    BY <1>4 DEF SetFinally, Return, Abs!Return
  <2>4. Abs!EndSet(p)
    BY <1>4, <2>1, <2>2, <2>3 DEF SetFinally, Abs!EndSet
  <2> QED
    BY <2>4 DEF Abs!Next
<1> QED
  BY <1>1, <1>2, <1>3, <1>4 DEF Set

\* So is each beginning of a call, each crash and each edit.
LEMMA RefinesCall ==
    ASSUME IInv, NEW p \in Procs, NEW k \in Keys, NEW r \in Reports,
           CallGet(p, k) \/ CallSet(p, k, r) \/ Crash(p)
    PROVE  [Abs!Next]_(Abs!vars)
<1> USE Phases, PhaseValues DEF IInv, TypeOK, PCs
<1>0. UNCHANGED curBar
  BY Register DEF CallGet, CallSet, Crash, disk
<1>1. CASE CallGet(p, k)
  <2>1. Abs!BeginGet(p, k)
    BY <1>0, <1>1 DEF CallGet, Abs!BeginGet
  <2> QED
    BY <2>1 DEF Abs!Next
<1>2. CASE CallSet(p, k, r)
  <2>1. Abs!BeginSet(p, k, r)
    BY <1>0, <1>2 DEF CallSet, Abs!BeginSet
  <2> QED
    BY <2>1 DEF Abs!Next
<1>3. CASE Crash(p)
  <2>1. phaseBar[p] # "idle"
    BY <1>3 DEF Crash, PhaseOf
  <2>2. Abs!Crash(p)
    BY <1>0, <1>3, <2>1 DEF Crash, Return, Abs!Crash, Abs!Return
  <2> QED
    BY <2>2 DEF Abs!Next
<1> QED
  BY <1>1, <1>2, <1>3

LEMMA RefinesEdit ==
    ASSUME IInv, NEW k \in Keys, NEW c \in EditForms, Edit(k, c)
    PROVE  [Abs!Next]_(Abs!vars)
<1>1. curBar' = [curBar EXCEPT ![k] = None]
  BY Register DEF Edit, RegisterOf, IInv, TypeOK
<1>2. UNCHANGED phaseBar
  BY Phases DEF Edit
<1>3. Abs!Lose(k)
  BY <1>1, <1>2 DEF Edit, Abs!Lose
<1> QED
  BY <1>3 DEF Abs!Next

\* The cache directory behaves, to its callers, as the lossy register.
THEOREM CacheImplementsRegister == SafeSpec => ImplementsAbstractCache
<1>1. ASSUME IInv, [Next]_vars PROVE [Abs!Next]_(Abs!vars)
  <2>1. CASE UNCHANGED vars
    BY <2>1, Register, Phases DEF vars, Abs!vars
  <2>2. ASSUME NEW p \in Procs, NEW k \in Keys, CallGet(p, k)
        PROVE  [Abs!Next]_(Abs!vars)
    <3>1. arg[p] \in Reports
      BY <1>1 DEF IInv, TypeOK
    <3> QED
      BY <1>1, <2>2, <3>1, RefinesCall
  <2>3. ASSUME NEW p \in Procs, Crash(p) PROVE [Abs!Next]_(Abs!vars)
    <3>1. key[p] \in Keys /\ arg[p] \in Reports
      BY <1>1 DEF IInv, TypeOK
    <3> QED
      BY <1>1, <2>3, <3>1, RefinesCall
  <2> QED
    BY <1>1, <2>1, <2>2, <2>3, RefinesGet, RefinesSet, RefinesCall, RefinesEdit
       DEF Next
<1> QED
  BY RefinesInit, Invariance, <1>1, PTL
     DEF SafeSpec, ImplementsAbstractCache, Abs!Spec
=============================================================================
