--------------------------- MODULE AbstractCache ---------------------------
(***************************************************************************)
(* What QCReportCache promises its callers: one lossy register per key.    *)
(* A get answers with the report the key holds at one instant of the call, *)
(* misses or raises, and it may do either although the key holds a report: *)
(* a file that cannot be read is a miss.  A set takes effect at one        *)
(* instant or not at all; the environment may lose what a key holds, and   *)
(* so may a get that has found no report there.  No file, no temporary     *)
(* file and no intermediate state of either is visible at this level.      *)
(***************************************************************************)
CONSTANTS Procs,    \* the processes that share the cache directory
          Keys,     \* identity hashes
          Reports,  \* reports
          None,     \* no report
          Miss, Stored, Raised   \* the other ways a call ends

VARIABLES cur,      \* cur[k]: the report key k holds, or None
          phase,    \* phase[p]: where process p is in its call
          key,      \* key[p]: the key of p's current or last call
          arg,      \* arg[p]: the report p's current or last set stores
          result    \* result[p]: how p's last call ended

vars == <<cur, phase, key, arg, result>>

Phases == {"idle", "looking", "missing", "setting", "stored", "failed"}

Outcomes == Reports \cup {None, Miss, Stored, Raised}

TypeOK ==
    /\ cur \in [Keys -> Reports \cup {None}]
    /\ phase \in [Procs -> Phases]
    /\ key \in [Procs -> Keys]
    /\ arg \in [Procs -> Reports]
    /\ result \in [Procs -> Outcomes]

Init ==
    /\ cur = [k \in Keys |-> None]
    /\ phase = [p \in Procs |-> "idle"]
    /\ key \in [Procs -> Keys]
    /\ arg \in [Procs -> Reports]
    /\ result = [p \in Procs |-> None]

Return(p, r) ==
    /\ phase' = [phase EXCEPT ![p] = "idle"]
    /\ result' = [result EXCEPT ![p] = r]

BeginGet(p, k) ==
    /\ phase[p] = "idle"
    /\ phase' = [phase EXCEPT ![p] = "looking"]
    /\ key' = [key EXCEPT ![p] = k]
    /\ result' = [result EXCEPT ![p] = None]
    /\ UNCHANGED <<cur, arg>>

GetHit(p) ==
    /\ phase[p] = "looking"
    /\ cur[key[p]] # None
    /\ Return(p, cur[key[p]])
    /\ UNCHANGED <<cur, key, arg>>

\* Only a get that has seen its key hold no report goes on to clear it.
GetMiss(p) ==
    /\ phase[p] = "looking"
    /\ \/ Return(p, Miss)
       \/ Return(p, Raised)
       \/ /\ cur[key[p]] = None
          /\ phase' = [phase EXCEPT ![p] = "missing"]
          /\ UNCHANGED result
    /\ UNCHANGED <<cur, key, arg>>

\* A get that has already found nothing may clear the key as it returns,
\* including what a set stored there in the meantime.
FinishMiss(p) ==
    /\ phase[p] = "missing"
    /\ cur' \in {cur, [cur EXCEPT ![key[p]] = None]}
    /\ Return(p, Miss)
    /\ UNCHANGED <<key, arg>>

BeginSet(p, k, r) ==
    /\ phase[p] = "idle"
    /\ phase' = [phase EXCEPT ![p] = "setting"]
    /\ key' = [key EXCEPT ![p] = k]
    /\ arg' = [arg EXCEPT ![p] = r]
    /\ result' = [result EXCEPT ![p] = None]
    /\ UNCHANGED cur

Put(p) ==
    /\ phase[p] = "setting"
    /\ cur' = [cur EXCEPT ![key[p]] = arg[p]]
    /\ phase' = [phase EXCEPT ![p] = "stored"]
    /\ UNCHANGED <<key, arg, result>>

FailSet(p) ==
    /\ phase[p] = "setting"
    /\ \/ Return(p, Raised)
       \/ /\ phase' = [phase EXCEPT ![p] = "failed"]
          /\ UNCHANGED result
    /\ UNCHANGED <<cur, key, arg>>

EndSet(p) ==
    /\ \/ phase[p] = "stored" /\ Return(p, Stored)
       \/ phase[p] = "failed" /\ Return(p, Raised)
    /\ UNCHANGED <<cur, key, arg>>

Crash(p) ==
    /\ phase[p] # "idle"
    /\ Return(p, None)
    /\ UNCHANGED <<cur, key, arg>>

Lose(k) ==
    /\ cur' = [cur EXCEPT ![k] = None]
    /\ UNCHANGED <<phase, key, arg, result>>

Next ==
    \/ \E p \in Procs :
          \/ \E k \in Keys : BeginGet(p, k)
          \/ GetHit(p) \/ GetMiss(p) \/ FinishMiss(p)
          \/ \E k \in Keys, r \in Reports : BeginSet(p, k, r)
          \/ Put(p) \/ FailSet(p) \/ EndSet(p)
          \/ Crash(p)
    \/ \E k \in Keys : Lose(k)

Spec == Init /\ [][Next]_vars
=============================================================================
