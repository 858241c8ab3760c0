------------------------- MODULE ReportEngineProofs -------------------------
(***************************************************************************)
(* Theorems about ReportEngine for any number of processes, requests,      *)
(* files, ffmpeg versions and crashes.                                     *)
(***************************************************************************)
EXTENDS ReportEngine, TLAPS

(***************************************************************************)
(* The inductive invariant.                                                *)
(***************************************************************************)
Asking(p) == pc[p] \in {"asked", "hit"}
Measuring(p) == pc[p] \in {"measure", "storing", "new"}
Storing(p) == pc[p] = "storing" \/ (pc[p] = "new" /\ Reusing(req[p]))
Detected(p) == pc[p] \in {"start", "hash", "asked", "measure"}

\* What a process knows: fingerprints and readings of files it reads, none
\* before it takes any and all once they are needed.
HashesWell(p) ==
    /\ DOMAIN hashed[p] \subseteq Reads(req[p])
    /\ \A s \in DOMAIN hashed[p] : hashed[p][s] = None => MayBeMissing(req[p])
    /\ pc[p] \in {"idle", "detect", "start"} => hashed[p] = NoFiles
    /\ Asking(p) \/ Measuring(p) => DOMAIN hashed[p] = Reads(req[p])

SeesWell(p) ==
    /\ DOMAIN seen[p] \subseteq Reads(req[p])
    /\ ~Measuring(p) => seen[p] = NoFiles
    /\ pc[p] \in {"storing", "new"} => DOMAIN seen[p] = Reads(req[p])

\* Where the policy of a request can take it.
PolicyLeads(p) ==
    /\ Asking(p) => Reusing(req[p])
    /\ Measuring(p) => req[p].policy # "only"
    /\ pc[p] = "storing" => Reusing(req[p])
    /\ answer[p] = "new" => req[p].policy # "only"

\* Where the cache is while the request is where it is.
Called(p) ==
    /\ pc[p] \notin {"asked", "storing"} => phase[p] = "idle"
    /\ pc[p] = "asked" =>
          /\ phase[p] \in {"idle", "looking", "missing"}
          /\ phase[p] = "idle" => result[p] \in Reports \cup {Miss, Raised}
    /\ pc[p] = "storing" =>
          /\ phase[p] \in {"idle", "setting", "stored", "failed"}
          /\ phase[p] = "idle" => result[p] \in {Stored, Raised}
    /\ pc[p] = "hit" => result[p] \in Reports
    /\ pc[p] = "new" /\ Reusing(req[p]) => result[p] = Stored

\* What the cache was called with.
CalledWith(p) ==
    /\ Asking(p) => key[p] = KeyOf(p)
    /\ Storing(p) =>
          key[p] = KeyOf(p) /\ arg[p] = Measured(p)

\* What is known of some of the files.
Partial(X) == UNION {[S -> X] : S \in SUBSET Slots}

Variables ==
    /\ file \in [Paths -> Contents \cup {None}]
    /\ ffmpeg \in [version : Versions, vmaf : BOOLEAN]
    /\ pc \in [Procs -> {"idle", "detect", "start", "hash", "asked", "measure",
                         "storing", "hit", "new"}]
    /\ req \in [Procs -> Requests]
    /\ late \in [Procs -> BOOLEAN]
    /\ caps \in [Procs -> Capabilities]
    /\ hashed \in [Procs -> Partial(Contents \cup {None})]
    /\ seen \in [Procs -> Partial(Readings)]
    /\ built \in [Procs -> Versions \cup {None}]
    /\ disturbed \in [Procs -> BOOLEAN]
    /\ answer \in [Procs -> {"none", "error", "TIMEOUT", "hit", "new"}]
    /\ losses \in Nat
    /\ Cache!TypeOK

\* What is true of one process, whatever the others do.
Local(p) ==
    HashesWell(p) /\ SeesWell(p) /\ PolicyLeads(p) /\ Called(p) /\ CalledWith(p)

EngineInv == Variables /\ \A p \in Procs : Local(p)

\* What a request has measured is what it fingerprinted, and what it is still
\* to measure, the files and ffmpeg, is as it found it.
Steady(p) ==
    /\ \A s \in DOMAIN hashed[p] \ DOMAIN seen[p] :
          hashed[p][s] # None => hashed[p][s] = file[req[p].paths[s]]
    /\ \A s \in DOMAIN seen[p] : seen[p][s].content = hashed[p][s]
    /\ Detected(p) => caps[p].version \in {None, ffmpeg.version}
    /\ seen[p] # NoFiles => built[p] = caps[p].version

\* So it is, unless something changed under the request.
Found(p) == disturbed[p] = FALSE => Steady(p)

\* A report says of its facts what the identity it is stored under says.
Honest(r) ==
    \A q \in Requests : q.kind = r.identity.kind =>
        /\ r.facts.kind = r.identity.kind
        /\ r.facts.operation = r.identity.operation
        /\ r.facts.metrics = r.identity.metrics
        /\ r.facts.version = r.identity.version
        /\ ContentsOf(r, q) = r.identity.assets

\* Only a report of a disturbed run may say something else.
Accounted(r) == r \in mixed \/ Honest(r)

HonestEntry(k) == cur[k] # None => cur[k].identity = k /\ Accounted(cur[k])

HonestCall(p) ==
    /\ phase[p] = "setting" => arg[p].identity = key[p] /\ Accounted(arg[p])
    /\ Asking(p) /\ phase[p] = "idle" /\ result[p] \in Reports =>
          result[p].identity = key[p] /\ Accounted(result[p])

HonestCache ==
    (\A k \in Keys : HonestEntry(k)) /\ (\A p \in Procs : HonestCall(p))

StableInv == EngineInv /\ (\A p \in Procs : Found(p)) /\ HonestCache

\* A process alone with the cache finds there what it has stored.
KeptAlone ==
    /\ crashes \in Nat
    /\ \A p \in Procs :
          /\ Alone(p) /\ Storing(p)
          /\ phase[p] = "stored" \/ (phase[p] = "idle" /\ result[p] = Stored)
          => cur[key[p]] = arg[p]

----------------------------------------------------------------------------
(* Lemmas about what the state is made of. *)

LEMMA PartialFacts ==
    ASSUME NEW X, NEW f \in Partial(X)
    PROVE  /\ DOMAIN f \subseteq Slots
           /\ f \in [DOMAIN f -> X]
           /\ \A s \in Slots, c \in X : With(f, s, c) \in Partial(X)
           /\ \A s, c : DOMAIN With(f, s, c) = DOMAIN f \cup {s}
           /\ \A s, c, t : t \in DOMAIN f \cup {s} =>
                 With(f, s, c)[t] = IF t = s THEN c ELSE f[t]
<1>1. PICK S \in SUBSET Slots : f \in [S -> X]
  BY DEF Partial
<1>2. ASSUME NEW s \in Slots, NEW c \in X PROVE With(f, s, c) \in Partial(X)
  <2>1. With(f, s, c) \in [S \cup {s} -> X]
    BY <1>1 DEF With
  <2> QED
    BY <2>1 DEF Partial
<1> QED
  BY <1>1, <1>2 DEF With

LEMMA NoFilesFacts ==
    /\ \A X : NoFiles \in Partial(X)
    /\ DOMAIN NoFiles = {}
    /\ \A f : DOMAIN f = {} /\ f = [s \in DOMAIN f |-> f[s]] => f = NoFiles
<1>1. ASSUME NEW X PROVE NoFiles \in Partial(X)
  <2>1. NoFiles \in [{} -> X] /\ {} \in SUBSET Slots
    BY DEF NoFiles
  <2> QED
    BY <2>1 DEF Partial
<1> QED
  BY <1>1 DEF NoFiles

LEMMA ReadsFacts ==
    ASSUME NEW q \in Requests
    PROVE  /\ Reads(q) \subseteq Slots
           /\ 1 \in Reads(q)
           /\ \A s \in Reads(q) : q.paths[s] \in Paths
BY RequestAssumption DEF Reads, Slots, Kinds

LEMMA RequestFacts ==
    ASSUME NEW q \in Requests
    PROVE  /\ q.kind \in Kinds /\ q.operation \in Operations /\ q.metrics \in BOOLEAN
           /\ q.policy \in {"use", "bypass", "only"} /\ q.cached \in BOOLEAN
BY RequestAssumption

\* The key of a request whose fingerprints are all known is one of the cache's.
LEMMA KeyIsKey ==
    ASSUME NEW q \in Requests, NEW h \in Partial(Contents \cup {None}),
           NEW v \in Versions \cup {None},
           DOMAIN h = Reads(q), \A s \in DOMAIN h : h[s] = None => MayBeMissing(q)
    PROVE  Identity(q, h, v) \in Keys
<1>1. h \in Hashes(q)
  BY PartialFacts DEF Hashes
<1> QED
  BY <1>1 DEF Keys

LEMMA ReadingIsReading ==
    ASSUME NEW q \in Requests, NEW s \in Reads(q), NEW c \in Contents \cup {None}
    PROVE  /\ Reading(q, s, c) \in Readings
           /\ Reading(q, s, c).content = c
BY ReadsFacts, FileAssumption DEF Reading, Readings, Extension

LEMMA ReportIsReport ==
    ASSUME NEW q \in Requests, NEW k \in Keys, NEW f \in Partial(Readings),
           NEW v \in Versions \cup {None}, NEW c \in Capabilities
    PROVE  [identity |-> k, facts |-> Facts(q, f, v, c)] \in Reports
<1>1. Vmaf(q, c) \in BOOLEAN
  BY RequestFacts DEF Vmaf, Capabilities
<1> QED
  BY <1>1, RequestFacts DEF Facts, Reports, Partial

\* What capability detection may find out about the build that is installed.
LEMMA DetectedFacts ==
    ASSUME NEW f \in [version : Versions, vmaf : BOOLEAN],
           NEW c \in {f, [f EXCEPT !.vmaf = FALSE], NoCapabilities}
    PROVE  c \in Capabilities /\ c.version \in {None, f.version}
<1>1. CASE c = f
  BY <1>1 DEF Capabilities
<1>2. CASE c = [f EXCEPT !.vmaf = FALSE]
  BY <1>2 DEF Capabilities
<1>3. CASE c = NoCapabilities
  BY <1>3 DEF Capabilities, NoCapabilities
<1> QED
  BY <1>1, <1>2, <1>3

LEMMA AnyReportIsReport == AnyReport \in Reports /\ AnyReport.identity \in Keys
<1> DEFINE q == CHOOSE q \in Requests : TRUE
           h == CHOOSE h \in Hashes(q) : TRUE
           r == [s \in Reads(q) |-> Reading(q, s, h[s])]
<1>1. q \in Requests
  BY RequestAssumption
<1>2. h \in Hashes(q)
  <2>1. PICK c \in Contents : TRUE
    BY FileAssumption
  <2>2. [s \in Reads(q) |-> c] \in Hashes(q)
    BY <2>1 DEF Hashes
  <2> QED
    BY <2>2
<1>3. Identity(q, h, None) \in Keys
  <2> HIDE DEF q, h
  <2> QED
    BY <1>1, <1>2 DEF Keys
<1>4. r \in Partial(Readings)
  <2>1. \A s \in Reads(q) : h[s] \in Contents \cup {None}
    BY <1>2 DEF Hashes
  <2>2. \A s \in Reads(q) : Reading(q, s, h[s]) \in Readings
    BY <1>1, <2>1, ReadingIsReading
  <2>3. r \in [Reads(q) -> Readings] /\ Reads(q) \in SUBSET Slots
    BY <1>1, <2>2, ReadsFacts
  <2> QED
    BY <2>3 DEF Partial
<1>5. [version |-> None, vmaf |-> FALSE] \in Capabilities
  BY DEF Capabilities
<1>6. AnyReport = [identity |-> Identity(q, h, None),
                   facts |-> Facts(q, r, None, [version |-> None, vmaf |-> FALSE])]
  BY DEF AnyReport
<1> HIDE DEF q, h, r
<1> QED
  BY <1>1, <1>3, <1>4, <1>5, <1>6, ReportIsReport

----------------------------------------------------------------------------
(* A step of one process: the types stay, what is true of the process      *)
(* stays true, and the others do not see it.                               *)

SameRun(q) ==
    /\ pc'[q] = pc[q] /\ req'[q] = req[q] /\ caps'[q] = caps[q] /\ hashed'[q] = hashed[q]
    /\ seen'[q] = seen[q] /\ built'[q] = built[q] /\ answer'[q] = answer[q]

SameCall(q) ==
    /\ phase'[q] = phase[q] /\ key'[q] = key[q]
    /\ arg'[q] = arg[q] /\ result'[q] = result[q]

Same(q) == SameRun(q) /\ SameCall(q)

Keeps(p) ==
    /\ Variables' /\ Local(p)'
    /\ \A q \in Procs \ {p} : Same(q)

LEMMA SameIsLocal ==
    ASSUME NEW q \in Procs, Local(q), Same(q)
    PROVE  Local(q)'
<1> USE DEF Local, Same, SameRun, SameCall, Asking, Measuring, Storing
<1>1. HashesWell(q)' /\ SeesWell(q)' /\ PolicyLeads(q)'
  BY DEF HashesWell, SeesWell, PolicyLeads
<1>2. Called(q)'
  BY DEF Called
<1>3. KeyOf(q)' = KeyOf(q) /\ Measured(q)' = Measured(q)
  BY DEF KeyOf, Measured
<1>4. CalledWith(q)'
  BY <1>3 DEF CalledWith
<1> QED
  BY <1>1, <1>2, <1>4

LEMMA KeepsIsEnough ==
    ASSUME EngineInv, NEW p \in Procs, Keeps(p)
    PROVE  EngineInv'
BY SameIsLocal DEF EngineInv, Keeps

\* A process that ends, with the cache not busy for it any more.
LEMMA FinishKeeps ==
    ASSUME EngineInv, NEW p \in Procs, NEW a \in {"none", "error", "TIMEOUT", "hit", "new"},
           Finish(p, a), a = "new" => req[p].policy # "only",
           UNCHANGED <<file, ffmpeg, losses, req>>,
           Cache!TypeOK', phase'[p] = "idle", \A q \in Procs \ {p} : SameCall(q)
    PROVE  Keeps(p)
<1> USE DEF EngineInv, Variables, Finish, Goto
<1>1. Variables'
  <2>1. NoCapabilities \in Capabilities
    BY DEF NoCapabilities, Capabilities
  <2> QED
    BY <2>1, NoFilesFacts
<1>2. /\ pc'[p] = "idle" /\ hashed'[p] = NoFiles /\ seen'[p] = NoFiles /\ answer'[p] = a
      /\ req'[p] = req[p]
  OBVIOUS
<1>3. Local(p)'
  <2>1. HashesWell(p)' /\ SeesWell(p)'
    BY <1>2, NoFilesFacts DEF HashesWell, SeesWell, Asking, Measuring
  <2> QED
    BY <1>2, <2>1 DEF Local, PolicyLeads, Called, CalledWith, Asking, Measuring, Storing
<1>4. \A q \in Procs \ {p} : Same(q)
  BY DEF Same, SameRun
<1> QED
  BY <1>1, <1>3, <1>4 DEF Keeps

\* One that goes on and leaves the cache alone.
LEMMA CacheAlone ==
    ASSUME EngineInv, UNCHANGED cache
    PROVE  Cache!TypeOK' /\ \A q \in Procs : SameCall(q)
BY DEF EngineInv, Variables, cache, Cache!TypeOK, Cache!Outcomes, SameCall

LEMMA RunKeeps ==
    ASSUME EngineInv, NEW p \in Procs, NEW q \in Requests, Run(p, q)
    PROVE  Keeps(p)
<1> USE DEF EngineInv, Variables, Run, Goto, env, known
<1>1. Variables'
  BY CacheAlone
<1>2. Local(p)'
  <2>1. /\ pc[p] = "idle" /\ pc'[p] = "detect" /\ hashed'[p] = NoFiles /\ seen'[p] = NoFiles
        /\ answer'[p] = "none" /\ phase[p] = "idle" /\ SameCall(p)
    BY CacheAlone DEF Local, HashesWell, SeesWell, Called, Measuring
  <2>2. HashesWell(p)' /\ SeesWell(p)'
    BY <2>1, NoFilesFacts DEF HashesWell, SeesWell, Asking, Measuring
  <2> QED
    BY <2>1, <2>2 DEF Local, PolicyLeads, Called, CalledWith, Asking, Measuring, Storing,
       SameCall
<1>3. \A r \in Procs \ {p} : Same(r)
  BY CacheAlone DEF Same, SameRun
<1> QED
  BY <1>1, <1>2, <1>3 DEF Keeps

LEMMA DetectKeeps ==
    ASSUME EngineInv, NEW p \in Procs, Detect(p)
    PROVE  Keeps(p)
<1> USE DEF EngineInv, Variables
<1>0. SameCall(p) /\ Cache!TypeOK' /\ \A q \in Procs : SameCall(q)
  BY CacheAlone DEF Detect
<1>1. ASSUME NEW c \in {ffmpeg, [ffmpeg EXCEPT !.vmaf = FALSE], NoCapabilities},
             caps' = [caps EXCEPT ![p] = c], Goto(p, "start"),
             UNCHANGED <<answer, late, hashed, seen, built, disturbed>>
      PROVE  Keeps(p)
  <2> USE <1>1 DEF Detect, Goto, env
  <2>1. c \in Capabilities
    <3> HIDE <1>1
    <3> QED
      BY DetectedFacts
  <2>2. Variables'
    BY <1>0, <2>1
  <2>3. /\ pc[p] = "detect" /\ pc'[p] = "start" /\ hashed'[p] = NoFiles
        /\ seen'[p] = NoFiles /\ phase[p] = "idle"
    BY DEF Local, HashesWell, SeesWell, Called, Measuring
  <2>4. HashesWell(p)' /\ SeesWell(p)'
    BY <2>3, NoFilesFacts DEF HashesWell, SeesWell, Asking, Measuring
  <2>5. Local(p)'
    BY <1>0, <2>3, <2>4
       DEF Local, PolicyLeads, Called, CalledWith, Asking, Measuring, Storing, SameCall
  <2>6. \A r \in Procs \ {p} : Same(r)
    BY <1>0 DEF Same, SameRun
  <2> QED
    BY <2>2, <2>5, <2>6 DEF Keeps
<1>2. CASE Finish(p, IF late[p] THEN "TIMEOUT" ELSE "error")
  <2>1. phase'[p] = "idle"
    BY <1>0 DEF Detect, Local, Called, SameCall
  <2> QED
    BY <1>0, <1>2, <2>1, FinishKeeps DEF Detect, env
<1> QED
  BY <1>1, <1>2 DEF Detect

\* A step that only moves on, to where the request may be by now.
LEMMA ProceedKeeps ==
    ASSUME EngineInv, NEW p \in Procs,
           NEW l \in {"hash", "asked", "measure", "storing", "hit", "new"}, Proceed(p, l),
           UNCHANGED <<file, ffmpeg, losses, req>>,
           Cache!TypeOK', \A q \in Procs \ {p} : SameCall(q),
           HashesWell(p)', SeesWell(p)', PolicyLeads(p)', Called(p)', CalledWith(p)'
    PROVE  Keeps(p)
<1>1. Variables'
  BY DEF EngineInv, Variables, Proceed, Goto, known
<1>2. \A r \in Procs \ {p} : Same(r)
  BY DEF EngineInv, Variables, Proceed, Goto, known, Same, SameRun
<1> QED
  BY <1>1, <1>2 DEF Keeps, Local

\* What a step that only moves on leaves as it was.
LEMMA ProceedFacts ==
    ASSUME EngineInv, NEW p \in Procs, NEW l, Proceed(p, l), UNCHANGED req
    PROVE  /\ pc'[p] = l /\ req'[p] = req[p] /\ answer'[p] = answer[p]
           /\ hashed'[p] = hashed[p] /\ seen'[p] = seen[p]
           /\ KeyOf(p)' = KeyOf(p) /\ Measured(p)' = Measured(p)
BY DEF EngineInv, Variables, Proceed, Goto, known, KeyOf, Measured

LEMMA StartKeeps ==
    ASSUME EngineInv, NEW p \in Procs, Start(p)
    PROVE  Keeps(p)
<1>0. pc[p] = "start" /\ UNCHANGED <<file, ffmpeg, losses, req, cache>>
  BY DEF Start, env
<1>1. /\ hashed[p] = NoFiles /\ seen[p] = NoFiles /\ phase[p] = "idle"
      /\ answer[p] = "new" => req[p].policy # "only"
  BY <1>0 DEF EngineInv, Local, HashesWell, SeesWell, Called, Measuring, PolicyLeads
<1>2. Cache!TypeOK' /\ \A q \in Procs : SameCall(q)
  BY <1>0, CacheAlone
<1>3. phase'[p] = "idle"
  BY <1>1, <1>2 DEF SameCall
<1>4. CASE Proceed(p, "hash")
  <2> USE <1>4
  <2>1. /\ pc'[p] = "hash" /\ req'[p] = req[p] /\ answer'[p] = answer[p]
        /\ hashed'[p] = NoFiles /\ seen'[p] = NoFiles
    BY <1>0, <1>1, ProceedFacts
  <2>2. HashesWell(p)' /\ SeesWell(p)'
    BY <2>1, NoFilesFacts DEF HashesWell, SeesWell, Asking, Measuring
  <2>3. PolicyLeads(p)' /\ Called(p)' /\ CalledWith(p)'
    BY <1>1, <1>3, <2>1 DEF PolicyLeads, Called, CalledWith, Asking, Measuring, Storing
  <2> QED
    BY <1>0, <1>2, <2>2, <2>3, ProceedKeeps
<1>5. ASSUME NEW a \in {"TIMEOUT", "error"}, Finish(p, a) PROVE Keeps(p)
  BY <1>0, <1>2, <1>3, <1>5, FinishKeeps
<1> QED
  BY <1>4, <1>5 DEF Start

LEMMA HashKeeps ==
    ASSUME EngineInv, NEW p \in Procs, Hash(p)
    PROVE  Keeps(p)
<1>0. pc[p] = "hash" /\ UNCHANGED <<file, ffmpeg, losses, req, cache>>
  BY DEF Hash, env
<1>1. phase[p] = "idle" /\ HashesWell(p) /\ SeesWell(p) /\ PolicyLeads(p)
  BY <1>0 DEF EngineInv, Local, Called
<1>2. Cache!TypeOK' /\ \A q \in Procs : SameCall(q)
  BY <1>0, CacheAlone
<1>3. phase'[p] = "idle"
  BY <1>1, <1>2 DEF SameCall
<1>4. PICK s \in Slots :
          /\ IsNext(HashOrder, req[p], hashed[p], s)
          /\ LET c == file[req[p].paths[s]] IN
             \/ /\ c # None \/ MayBeMissing(req[p])
                /\ hashed' = [hashed EXCEPT ![p] = With(@, s, c)]
                /\ UNCHANGED <<pc, answer, late, caps, seen, built, disturbed>>
             \/ Finish(p, "error")
  BY DEF Hash
<1>5. CASE Finish(p, "error")
  BY <1>0, <1>2, <1>3, <1>5, FinishKeeps
<1>6. ASSUME NEW c, c = file[req[p].paths[s]], c # None \/ MayBeMissing(req[p]),
             hashed' = [hashed EXCEPT ![p] = With(@, s, c)],
             UNCHANGED <<pc, answer, late, caps, seen, built, disturbed>>
      PROVE  Keeps(p)
  <2> USE <1>6
  <2>1. s \in Reads(req[p]) /\ req[p] \in Requests
    BY <1>4 DEF IsNext, EngineInv, Variables
  <2>2. c \in Contents \cup {None}
    BY <2>1, ReadsFacts DEF EngineInv, Variables
  <2>3. hashed[p] \in Partial(Contents \cup {None})
    BY DEF EngineInv, Variables
  <2>4. hashed'[p] = With(hashed[p], s, c)
    BY DEF EngineInv, Variables
  <2>5. hashed'[p] \in Partial(Contents \cup {None})
    BY <2>2, <2>3, <2>4, PartialFacts
  <2>6. Variables'
    BY <1>0, <1>2, <2>4, <2>5 DEF EngineInv, Variables
  <2>7. HashesWell(p)'
    <3>1. /\ DOMAIN hashed'[p] = DOMAIN hashed[p] \cup {s}
          /\ \A t \in DOMAIN hashed[p] \cup {s} :
                hashed'[p][t] = IF t = s THEN c ELSE hashed[p][t]
      BY <2>4 DEF With
    <3> QED
      BY <1>0, <1>1, <2>1, <3>1 DEF HashesWell, Asking, Measuring
  <2>8. SeesWell(p)' /\ PolicyLeads(p)' /\ Called(p)' /\ CalledWith(p)'
    BY <1>0, <1>1, <1>3
       DEF SeesWell, PolicyLeads, Called, CalledWith, Asking, Measuring, Storing
  <2>9. \A r \in Procs \ {p} : Same(r)
    BY <1>0, <1>2 DEF Same, SameRun, EngineInv, Variables
  <2> QED
    BY <2>6, <2>7, <2>8, <2>9 DEF Keeps, Local
<1> QED
  BY <1>4, <1>5, <1>6

\* What a call of the cache does to its variables, as the request sees it.
LEMMA BeginGetFacts ==
    ASSUME EngineInv, NEW p \in Procs, NEW k \in Keys, Cache!BeginGet(p, k)
    PROVE  /\ Cache!TypeOK' /\ UNCHANGED cur
           /\ phase[p] = "idle" /\ phase'[p] = "looking" /\ key'[p] = k /\ arg'[p] = arg[p]
           /\ \A q \in Procs \ {p} : SameCall(q)
BY DEF EngineInv, Variables, Cache!TypeOK, Cache!Outcomes, Cache!Phases, Cache!BeginGet, SameCall

LEMMA BeginSetFacts ==
    ASSUME EngineInv, NEW p \in Procs, NEW k \in Keys, NEW r \in Reports, Cache!BeginSet(p, k, r)
    PROVE  /\ Cache!TypeOK' /\ UNCHANGED cur
           /\ phase[p] = "idle" /\ phase'[p] = "setting" /\ key'[p] = k /\ arg'[p] = r
           /\ \A q \in Procs \ {p} : SameCall(q)
BY DEF EngineInv, Variables, Cache!TypeOK, Cache!Outcomes, Cache!Phases, Cache!BeginSet, SameCall

LEMMA LookupKeeps ==
    ASSUME EngineInv, NEW p \in Procs, Lookup(p)
    PROVE  Keeps(p)
<1>0. /\ pc[p] = "hash" /\ UNCHANGED <<file, ffmpeg, losses, req>>
      /\ DOMAIN hashed[p] = Reads(req[p])
  BY DEF Lookup, env
<1>1. phase[p] = "idle" /\ HashesWell(p) /\ SeesWell(p) /\ PolicyLeads(p)
  BY <1>0 DEF EngineInv, Local, Called
<1>2. KeyOf(p) \in Keys
  BY <1>0, <1>1, KeyIsKey DEF EngineInv, Variables, Capabilities, HashesWell, KeyOf
<1>3. CASE Reusing(req[p]) /\ Cache!BeginGet(p, KeyOf(p)) /\ Proceed(p, "asked")
  <2> USE <1>3
  <2>1. /\ pc'[p] = "asked" /\ req'[p] = req[p] /\ answer'[p] = answer[p]
        /\ hashed'[p] = hashed[p] /\ seen'[p] = seen[p] /\ KeyOf(p)' = KeyOf(p)
    BY <1>0, ProceedFacts
  <2>2. /\ Cache!TypeOK' /\ phase'[p] = "looking" /\ key'[p] = KeyOf(p)
        /\ \A q \in Procs \ {p} : SameCall(q)
    BY <1>2, BeginGetFacts
  <2>3. HashesWell(p)' /\ SeesWell(p)'
    BY <1>0, <1>1, <2>1 DEF HashesWell, SeesWell, Asking, Measuring
  <2>4. PolicyLeads(p)' /\ Called(p)' /\ CalledWith(p)'
    BY <1>1, <2>1, <2>2 DEF PolicyLeads, Called, CalledWith, Asking, Measuring, Storing
  <2> QED
    BY <1>0, <2>2, <2>3, <2>4, ProceedKeeps
<1>4. CASE /\ ~Reusing(req[p]) /\ UNCHANGED cache
           /\ IF req[p].policy = "only" THEN Finish(p, "error") ELSE Proceed(p, "measure")
  <2>1. Cache!TypeOK' /\ \A q \in Procs : SameCall(q)
    BY <1>4, CacheAlone
  <2>2. phase'[p] = "idle"
    BY <1>1, <2>1 DEF SameCall
  <2>3. CASE req[p].policy = "only"
    BY <1>0, <1>4, <2>1, <2>2, <2>3, FinishKeeps
  <2>4. CASE req[p].policy # "only" /\ Proceed(p, "measure")
    <3>1. /\ pc'[p] = "measure" /\ req'[p] = req[p] /\ answer'[p] = answer[p]
          /\ hashed'[p] = hashed[p] /\ seen'[p] = seen[p]
      BY <1>0, <2>4, ProceedFacts
    <3>2. HashesWell(p)' /\ SeesWell(p)'
      BY <1>0, <1>1, <3>1 DEF HashesWell, SeesWell, Asking, Measuring
    <3>3. PolicyLeads(p)' /\ Called(p)' /\ CalledWith(p)'
      BY <1>1, <2>2, <2>4, <3>1 DEF PolicyLeads, Called, CalledWith, Asking, Measuring, Storing
    <3> QED
      BY <1>0, <2>1, <2>4, <3>2, <3>3, ProceedKeeps
  <2> QED
    BY <1>4, <2>3, <2>4
<1> QED
  BY <1>3, <1>4 DEF Lookup

LEMMA AfterGetKeeps ==
    ASSUME EngineInv, NEW p \in Procs, AfterGet(p)
    PROVE  Keeps(p)
<1>0. /\ pc[p] = "asked" /\ phase[p] = "idle"
      /\ UNCHANGED <<file, ffmpeg, losses, req, cache>>
  BY DEF AfterGet, env
<1>1. /\ HashesWell(p) /\ SeesWell(p) /\ PolicyLeads(p)
      /\ result[p] \in Reports \cup {Miss, Raised} /\ Reusing(req[p]) /\ key[p] = KeyOf(p)
  BY <1>0 DEF EngineInv, Local, Called, PolicyLeads, CalledWith, Asking
<1>2. Cache!TypeOK' /\ \A q \in Procs : SameCall(q)
  BY <1>0, CacheAlone
<1>3. phase'[p] = "idle" /\ result'[p] = result[p] /\ key'[p] = key[p]
  BY <1>0, <1>2 DEF SameCall
<1>4. CASE Finish(p, "error")
  BY <1>0, <1>2, <1>3, <1>4, FinishKeeps
<1>5. ASSUME NEW l \in {"hit", "measure"}, Proceed(p, l),
             l = "hit" => result[p] \notin {Miss, Raised},
             l = "measure" => req[p].policy # "only"
      PROVE  Keeps(p)
  <2>1. /\ pc'[p] = l /\ req'[p] = req[p] /\ answer'[p] = answer[p]
        /\ hashed'[p] = hashed[p] /\ seen'[p] = seen[p] /\ KeyOf(p)' = KeyOf(p)
    BY <1>0, <1>5, ProceedFacts
  <2>2. HashesWell(p)' /\ SeesWell(p)'
    BY <1>0, <1>1, <1>5, <2>1 DEF HashesWell, SeesWell, Asking, Measuring
  <2>3. PolicyLeads(p)' /\ Called(p)' /\ CalledWith(p)'
    BY <1>1, <1>3, <1>5, <2>1
       DEF PolicyLeads, Called, CalledWith, Asking, Measuring, Storing
  <2> QED
    BY <1>0, <1>2, <1>5, <2>2, <2>3, ProceedKeeps
<1> QED
  BY <1>4, <1>5 DEF AfterGet

LEMMA MeasureKeeps ==
    ASSUME EngineInv, NEW p \in Procs, Measure(p)
    PROVE  Keeps(p)
<1>0. pc[p] = "measure" /\ UNCHANGED <<file, ffmpeg, losses, req, cache>>
  BY DEF Measure, env
<1>1. phase[p] = "idle" /\ HashesWell(p) /\ SeesWell(p) /\ PolicyLeads(p)
  BY <1>0 DEF EngineInv, Local, Called
<1>2. Cache!TypeOK' /\ \A q \in Procs : SameCall(q)
  BY <1>0, CacheAlone
<1>3. phase'[p] = "idle"
  BY <1>1, <1>2 DEF SameCall
<1>4. ASSUME NEW a \in {"TIMEOUT", "error"}, Finish(p, a) PROVE Keeps(p)
  BY <1>0, <1>2, <1>3, <1>4, FinishKeeps
<1>5. ASSUME NEW s \in Reads(req[p]), NEW c \in {None, file[req[p].paths[s]]},
             seen' = [seen EXCEPT ![p] = With(@, s, Reading(req[p], s, c))],
             built' = [built EXCEPT ![p] = IF caps[p].version = None THEN None ELSE ffmpeg.version],
             UNCHANGED <<pc, answer, late, caps, hashed, disturbed>>
      PROVE  Keeps(p)
  <2> DEFINE r == Reading(req[p], s, c)
  <2>1. req[p] \in Requests /\ s \in Slots
    BY ReadsFacts DEF EngineInv, Variables
  <2>2. c \in Contents \cup {None}
    BY <2>1, ReadsFacts DEF EngineInv, Variables
  <2>3. r \in Readings
    BY <2>1, <2>2, ReadingIsReading
  <2>4. seen[p] \in Partial(Readings) /\ seen'[p] = With(seen[p], s, r)
    BY <1>5 DEF EngineInv, Variables
  <2> HIDE DEF r
  <2>5. seen'[p] \in Partial(Readings) /\ DOMAIN seen'[p] = DOMAIN seen[p] \cup {s}
    <3>1. With(seen[p], s, r) \in Partial(Readings)
      BY <2>1, <2>3, <2>4, PartialFacts
    <3> QED
      BY <2>4, <3>1 DEF With
  <2>6. (IF caps[p].version = None THEN None ELSE ffmpeg.version) \in Versions \cup {None}
    BY DEF EngineInv, Variables
  <2>7. Variables'
    BY <1>0, <1>2, <1>5, <2>5, <2>6 DEF EngineInv, Variables
  <2>8. HashesWell(p)' /\ SeesWell(p)'
    BY <1>0, <1>1, <1>5, <2>5 DEF HashesWell, SeesWell, Asking, Measuring
  <2>9. PolicyLeads(p)' /\ Called(p)' /\ CalledWith(p)'
    BY <1>0, <1>1, <1>3, <1>5
       DEF PolicyLeads, Called, CalledWith, Asking, Measuring, Storing
  <2>10. \A q \in Procs \ {p} : Same(q)
    BY <1>0, <1>2, <1>5 DEF Same, SameRun, EngineInv, Variables
  <2> QED
    BY <2>7, <2>8, <2>9, <2>10 DEF Keeps, Local
<1> QED
  BY <1>4, <1>5 DEF Measure

LEMMA StoreKeeps ==
    ASSUME EngineInv, NEW p \in Procs, Store(p)
    PROVE  Keeps(p)
<1>0. /\ pc[p] = "measure" /\ UNCHANGED <<file, ffmpeg, losses, req>>
      /\ DOMAIN seen[p] = Reads(req[p])
  BY DEF Store, env
<1>1. phase[p] = "idle" /\ HashesWell(p) /\ SeesWell(p) /\ PolicyLeads(p)
  BY <1>0 DEF EngineInv, Local, Called
<1>2. KeyOf(p) \in Keys
  BY <1>0, <1>1, KeyIsKey DEF EngineInv, Variables, Capabilities, HashesWell, KeyOf, Measuring
<1>3. Measured(p) \in Reports
  BY <1>2, ReportIsReport DEF EngineInv, Variables, Measured
<1>4. CASE /\ req[p].cached /\ req[p].policy = "use"
           /\ Cache!BeginSet(p, KeyOf(p), Measured(p)) /\ Proceed(p, "storing")
  <2> USE <1>4
  <2>1. /\ pc'[p] = "storing" /\ req'[p] = req[p] /\ answer'[p] = answer[p]
        /\ hashed'[p] = hashed[p] /\ seen'[p] = seen[p]
        /\ KeyOf(p)' = KeyOf(p) /\ Measured(p)' = Measured(p)
    BY <1>0, ProceedFacts
  <2>2. /\ Cache!TypeOK' /\ phase'[p] = "setting"
        /\ key'[p] = KeyOf(p) /\ arg'[p] = Measured(p)
        /\ \A q \in Procs \ {p} : SameCall(q)
    BY <1>2, <1>3, BeginSetFacts
  <2>3. HashesWell(p)' /\ SeesWell(p)'
    BY <1>0, <1>1, <2>1 DEF HashesWell, SeesWell, Asking, Measuring
  <2>4. PolicyLeads(p)' /\ Called(p)' /\ CalledWith(p)'
    BY <1>1, <2>1, <2>2
       DEF PolicyLeads, Called, CalledWith, Asking, Measuring, Storing, Reusing
  <2> QED
    BY <1>0, <2>2, <2>3, <2>4, ProceedKeeps
<1>5. CASE ~(req[p].cached /\ req[p].policy = "use") /\ UNCHANGED cache /\ Proceed(p, "new")
  <2>1. Cache!TypeOK' /\ \A q \in Procs : SameCall(q)
    BY <1>5, CacheAlone
  <2>2. phase'[p] = "idle"
    BY <1>1, <2>1 DEF SameCall
  <2>3. /\ pc'[p] = "new" /\ req'[p] = req[p] /\ answer'[p] = answer[p]
        /\ hashed'[p] = hashed[p] /\ seen'[p] = seen[p]
    BY <1>0, <1>5, ProceedFacts
  <2>4. HashesWell(p)' /\ SeesWell(p)'
    BY <1>0, <1>1, <2>3 DEF HashesWell, SeesWell, Asking, Measuring
  <2>5. ~Reusing(req[p]) /\ req[p].policy # "only"
    BY <1>0, <1>1, <1>5 DEF PolicyLeads, Measuring, Reusing
  <2>6. PolicyLeads(p)' /\ Called(p)' /\ CalledWith(p)'
    BY <1>1, <2>2, <2>3, <2>5 DEF PolicyLeads, Called, CalledWith, Asking, Measuring, Storing
  <2> QED
    BY <1>0, <1>5, <2>1, <2>4, <2>6, ProceedKeeps
<1> QED
  BY <1>4, <1>5 DEF Store

LEMMA AfterSetKeeps ==
    ASSUME EngineInv, NEW p \in Procs, AfterSet(p)
    PROVE  Keeps(p)
<1>0. /\ pc[p] = "storing" /\ phase[p] = "idle"
      /\ UNCHANGED <<file, ffmpeg, losses, req, cache>>
  BY DEF AfterSet, env
<1>1. /\ HashesWell(p) /\ SeesWell(p) /\ PolicyLeads(p)
      /\ key[p] = KeyOf(p) /\ arg[p] = Measured(p)
  BY <1>0 DEF EngineInv, Local, CalledWith, Storing
<1>2. Cache!TypeOK' /\ \A q \in Procs : SameCall(q)
  BY <1>0, CacheAlone
<1>3. phase'[p] = "idle" /\ result'[p] = result[p] /\ key'[p] = key[p] /\ arg'[p] = arg[p]
  BY <1>0, <1>2 DEF SameCall
<1>4. CASE Finish(p, "error")
  BY <1>0, <1>2, <1>3, <1>4, FinishKeeps
<1>5. CASE result[p] = Stored /\ Proceed(p, "new")
  <2>1. /\ pc'[p] = "new" /\ req'[p] = req[p] /\ answer'[p] = answer[p]
        /\ hashed'[p] = hashed[p] /\ seen'[p] = seen[p]
        /\ KeyOf(p)' = KeyOf(p) /\ Measured(p)' = Measured(p)
    BY <1>0, <1>5, ProceedFacts
  <2>2. HashesWell(p)' /\ SeesWell(p)'
    BY <1>0, <1>1, <2>1 DEF HashesWell, SeesWell, Asking, Measuring
  <2>3. PolicyLeads(p)' /\ Called(p)' /\ CalledWith(p)'
    BY <1>0, <1>1, <1>3, <1>5, <2>1
       DEF PolicyLeads, Called, CalledWith, Asking, Measuring, Storing
  <2> QED
    BY <1>0, <1>2, <1>5, <2>2, <2>3, ProceedKeeps
<1> QED
  BY <1>4, <1>5 DEF AfterSet

LEMMA RespondKeeps ==
    ASSUME EngineInv, NEW p \in Procs, Respond(p)
    PROVE  Keeps(p)
<1>0. /\ pc[p] \in {"hit", "new"} /\ UNCHANGED <<file, ffmpeg, losses, req, cache>>
      /\ Finish(p, IF late[p] THEN "TIMEOUT" ELSE pc[p])
  BY DEF Respond, env
<1>1. phase[p] = "idle" /\ (pc[p] = "new" => req[p].policy # "only")
  BY <1>0 DEF EngineInv, Local, Called, PolicyLeads, Measuring
<1>2. Cache!TypeOK' /\ \A q \in Procs : SameCall(q)
  BY <1>0, CacheAlone
<1>3. phase'[p] = "idle"
  BY <1>1, <1>2 DEF SameCall
<1> QED
  BY <1>0, <1>1, <1>2, <1>3, FinishKeeps

\* The steps of a call that is under way, as the request sees them.
CallMoves(p) ==
    \/ phase[p] = "looking" /\ phase'[p] = "idle" /\ result'[p] \in Reports \cup {Miss, Raised}
    \/ phase[p] = "looking" /\ phase'[p] = "missing"
    \/ phase[p] = "missing" /\ phase'[p] = "idle" /\ result'[p] = Miss
    \/ phase[p] = "setting" /\ phase'[p] = "stored" /\ cur' = [cur EXCEPT ![key[p]] = arg[p]]
    \/ phase[p] = "setting" /\ phase'[p] = "failed"
    \/ phase[p] \in {"setting", "failed"} /\ phase'[p] = "idle" /\ result'[p] = Raised
    \/ phase[p] = "stored" /\ phase'[p] = "idle" /\ result'[p] = Stored /\ UNCHANGED cur

LEMMA CacheStepFacts ==
    ASSUME EngineInv, NEW p \in Procs, CacheStep(p)
    PROVE  /\ Cache!TypeOK' /\ CallMoves(p) /\ UNCHANGED <<key, arg>>
           /\ \A q \in Procs \ {p} : SameCall(q)
<1> USE DEF EngineInv, Variables, Cache!TypeOK, Cache!Outcomes, Cache!Phases, Cache!Return,
            SameCall, CallMoves
<1>1. CASE Cache!GetHit(p)
  BY <1>1 DEF Cache!GetHit
<1>2. CASE Cache!GetMiss(p)
  BY <1>2 DEF Cache!GetMiss
<1>3. CASE Cache!FinishMiss(p)
  BY <1>3 DEF Cache!FinishMiss
<1>4. CASE Cache!Put(p)
  BY <1>4 DEF Cache!Put
<1>5. CASE Cache!FailSet(p)
  BY <1>5 DEF Cache!FailSet
<1>6. CASE Cache!EndSet(p)
  BY <1>6 DEF Cache!EndSet
<1> QED
  BY <1>1, <1>2, <1>3, <1>4, <1>5, <1>6 DEF CacheStep

LEMMA CacheStepKeeps ==
    ASSUME EngineInv, NEW p \in Procs, CacheStep(p)
    PROVE  Keeps(p)
<1>0. UNCHANGED <<file, ffmpeg, losses, pc, req, late, caps, hashed, seen, built, disturbed,
                 answer>>
  BY DEF CacheStep, env, run, known
<1>1. Variables'
  BY <1>0, CacheStepFacts DEF EngineInv, Variables
<1>2. Local(p) /\ key'[p] = key[p] /\ arg'[p] = arg[p] /\ CallMoves(p)
  BY CacheStepFacts DEF EngineInv
<1>3. HashesWell(p)' /\ SeesWell(p)' /\ PolicyLeads(p)'
  BY <1>0, <1>2 DEF Local, HashesWell, SeesWell, PolicyLeads, Asking, Measuring
<1>4. Called(p)'
  BY <1>0, <1>2 DEF Local, Called, CallMoves
<1>5. CalledWith(p)'
  <2>1. KeyOf(p)' = KeyOf(p) /\ Measured(p)' = Measured(p)
    BY <1>0 DEF KeyOf, Measured
  <2> QED
    BY <1>0, <1>2, <2>1 DEF Local, CalledWith, Asking, Storing
<1>6. \A q \in Procs \ {p} : Same(q)
  BY <1>0, CacheStepFacts DEF Same, SameRun
<1> QED
  BY <1>1, <1>2, <1>3, <1>4, <1>5, <1>6 DEF Keeps, Local

LEMMA WorkKeeps ==
    ASSUME EngineInv, NEW p \in Procs, Work(p)
    PROVE  Keeps(p)
BY DetectKeeps, StartKeeps, HashKeeps, LookupKeeps, AfterGetKeeps, MeasureKeeps, StoreKeeps,
   AfterSetKeeps, RespondKeeps, CacheStepKeeps DEF Work

LEMMA CrashKeeps ==
    ASSUME EngineInv, NEW p \in Procs, Crash(p)
    PROVE  Keeps(p)
<1>1. /\ Cache!TypeOK' /\ phase'[p] = "idle"
      /\ \A q \in Procs \ {p} : SameCall(q)
  <2>1. CASE phase[p] = "idle"
    BY <2>1, CacheAlone DEF Crash, SameCall
  <2>2. CASE Cache!Crash(p)
    BY <2>2 DEF EngineInv, Variables, Cache!TypeOK, Cache!Outcomes, Cache!Phases, Cache!Return,
       Cache!Crash, SameCall
  <2> QED
    BY <2>1, <2>2 DEF Crash
<1>2. Finish(p, "none") /\ UNCHANGED <<file, ffmpeg, losses, req>>
  BY DEF Crash, env
<1> QED
  BY <1>1, <1>2, FinishKeeps

\* What happens around the processes.
LEMMA AroundKeeps ==
    ASSUME EngineInv,
           \/ \E p \in Procs : Expire(p)
           \/ Environment
           \/ UNCHANGED vars
    PROVE  Variables' /\ \A q \in Procs : Same(q)
<1> USE DEF EngineInv, Variables, Same, SameRun, SameCall, run, known
<1>1. ASSUME NEW p \in Procs, Expire(p) PROVE Variables' /\ \A q \in Procs : Same(q)
  BY <1>1, CacheAlone DEF Expire, env
<1>2. ASSUME NEW x \in Paths, NEW c \in Contents \cup {None}, Edit(x, c)
      PROVE  Variables' /\ \A q \in Procs : Same(q)
  BY <1>2, CacheAlone DEF Edit
<1>3. ASSUME NEW f \in [version : Versions, vmaf : BOOLEAN], Upgrade(f)
      PROVE  Variables' /\ \A q \in Procs : Same(q)
  BY <1>3, CacheAlone DEF Upgrade
<1>4. ASSUME NEW k \in Keys, Lose(k) PROVE Variables' /\ \A q \in Procs : Same(q)
  <2>1. Cache!TypeOK' /\ \A q \in Procs : SameCall(q)
    BY <1>4 DEF Lose, Cache!Lose, Cache!TypeOK, Cache!Outcomes
  <2>2. losses' \in Nat
    BY <1>4 DEF Lose
  <2>3. UNCHANGED <<file, ffmpeg, pc, req, late, caps, hashed, seen, built, disturbed, answer>>
    BY <1>4 DEF Lose
  <2> HIDE DEF SameCall
  <2> QED
    BY <2>1, <2>2, <2>3
<1>5. CASE UNCHANGED vars
  BY <1>5, CacheAlone DEF vars, env
<1> QED
  BY <1>1, <1>2, <1>3, <1>4, <1>5 DEF Environment

LEMMA InitEngineInv == Init => EngineInv
<1> SUFFICES ASSUME Init PROVE EngineInv
  OBVIOUS
<1> USE DEF Init
<1>1. Variables
  <2>1. Cache!TypeOK
    BY AnyReportIsReport DEF Cache!TypeOK, Cache!Phases, Cache!Outcomes
  <2>2. NoCapabilities \in Capabilities
    BY DEF NoCapabilities, Capabilities
  <2>3. (CHOOSE q \in Requests : TRUE) \in Requests
    BY RequestAssumption
  <2> QED
    BY <2>1, <2>2, <2>3, NoFilesFacts DEF Variables
<1>2. ASSUME NEW p \in Procs PROVE Local(p)
  BY NoFilesFacts DEF Local, HashesWell, SeesWell, PolicyLeads, Called, CalledWith,
     Asking, Measuring, Storing
<1> QED
  BY <1>1, <1>2 DEF EngineInv

\* Every step is one process's own, or leaves every process as it is.
LEMMA Steps ==
    ASSUME EngineInv, [Next]_vars
    PROVE  \/ \E p \in Procs : Keeps(p)
           \/ Variables' /\ \A q \in Procs : Same(q)
BY RunKeeps, WorkKeeps, CrashKeeps, AroundKeeps DEF Next

LEMMA StepEngineInv == EngineInv /\ [Next]_vars => EngineInv'
<1> SUFFICES ASSUME EngineInv, [Next]_vars PROVE EngineInv'
  OBVIOUS
<1>1. CASE \E p \in Procs : Keeps(p)
  BY <1>1, KeepsIsEnough
<1>2. CASE Variables' /\ \A q \in Procs : Same(q)
  BY <1>2, SameIsLocal DEF EngineInv
<1> QED
  BY <1>1, <1>2, Steps

LEMMA EngineInvariance == SafeSpec => []EngineInv
BY InitEngineInv, StepEngineInv, PTL DEF SafeSpec

\* Only a request that stores a report adds to those of disturbed runs.
LEMMA MixedSteps ==
    ASSUME EngineInv, [Next]_vars
    PROVE  mixed \subseteq mixed' /\ (mixed \subseteq Reports => mixed' \subseteq Reports)
<1>1. ASSUME NEW p \in Procs, Store(p)
      PROVE  mixed' \in {mixed, mixed \cup {Measured(p)}} /\ Measured(p) \in Reports
  <2>1. pc[p] = "measure" /\ HashesWell(p)
    BY <1>1 DEF Store, EngineInv, Local
  <2>2. KeyOf(p) \in Keys
    BY <2>1, KeyIsKey DEF EngineInv, Variables, Capabilities, HashesWell, KeyOf, Measuring
  <2>3. Measured(p) \in Reports
    BY <2>2, ReportIsReport DEF EngineInv, Variables, Measured
  <2> QED
    BY <1>1, <2>3 DEF Store, Mixing
<1>2. ASSUME NEW p \in Procs,
             \/ Detect(p) \/ Start(p) \/ Hash(p) \/ Lookup(p) \/ AfterGet(p) \/ Measure(p)
             \/ AfterSet(p) \/ Respond(p) \/ CacheStep(p) \/ Expire(p) \/ Crash(p)
             \/ \E q \in Requests : Run(p, q)
      PROVE  UNCHANGED mixed
  BY <1>2 DEF Detect, Start, Hash, Lookup, AfterGet, Measure, AfterSet, Respond, CacheStep,
     Expire, Crash, Run, env
<1>3. CASE Environment \/ UNCHANGED vars
  BY <1>3 DEF Environment, Edit, Upgrade, Lose, vars, env
<1> QED
  BY <1>1, <1>2, <1>3 DEF Next, Work

LEMMA EngineInvIsTyped == EngineInv /\ mixed \subseteq Reports => TypeOK
<1> SUFFICES ASSUME EngineInv, mixed \subseteq Reports PROVE TypeOK
  OBVIOUS
<1>1. ASSUME NEW p \in Procs
      PROVE  /\ pc[p] # "idle" => DOMAIN hashed[p] \subseteq Reads(req[p])
             /\ pc[p] \in {"asked", "measure", "storing", "hit", "new"} =>
                   DOMAIN hashed[p] = Reads(req[p]) /\ KeyOf(p) \in Keys
             /\ pc[p] \in {"storing", "new"} => Measured(p) \in Reports
             /\ pc[p] \notin {"asked", "storing"} => phase[p] = "idle"
  <2>1. HashesWell(p) /\ SeesWell(p) /\ Called(p)
    BY DEF EngineInv, Local
  <2>2. pc[p] \in {"asked", "measure", "storing", "hit", "new"} =>
           DOMAIN hashed[p] = Reads(req[p]) /\ KeyOf(p) \in Keys
    BY <2>1, KeyIsKey
       DEF EngineInv, Variables, Capabilities, HashesWell, KeyOf, Asking, Measuring
  <2>3. KeyOf(p) \in Keys => Measured(p) \in Reports
    BY ReportIsReport DEF EngineInv, Variables, Measured
  <2> QED
    BY <2>1, <2>2, <2>3 DEF HashesWell, Called
<1>2. DOMAIN cur = Keys
  BY DEF EngineInv, Variables, Cache!TypeOK
<1> QED
  BY <1>1, <1>2 DEF TypeOK, EngineInv, Variables

\* The state of every process and of the cache it calls has its type.
THEOREM EngineTypeCorrect == SafeSpec => []TypeOK
<1>1. Init => mixed \subseteq Reports
  BY DEF Init
<1>2. EngineInv /\ mixed \subseteq Reports /\ [Next]_vars => (mixed \subseteq Reports)'
  BY MixedSteps
<1> QED
  BY <1>1, <1>2, EngineInvariance, EngineInvIsTyped, PTL DEF SafeSpec

----------------------------------------------------------------------------
(* While no file changes and ffmpeg is not replaced under a request, what   *)
(* it measures is what it fingerprinted.                                   *)

LEMMA FoundSame ==
    ASSUME NEW q \in Procs, Found(q), Same(q), disturbed'[q] = disturbed[q],
           UNCHANGED <<file, ffmpeg>>
    PROVE  Found(q)'
BY DEF Found, Steady, Detected, Same, SameRun

\* What is noted of a process stays noted through the steps of the others.
LEMMA OthersStay ==
    ASSUME EngineInv, NEW p \in Procs, NEW q \in Procs \ {p},
           Work(p) \/ Crash(p) \/ \E r \in Requests : Run(p, r)
    PROVE  disturbed'[q] = disturbed[q]
<1> USE DEF EngineInv, Variables
<1>1. ASSUME NEW a, Finish(p, a) PROVE disturbed'[q] = disturbed[q]
  BY <1>1 DEF Finish
<1>2. CASE Detect(p) \/ Hash(p) \/ Measure(p)
  BY <1>1, <1>2 DEF Detect, Hash, Measure
<1>3. CASE Start(p) \/ Lookup(p) \/ AfterGet(p) \/ Store(p) \/ AfterSet(p) \/ Respond(p)
  BY <1>1, <1>3 DEF Start, Lookup, AfterGet, Store, AfterSet, Respond, Proceed, known
<1>4. CASE CacheStep(p) \/ \E r \in Requests : Run(p, r)
  BY <1>4 DEF CacheStep, Run, run, known
<1>5. CASE Crash(p)
  BY <1>1, <1>5 DEF Crash
<1> QED
  BY <1>2, <1>3, <1>4, <1>5 DEF Work

LEMMA FoundFinish ==
    ASSUME EngineInv, NEW p \in Procs, NEW a, Finish(p, a)
    PROVE  Found(p)'
<1>1. hashed'[p] = NoFiles /\ seen'[p] = NoFiles /\ pc'[p] = "idle"
  BY DEF Finish, Goto, EngineInv, Variables
<1> QED
  BY <1>1, NoFilesFacts DEF Found, Steady, Detected

LEMMA FoundProceed ==
    ASSUME EngineInv, NEW p \in Procs, Found(p),
           NEW l \in {"hash", "asked", "measure", "storing", "hit", "new"}, Proceed(p, l),
           Detected(p) \/ l \in {"storing", "hit", "new"},
           UNCHANGED <<file, ffmpeg, req>>
    PROVE  Found(p)'
<1>1. /\ pc'[p] = l /\ caps' = caps /\ hashed' = hashed /\ seen' = seen /\ built' = built
      /\ disturbed' = disturbed
  BY DEF Proceed, Goto, known, EngineInv, Variables
<1> QED
  BY <1>1 DEF Found, Steady, Detected

LEMMA FoundDetect ==
    ASSUME EngineInv, NEW p \in Procs, Found(p), Detect(p)
    PROVE  Found(p)'
<1>1. CASE Finish(p, IF late[p] THEN "TIMEOUT" ELSE "error")
  BY <1>1, FoundFinish
<1>2. ASSUME NEW c \in {ffmpeg, [ffmpeg EXCEPT !.vmaf = FALSE], NoCapabilities},
             caps' = [caps EXCEPT ![p] = c], Goto(p, "start"),
             UNCHANGED <<answer, late, hashed, seen, built, disturbed>>
      PROVE  Found(p)'
  <2>1. c.version \in {None, ffmpeg.version}
    <3>1. ffmpeg \in [version : Versions, vmaf : BOOLEAN]
      BY DEF EngineInv, Variables
    <3> QED
      BY <3>1, DetectedFacts
  <2>2. hashed[p] = NoFiles /\ seen[p] = NoFiles
    BY DEF Detect, EngineInv, Local, HashesWell, SeesWell, Measuring
  <2>3. /\ caps'[p] = c /\ hashed'[p] = NoFiles /\ seen'[p] = NoFiles
        /\ ffmpeg' = ffmpeg
    BY <1>2, <2>2 DEF Detect, env, EngineInv, Variables
  <2> QED
    BY <2>1, <2>3, NoFilesFacts DEF Found, Steady
<1> QED
  BY <1>1, <1>2 DEF Detect

LEMMA FoundHash ==
    ASSUME EngineInv, NEW p \in Procs, Found(p), Hash(p)
    PROVE  Found(p)'
<1>1. CASE Finish(p, "error")
  BY <1>1, FoundFinish
<1>2. ASSUME NEW s \in Slots,
             hashed' = [hashed EXCEPT ![p] = With(@, s, file[req[p].paths[s]])],
             UNCHANGED <<pc, answer, late, caps, seen, built, disturbed>>
      PROVE  Found(p)'
  <2>1. seen[p] = NoFiles
    BY DEF Hash, EngineInv, Local, SeesWell, Measuring
  <2>2. hashed'[p] = With(hashed[p], s, file[req[p].paths[s]])
    BY <1>2 DEF EngineInv, Variables
  <2>3. UNCHANGED <<file, ffmpeg, req>>
    BY DEF Hash, env
  <2>4. ASSUME Steady(p) PROVE Steady(p)'
    <3>1. ASSUME NEW t \in DOMAIN hashed'[p], hashed'[p][t] # None
          PROVE  hashed'[p][t] = file[req[p].paths[t]]
      BY <2>1, <2>2, <2>4, <3>1, NoFilesFacts DEF With, Steady
    <3> QED
      BY <1>2, <2>1, <2>3, <2>4, <3>1, NoFilesFacts DEF Steady, Detected
  <2> QED
    BY <1>2, <2>4 DEF Found
<1> QED
  BY <1>1, <1>2 DEF Hash

LEMMA FoundMeasure ==
    ASSUME EngineInv, NEW p \in Procs, Found(p), Measure(p)
    PROVE  Found(p)'
<1>1. ASSUME NEW a, Finish(p, a) PROVE Found(p)'
  BY <1>1, FoundFinish
<1>2. ASSUME NEW s \in Reads(req[p]), s \notin DOMAIN seen[p], NEW c,
             c = IF hashed[p][s] # None THEN file[req[p].paths[s]] ELSE None,
             seen' = [seen EXCEPT ![p] = With(@, s, Reading(req[p], s, c))],
             built' = [built EXCEPT ![p] = IF caps[p].version = None THEN None ELSE ffmpeg.version],
             UNCHANGED <<pc, answer, late, caps, hashed, disturbed>>
      PROVE  Found(p)'
  <2>1. pc[p] = "measure" /\ UNCHANGED <<file, ffmpeg, req>>
    BY DEF Measure, env
  <2>2. s \in DOMAIN hashed[p]
    BY <2>1 DEF EngineInv, Local, HashesWell, Measuring
  <2>3. seen'[p] = With(seen[p], s, Reading(req[p], s, c))
    BY <1>2 DEF EngineInv, Variables
  <2>4. ASSUME Steady(p) PROVE Steady(p)'
    <3>1. c = hashed[p][s]
      BY <1>2, <2>2, <2>4 DEF Steady
    <3>2. /\ DOMAIN seen'[p] = DOMAIN seen[p] \cup {s}
          /\ \A t \in DOMAIN seen'[p] : seen'[p][t].content = hashed[p][t]
      BY <2>3, <2>4, <3>1 DEF With, Steady, Reading
    <3>3. built'[p] = caps[p].version
      BY <1>2, <2>1, <2>4 DEF Steady, Detected, EngineInv, Variables
    <3> QED
      BY <1>2, <2>1, <2>4, <3>2, <3>3 DEF Steady, Detected
  <2> QED
    BY <1>2, <2>4 DEF Found
<1> QED
  BY <1>1, <1>2 DEF Measure, IsNext

LEMMA FoundWork ==
    ASSUME EngineInv, NEW p \in Procs, Found(p), Work(p)
    PROVE  Found(p)' /\ UNCHANGED <<file, ffmpeg>>
<1>0. UNCHANGED <<file, ffmpeg>>
  BY DEF Work, Detect, Start, Hash, Lookup, AfterGet, Measure, Store, AfterSet, Respond,
     CacheStep, env
<1>1. CASE Start(p)
  BY <1>0, <1>1, FoundProceed, FoundFinish DEF Start, Detected
<1>2. CASE Lookup(p)
  BY <1>0, <1>2, FoundProceed, FoundFinish DEF Lookup, Detected
<1>3. CASE AfterGet(p)
  BY <1>0, <1>3, FoundProceed, FoundFinish DEF AfterGet, Detected
<1>4. CASE Store(p)
  BY <1>0, <1>4, FoundProceed DEF Store
<1>5. CASE AfterSet(p)
  BY <1>0, <1>5, FoundProceed, FoundFinish DEF AfterSet
<1>6. CASE Respond(p)
  BY <1>0, <1>6, FoundFinish DEF Respond
<1>7. CASE CacheStep(p)
  BY <1>0, <1>7 DEF CacheStep, run, known, Found, Steady, Detected
<1> QED
  BY <1>0, <1>1, <1>2, <1>3, <1>4, <1>5, <1>6, <1>7, FoundDetect, FoundHash, FoundMeasure DEF Work

\* A change that is not noted of a request is none to what it is to measure.
LEMMA FoundAround ==
    ASSUME EngineInv, NEW q \in Procs, Found(q), Environment
    PROVE  Found(q)'
<1>1. Same(q)
  BY AroundKeeps
<1>2. ASSUME NEW x \in Paths, NEW c \in Contents \cup {None}, Edit(x, c) PROVE Found(q)'
  <2>1. /\ disturbed'[q] = FALSE => disturbed[q] = FALSE /\ x \notin ToMeasure(q)
        /\ ffmpeg' = ffmpeg /\ \A y \in Paths \ {x} : file'[y] = file[y]
    BY <1>2 DEF Edit, EngineInv, Variables
  <2>2. ASSUME Steady(q), x \notin ToMeasure(q),
               NEW s \in DOMAIN hashed[q] \ DOMAIN seen[q], hashed[q][s] # None
        PROVE  hashed[q][s] = file'[req[q].paths[s]]
    <3>1. req[q].paths[s] \in ToMeasure(q)
      BY <2>2 DEF ToMeasure
    <3>2. req[q].paths[s] \in Paths
      BY <2>2, ReadsFacts DEF EngineInv, Variables, Local, HashesWell
    <3> QED
      BY <2>1, <2>2, <3>1, <3>2 DEF Steady
  <2>3. ASSUME Steady(q), x \notin ToMeasure(q) PROVE Steady(q)'
    BY <1>1, <2>1, <2>2, <2>3 DEF Steady, Detected, Same, SameRun
  <2> QED
    BY <2>1, <2>3 DEF Found
<1>3. ASSUME NEW f \in [version : Versions, vmaf : BOOLEAN], Upgrade(f) PROVE Found(q)'
  <2>1. /\ disturbed'[q] = FALSE => disturbed[q] = FALSE /\ ~ToMeasureWith(q)
        /\ file' = file
    BY <1>3 DEF Upgrade, EngineInv, Variables
  <2>2. ASSUME Steady(q), ~ToMeasureWith(q) PROVE Steady(q)'
    BY <1>1, <2>1, <2>2 DEF Steady, Detected, ToMeasureWith, Same, SameRun
  <2> QED
    BY <2>1, <2>2 DEF Found
<1>4. ASSUME NEW k \in Keys, Lose(k) PROVE Found(q)'
  BY <1>1, <1>4, FoundSame DEF Lose, run, known
<1> QED
  BY <1>2, <1>3, <1>4 DEF Environment

LEMMA StepFound ==
    ASSUME EngineInv, \A q \in Procs : Found(q), [Next]_vars
    PROVE  \A q \in Procs : Found(q)'
<1>1. ASSUME NEW p \in Procs, Keeps(p), Found(p)', UNCHANGED <<file, ffmpeg>>,
             Work(p) \/ Crash(p) \/ \E r \in Requests : Run(p, r)
      PROVE  \A q \in Procs : Found(q)'
  BY <1>1, FoundSame, OthersStay DEF Keeps
<1>2. ASSUME NEW p \in Procs, NEW q \in Requests, Run(p, q) PROVE \A r \in Procs : Found(r)'
  <2>1. hashed[p] = NoFiles /\ seen[p] = NoFiles
    BY <1>2 DEF Run, EngineInv, Local, HashesWell, SeesWell, Measuring
  <2>2. /\ pc'[p] = "detect" /\ hashed'[p] = NoFiles /\ seen'[p] = NoFiles
        /\ UNCHANGED <<file, ffmpeg>>
    BY <1>2, <2>1 DEF Run, Goto, env, known, EngineInv, Variables
  <2>3. Found(p)'
    BY <2>2, NoFilesFacts DEF Found, Steady, Detected
  <2> QED
    BY <1>1, <1>2, <2>2, <2>3, RunKeeps
<1>3. ASSUME NEW p \in Procs, Work(p) PROVE \A r \in Procs : Found(r)'
  BY <1>1, <1>3, FoundWork, WorkKeeps
<1>4. ASSUME NEW p \in Procs, Crash(p) PROVE \A r \in Procs : Found(r)'
  BY <1>1, <1>4, FoundFinish, CrashKeeps DEF Crash, env
<1>5. ASSUME NEW p \in Procs, Expire(p) PROVE \A r \in Procs : Found(r)'
  BY <1>5, FoundSame, AroundKeeps DEF Expire, env, known
<1>6. CASE UNCHANGED vars
  BY <1>6, FoundSame, AroundKeeps DEF vars, env, run, known
<1> QED
  BY <1>2, <1>3, <1>4, <1>5, <1>6, FoundAround DEF Next

\* A report is honest if it is about what its identity says was read.
LEMMA MeasuredIsHonest ==
    ASSUME EngineInv, NEW p \in Procs, Steady(p), pc[p] = "measure",
           DOMAIN seen[p] = Reads(req[p])
    PROVE  Measured(p).identity = KeyOf(p) /\ Honest(Measured(p))
<1> DEFINE m == Measured(p)
<1>1. /\ m.identity = Identity(req[p], hashed[p], caps[p].version)
      /\ m.facts = Facts(req[p], seen[p], built[p], caps[p])
  BY DEF Measured, KeyOf
<1>2. built[p] = caps[p].version
  <2>1. req[p] \in Requests
    BY DEF EngineInv, Variables
  <2>2. seen[p] # NoFiles
    BY <2>1, ReadsFacts, NoFilesFacts
  <2> QED
    BY <2>2 DEF Steady
<1>3. hashed[p] = [s \in DOMAIN seen[p] |-> seen[p][s].content]
  <2>1. DOMAIN hashed[p] = DOMAIN seen[p]
    BY DEF EngineInv, Local, HashesWell, Measuring
  <2>2. hashed[p] \in Partial(Contents \cup {None})
    BY DEF EngineInv, Variables
  <2>3. hashed[p] = [s \in DOMAIN hashed[p] |-> hashed[p][s]]
    BY <2>2, PartialFacts
  <2> QED
    BY <2>1, <2>3 DEF Steady
<1> HIDE DEF m
<1>4. ASSUME NEW q \in Requests, q.kind = m.identity.kind
      PROVE  ContentsOf(m, q) = m.identity.assets
  <2>1. m.facts.readings = seen[p] /\ q.kind = req[p].kind
    BY <1>1, <1>4 DEF Identity, Facts
  <2>2. ContentsOf(m, q) = AssetFingerprints(q, hashed[p])
    BY <1>3, <2>1 DEF ContentsOf
  <2>3. AssetFingerprints(q, hashed[p]) = AssetFingerprints(req[p], hashed[p])
    BY <2>1 DEF AssetFingerprints
  <2> QED
    BY <1>1, <2>2, <2>3 DEF Identity
<1>5. Honest(m)
  BY <1>1, <1>2, <1>4 DEF Honest, Identity, Facts
<1> QED
  BY <1>1, <1>5 DEF m, KeyOf

LEMMA HonestSame ==
    ASSUME NEW q \in Procs, HonestCall(q), Same(q), mixed \subseteq mixed'
    PROVE  HonestCall(q)'
BY DEF HonestCall, Accounted, Same, SameRun, SameCall, Asking

\* No call for the process that ends.
LEMMA HonestIdle ==
    ASSUME NEW p \in Procs, phase'[p] = "idle", ~Asking(p)'
    PROVE  HonestCall(p)'
BY DEF HonestCall

LEMMA HonestFinish ==
    ASSUME EngineInv, NEW p \in Procs, NEW a, Finish(p, a), phase'[p] = "idle"
    PROVE  HonestCall(p)'
<1>1. pc'[p] = "idle"
  BY DEF Finish, Goto, EngineInv, Variables
<1> QED
  BY <1>1, HonestIdle DEF Asking

LEMMA HonestWork ==
    ASSUME EngineInv, NEW p \in Procs, Found(p), \A k \in Keys : HonestEntry(k), HonestCall(p),
           Work(p), mixed \subseteq mixed'
    PROVE  HonestCall(p)' /\ \A k \in Keys : HonestEntry(k)'
<1> DEFINE Goal == HonestCall(p)' /\ \A k \in Keys : HonestEntry(k)'
<1> USE DEF Accounted
<1>0. ASSUME UNCHANGED cur PROVE \A k \in Keys : HonestEntry(k)'
  BY <1>0 DEF HonestEntry
<1>1. ASSUME pc[p] \notin {"asked", "storing"}, UNCHANGED cache, ~Asking(p)'
      PROVE  Goal
  <2>1. UNCHANGED cur /\ phase'[p] = "idle"
    BY <1>1 DEF cache, EngineInv, Local, Called
  <2> QED
    BY <1>0, <1>1, <2>1, HonestIdle
<1>2. CASE Detect(p) \/ Start(p) \/ Hash(p) \/ Measure(p) \/ Respond(p)
  <2>1. pc[p] \notin {"asked", "storing"} /\ UNCHANGED cache
    BY <1>2 DEF Detect, Start, Hash, Measure, Respond
  <2>2. pc'[p] \notin {"asked", "hit"}
    BY <1>2 DEF Detect, Start, Hash, Measure, Respond, Finish, Proceed, Goto, EngineInv, Variables
  <2> QED
    BY <1>1, <2>1, <2>2 DEF Asking
<1>3. CASE Lookup(p)
  <2>1. CASE UNCHANGED cache
    <3>1. pc'[p] \notin {"asked", "hit"} \/ Cache!BeginGet(p, KeyOf(p))
      BY <1>3, <2>1 DEF Lookup, Finish, Proceed, Goto, EngineInv, Variables
    <3>2. phase[p] = "idle" /\ phase'[p] = phase[p]
      BY <1>3, <2>1 DEF Lookup, EngineInv, Local, Called, cache
    <3>3. ~Cache!BeginGet(p, KeyOf(p))
      BY <3>2 DEF Cache!BeginGet, EngineInv, Variables, Cache!TypeOK
    <3> QED
      BY <1>1, <1>3, <2>1, <3>1, <3>3 DEF Asking, Lookup
  <2>2. CASE Cache!BeginGet(p, KeyOf(p))
    <3>1. UNCHANGED cur /\ phase'[p] = "looking"
      BY <2>2 DEF Cache!BeginGet, EngineInv, Variables, Cache!TypeOK
    <3> QED
      BY <1>0, <3>1 DEF HonestCall
  <2> QED
    BY <1>3, <2>1, <2>2 DEF Lookup
<1>4. CASE AfterGet(p)
  <2>1. /\ pc[p] = "asked" /\ UNCHANGED cur /\ phase'[p] = "idle" /\ phase[p] = "idle"
        /\ result'[p] = result[p] /\ key'[p] = key[p]
    BY <1>4 DEF AfterGet, cache
  <2> QED
    BY <1>0, <2>1 DEF HonestCall, Asking
<1>5. CASE Store(p)
  <2>0. pc[p] = "measure" /\ DOMAIN seen[p] = Reads(req[p])
    BY <1>5 DEF Store
  <2>1. CASE UNCHANGED cache /\ Proceed(p, "new")
    <3>1. pc'[p] = "new"
      BY <2>1 DEF Proceed, Goto, EngineInv, Variables
    <3> QED
      BY <1>1, <2>0, <2>1, <3>1 DEF Asking
  <2>2. CASE Cache!BeginSet(p, KeyOf(p), Measured(p))
    <3>1. /\ UNCHANGED cur /\ phase'[p] = "setting"
          /\ key'[p] = KeyOf(p) /\ arg'[p] = Measured(p)
      BY <2>2 DEF Cache!BeginSet, EngineInv, Variables, Cache!TypeOK
    <3>2. Measured(p).identity = KeyOf(p)
      BY DEF Measured
    <3>3. Measured(p) \in mixed' \/ Honest(Measured(p))
      <4>1. phase'[p] # phase[p] /\ (UNCHANGED cache \/ Mixing(p))
        BY <1>5, <3>1, <2>0 DEF Store, EngineInv, Local, Called
      <4>2. mixed' = IF disturbed[p] THEN mixed \cup {Measured(p)} ELSE mixed
        BY <4>1 DEF cache, Mixing
      <4>3. CASE disturbed[p] = FALSE
        BY <2>0, <4>3, MeasuredIsHonest DEF Found
      <4>4. CASE disturbed[p] # FALSE
        <5>1. disturbed[p]
          BY <4>4 DEF EngineInv, Variables
        <5> QED
          BY <4>2, <5>1
      <4> QED
        BY <4>3, <4>4
    <3> QED
      BY <1>0, <3>1, <3>2, <3>3 DEF HonestCall
  <2> QED
    BY <1>5, <2>1, <2>2 DEF Store
<1>6. CASE AfterSet(p)
  <2>1. UNCHANGED cur /\ phase'[p] = "idle" /\ pc'[p] \notin {"asked", "hit"}
    BY <1>6 DEF AfterSet, cache, Finish, Proceed, Goto, EngineInv, Variables
  <2> QED
    BY <1>0, <2>1, HonestIdle DEF Asking
<1>7. CASE CacheStep(p)
  <2> USE AnswerAssumption DEF EngineInv, Variables, Cache!TypeOK, Cache!Return, HonestCall
  <2>1. CASE Cache!GetHit(p)
    <3>1. /\ UNCHANGED cur /\ result'[p] = cur[key[p]] /\ key'[p] = key[p] /\ phase'[p] = "idle"
          /\ cur[key[p]] # None /\ key[p] \in Keys
      BY <2>1 DEF Cache!GetHit
    <3> QED
      BY <1>0, <3>1 DEF HonestEntry
  <2>2. CASE Cache!GetMiss(p)
    <3>1. UNCHANGED cur /\ (phase'[p] = "missing" \/ result'[p] \in {Miss, Raised})
          /\ phase'[p] \in {"missing", "idle"}
      BY <2>2 DEF Cache!GetMiss
    <3> QED
      BY <1>0, <3>1
  <2>3. CASE Cache!FinishMiss(p)
    <3>1. result'[p] = Miss /\ phase'[p] = "idle" /\ cur' \in {cur, [cur EXCEPT ![key[p]] = None]}
      BY <2>3 DEF Cache!FinishMiss
    <3> QED
      BY <3>1 DEF HonestEntry
  <2>4. CASE Cache!Put(p)
    <3>1. /\ phase[p] = "setting" /\ phase'[p] = "stored" /\ key[p] \in Keys
          /\ cur' = [cur EXCEPT ![key[p]] = arg[p]]
      BY <2>4 DEF Cache!Put
    <3> QED
      BY <3>1 DEF HonestEntry
  <2>5. CASE Cache!FailSet(p)
    <3>1. /\ UNCHANGED cur /\ phase'[p] \in {"failed", "idle"}
          /\ phase'[p] = "idle" => result'[p] = Raised
      BY <2>5 DEF Cache!FailSet
    <3> QED
      BY <1>0, <3>1
  <2>6. CASE Cache!EndSet(p)
    <3>1. UNCHANGED cur /\ phase'[p] = "idle" /\ result'[p] \in {Stored, Raised}
      BY <2>6 DEF Cache!EndSet
    <3> QED
      BY <1>0, <3>1
  <2> QED
    BY <1>7, <2>1, <2>2, <2>3, <2>4, <2>5, <2>6 DEF CacheStep
<1> QED
  BY <1>2, <1>3, <1>4, <1>5, <1>6, <1>7 DEF Work

LEMMA StepHonest ==
    ASSUME EngineInv, \A q \in Procs : Found(q), HonestCache, [Next]_vars
    PROVE  HonestCache'
<1> USE DEF HonestCache
<1>0. mixed \subseteq mixed'
  BY MixedSteps
<1>1. ASSUME UNCHANGED cur PROVE \A k \in Keys : HonestEntry(k)'
  BY <1>0, <1>1 DEF HonestEntry, Accounted
<1>2. ASSUME NEW p \in Procs, Keeps(p), HonestCall(p)', \A k \in Keys : HonestEntry(k)'
      PROVE  HonestCache'
  BY <1>0, <1>2, HonestSame DEF Keeps
<1>3. ASSUME NEW p \in Procs, NEW q \in Requests, Run(p, q) PROVE HonestCache'
  <2>1. UNCHANGED cur /\ phase'[p] = "idle" /\ pc'[p] = "detect"
    BY <1>3 DEF Run, Goto, cache, EngineInv, Variables, Local, Called
  <2> QED
    BY <1>1, <1>2, <1>3, <2>1, HonestIdle, RunKeeps DEF Asking
<1>4. ASSUME NEW p \in Procs, Work(p) PROVE HonestCache'
  BY <1>0, <1>2, <1>4, HonestWork, WorkKeeps
<1>5. ASSUME NEW p \in Procs, Crash(p) PROVE HonestCache'
  <2>1. UNCHANGED cur /\ phase'[p] = "idle"
    BY <1>5 DEF Crash, cache, Cache!Crash, Cache!Return, EngineInv, Variables, Cache!TypeOK
  <2> QED
    BY <1>1, <1>2, <1>5, <2>1, HonestFinish, CrashKeeps DEF Crash
<1>6. CASE (\E p \in Procs : Expire(p)) \/ Environment \/ UNCHANGED vars
  <2>1. cur' = cur \/ \E k \in Keys : cur' = [cur EXCEPT ![k] = None]
    BY <1>6 DEF Expire, Environment, Edit, Upgrade, Lose, Cache!Lose, vars, cache
  <2>2. \A k \in Keys : HonestEntry(k)'
    BY <1>0, <2>1 DEF HonestEntry, Accounted, EngineInv, Variables, Cache!TypeOK
  <2> QED
    BY <1>0, <1>6, <2>2, AroundKeeps, HonestSame
<1> QED
  BY <1>3, <1>4, <1>5, <1>6 DEF Next

LEMMA StableInvariance == SafeSpec => []StableInv
<1>1. Init => StableInv
  <2> SUFFICES ASSUME Init PROVE StableInv
    OBVIOUS
  <2>1. \A p \in Procs : Found(p)
    BY NoFilesFacts DEF Init, Found, Steady, Detected
  <2>2. HonestCache
    BY DEF Init, HonestCache, HonestEntry, HonestCall, Asking
  <2> QED
    BY <2>1, <2>2, InitEngineInv DEF StableInv
<1>2. StableInv /\ [Next]_vars => StableInv'
  BY StepEngineInv, StepFound, StepHonest DEF StableInv
<1> QED
  BY <1>1, <1>2, PTL DEF SafeSpec

\* Whatever files change and whenever ffmpeg is replaced, whatever other
\* processes store, lose or leave half done: a report that is reused was
\* measured for the same kind, operation and rules, from the very contents the
\* request has fingerprinted, with its ffmpeg version, unless the run that
\* stored this report was itself one under which a file it had fingerprinted or
\* the ffmpeg it had detected changed before it was done measuring.
THEOREM ReuseIsAsDocumented == SafeSpec => []ReuseUnlessDisturbed
<1>1. ASSUME StableInv, NEW p \in Procs, pc[p] = "hit", result[p] \notin mixed
      PROVE  Answers(p, result[p])
  <2>1. req[p] \in Requests
    BY <1>1 DEF StableInv, EngineInv, Variables
  <2>2. result[p] \in Reports /\ phase[p] = "idle" /\ key[p] = KeyOf(p)
    BY <1>1 DEF StableInv, EngineInv, Local, Called, CalledWith, Asking
  <2>3. result[p].identity = KeyOf(p) /\ Honest(result[p])
    BY <1>1, <2>2 DEF StableInv, HonestCache, HonestCall, Asking, Accounted
  <2> QED
    BY <2>1, <2>3 DEF Answers, Honest, KeyOf, Identity
<1>2. StableInv => ReuseUnlessDisturbed
  BY <1>1 DEF ReuseUnlessDisturbed
<1> QED
  BY <1>2, StableInvariance, PTL

----------------------------------------------------------------------------
(* What has been stored is there when the deadline is checked.             *)

Kept(p) == phase[p] = "stored" \/ (phase[p] = "idle" /\ result[p] = Stored)

LEMMA NotStoringWork ==
    ASSUME EngineInv, NEW p \in Procs,
           Detect(p) \/ Start(p) \/ Hash(p) \/ Lookup(p) \/ AfterGet(p) \/ Measure(p) \/ Respond(p)
    PROVE  ~Storing(p)'
<1>1. pc'[p] \notin {"storing", "new"}
  BY DEF Detect, Start, Hash, Lookup, AfterGet, Measure, Respond, Finish, Proceed, Goto,
     EngineInv, Variables
<1> QED
  BY <1>1 DEF Storing

\* Who is alone after a step was alone before it, and took the step.
LEMMA AloneBefore ==
    ASSUME EngineInv, crashes \in Nat, NEW p \in Procs, NEW q \in Procs \ {p}, Alone(p)',
           Work(q) \/ Crash(q) \/ \E r \in Requests : Run(q, r)
    PROVE  FALSE
<1> USE DEF EngineInv, Variables
<1>1. pc'[q] = "idle" /\ answer'[q] = "none" /\ crashes' = 0
  BY DEF Alone
<1>2. ASSUME NEW a, Finish(q, a) PROVE answer'[q] = a
  BY <1>2 DEF Finish
<1>3. ASSUME NEW l, Proceed(q, l) PROVE pc'[q] = l
  BY <1>3 DEF Proceed, Goto
<1>4. CASE Detect(q)
  BY <1>1, <1>2, <1>4 DEF Detect, Goto
<1>5. CASE Start(q) \/ Respond(q)
  BY <1>1, <1>2, <1>3, <1>5 DEF Start, Respond
<1>6. CASE Hash(q)
  BY <1>1, <1>2, <1>6 DEF Hash
<1>7. CASE Lookup(q) \/ AfterGet(q)
  BY <1>1, <1>2, <1>3, <1>7 DEF Lookup, AfterGet
<1>8. CASE Measure(q)
  BY <1>1, <1>2, <1>8 DEF Measure
<1>9. CASE Store(q) \/ AfterSet(q)
  BY <1>1, <1>2, <1>3, <1>9 DEF Store, AfterSet
<1>10. CASE CacheStep(q)
  <2>1. phase[q] # "idle" /\ pc'[q] = pc[q]
    BY <1>10, CacheStepFacts DEF CacheStep, run, CallMoves
  <2> QED
    BY <1>1, <2>1 DEF Local, Called
<1>11. CASE \E r \in Requests : Run(q, r)
  BY <1>1, <1>11 DEF Run, Goto
<1>12. CASE Crash(q)
  BY <1>1, <1>12 DEF Crash
<1> QED
  BY <1>4, <1>5, <1>6, <1>7, <1>8, <1>9, <1>10, <1>11, <1>12 DEF Work

LEMMA WorkKept ==
    ASSUME EngineInv, NEW p \in Procs, Storing(p) /\ Kept(p) => cur[key[p]] = arg[p],
           Work(p), Storing(p)', Kept(p)'
    PROVE  cur'[key'[p]] = arg'[p]
<1>1. CASE Store(p)
  <2>1. CASE Cache!BeginSet(p, KeyOf(p), Measured(p))
    <3>1. phase'[p] = "setting"
      BY <2>1 DEF Cache!BeginSet, EngineInv, Variables, Cache!TypeOK
    <3> QED
      BY <3>1 DEF Kept
  <2>2. CASE ~(req[p].cached /\ req[p].policy = "use") /\ Proceed(p, "new")
    <3>1. pc'[p] = "new" /\ req'[p] = req[p] /\ pc[p] = "measure"
      BY <1>1, <2>2, ProceedFacts DEF Store
    <3>2. ~Reusing(req[p])
      BY <2>2, <3>1 DEF EngineInv, Local, PolicyLeads, Measuring, Reusing
    <3> QED
      BY <3>1, <3>2 DEF Storing
  <2> QED
    BY <1>1, <2>1, <2>2 DEF Store
<1>2. CASE AfterSet(p)
  <2>1. /\ UNCHANGED <<cur, phase, key, arg, result>> /\ pc[p] = "storing"
    BY <1>2 DEF AfterSet, cache
  <2> QED
    BY <2>1 DEF Storing, Kept
<1>3. CASE CacheStep(p)
  <2>1. /\ CallMoves(p) /\ UNCHANGED <<key, arg>> /\ pc'[p] = pc[p] /\ req'[p] = req[p]
    BY <1>3, CacheStepFacts DEF CacheStep, run
  <2>2. Storing(p) /\ key[p] \in Keys
    BY <2>1 DEF Storing, EngineInv, Variables, Cache!TypeOK
  <2>3. CASE phase[p] = "setting" /\ cur' = [cur EXCEPT ![key[p]] = arg[p]]
    BY <2>1, <2>2, <2>3 DEF EngineInv, Variables, Cache!TypeOK
  <2>4. CASE phase[p] = "stored" /\ UNCHANGED cur
    BY <2>1, <2>2, <2>4 DEF Kept
  <2>5. phase[p] \notin {"looking", "missing"}
    BY <2>2 DEF EngineInv, Local, Called, Storing
  <2> QED
    BY <2>1, <2>3, <2>4, <2>5, AnswerAssumption DEF CallMoves, Kept
<1> QED
  BY <1>1, <1>2, <1>3, NotStoringWork DEF Work

\* Who is alone after a step of its own, or of the environment, was before it.
LEMMA AloneStays ==
    ASSUME crashes \in Nat, NEW p \in Procs, Alone(p)',
           \A q \in Procs \ {p} : pc'[q] = pc[q] /\ answer'[q] = answer[q],
           losses \in Nat, losses' \in {losses, losses + 1},
           crashes' \in {crashes, crashes + 1}
    PROVE  Alone(p) /\ losses' = losses /\ crashes' = crashes
BY DEF Alone

LEMMA StepKeptAlone ==
    ASSUME EngineInv, KeptAlone, [Next]_vars
    PROVE  KeptAlone'
<1>1. /\ crashes \in Nat /\ crashes' \in {crashes, crashes + 1}
      /\ losses \in Nat /\ losses' \in {losses, losses + 1}
  <2>1. ASSUME NEW p \in Procs,
               \/ Work(p) \/ Expire(p) \/ Crash(p) \/ \E q \in Requests : Run(p, q)
        PROVE  losses' = losses /\ crashes' \in {crashes, crashes + 1}
    <3>1. CASE Work(p)
      BY <3>1 DEF Work, Detect, Start, Hash, Lookup, AfterGet, Measure, Store, AfterSet, Respond,
         CacheStep, env
    <3>2. CASE Expire(p) \/ Crash(p) \/ \E q \in Requests : Run(p, q)
      BY <3>2 DEF Expire, Crash, Run, env
    <3> QED
      BY <2>1, <3>1, <3>2
  <2>2. CASE Environment
    <3>1. UNCHANGED crashes
      BY <2>2 DEF Environment, Edit, Upgrade, Lose
    <3>2. losses' \in {losses, losses + 1}
      BY <2>2 DEF Environment, Edit, Upgrade, Lose
    <3> QED
      BY <3>1, <3>2 DEF KeptAlone, EngineInv, Variables
  <2>3. CASE UNCHANGED vars
    BY <2>3 DEF vars, env, KeptAlone, EngineInv, Variables
  <2> QED
    BY <2>1, <2>2, <2>3 DEF Next, KeptAlone, EngineInv, Variables
<1>2. SUFFICES ASSUME NEW p \in Procs, Alone(p)', Storing(p)', Kept(p)'
               PROVE  cur'[key'[p]] = arg'[p]
  BY <1>1 DEF KeptAlone, Kept
<1>3. Alone(p) => (Storing(p) /\ Kept(p) => cur[key[p]] = arg[p])
  BY DEF KeptAlone, Kept
<1>4. ASSUME \A q \in Procs \ {p} : Same(q)
      PROVE  Alone(p) /\ losses' = losses /\ crashes' = crashes
  BY <1>1, <1>2, <1>4, AloneStays DEF Same, SameRun
<1>5. CASE Work(p)
  <2>1. Alone(p)
    BY <1>4, <1>5, WorkKeeps DEF Keeps
  <2> QED
    BY <1>2, <1>3, <1>5, <2>1, WorkKept
<1>6. ASSUME NEW q \in Requests, Run(p, q) PROVE FALSE
  BY <1>2, <1>6 DEF Run, Goto, Storing, EngineInv, Variables
<1>7. CASE Crash(p)
  BY <1>2, <1>7 DEF Crash, Finish, Goto, Storing, EngineInv, Variables
<1>8. CASE (\E q \in Procs : Expire(q)) \/ Environment \/ UNCHANGED vars
  <2>1. \A q \in Procs : Same(q)
    BY <1>8, AroundKeeps
  <2>2. Alone(p) /\ losses' = losses
    BY <1>4, <2>1
  <2>3. ASSUME NEW k \in Keys, Lose(k) PROVE FALSE
    BY <1>1, <2>2, <2>3 DEF Lose
  <2>4. UNCHANGED cur
    BY <1>8, <2>3 DEF Environment, Edit, Upgrade, Expire, vars, cache
  <2>5. Storing(p) /\ Kept(p) /\ key'[p] = key[p] /\ arg'[p] = arg[p]
    BY <1>2, <2>1 DEF Same, SameRun, SameCall, Storing, Kept
  <2> QED
    BY <1>3, <2>2, <2>4, <2>5
<1>9. ASSUME NEW q \in Procs \ {p}, Work(q) \/ Crash(q) \/ \E r \in Requests : Run(q, r)
      PROVE  FALSE
  BY <1>1, <1>2, <1>9, AloneBefore
<1> QED
  BY <1>5, <1>6, <1>7, <1>8, <1>9 DEF Next

\* A complete measurement is in the cache before the last check of the deadline,
\* whatever came before; it is still there when no other process has run and
\* nothing was lost.
THEOREM LateReportsAreKept == SafeSpec => []LateReportKept
<1>1. Init => KeptAlone
  BY DEF Init, KeptAlone, Storing
<1>2. EngineInv /\ KeptAlone /\ [Next]_vars => KeptAlone'
  BY StepKeptAlone
<1>3. EngineInv /\ KeptAlone => LateReportKept
  <2> SUFFICES ASSUME EngineInv, KeptAlone, NEW p \in Procs, pc[p] = "new", Reusing(req[p])
               PROVE  /\ result[p] = Stored /\ key[p] = KeyOf(p)
                      /\ Alone(p) => cur[KeyOf(p)] = Measured(p)
    BY DEF LateReportKept
  <2>1. result[p] = Stored /\ phase[p] = "idle" /\ key[p] = KeyOf(p) /\ arg[p] = Measured(p)
    BY DEF EngineInv, Local, Called, CalledWith, Storing
  <2> QED
    BY <2>1 DEF KeptAlone, Storing
<1> QED
  BY <1>1, <1>2, <1>3, EngineInvariance, PTL DEF SafeSpec

----------------------------------------------------------------------------
(* The policy, and the register.                                           *)

PolicyStep ==
    \A p \in Procs :
        /\ phase'[p] # phase[p] => req[p].cached /\ req[p].policy # "bypass"
        /\ phase'[p] = "setting" => req[p].policy = "use"
        /\ seen'[p] # NoFiles => req[p].policy # "only"
        /\ answer'[p] = "new" => req'[p].policy # "only"

\* A request that is in a call of the cache reuses reports, and one that
\* stores one is allowed to.
LEMMA CallersReuse ==
    ASSUME EngineInv, NEW p \in Procs
    PROVE  /\ phase[p] # "idle" => Reusing(req[p])
           /\ phase[p] = "setting" => req[p].policy = "use"
BY DEF EngineInv, Local, Called, PolicyLeads, Asking, Measuring, Reusing

LEMMA PolicyOfWork ==
    ASSUME EngineInv, NEW p \in Procs, Work(p)
    PROVE  /\ phase'[p] # phase[p] => Reusing(req[p])
           /\ phase'[p] = "setting" => req[p].policy = "use"
<1>1. CASE Detect(p) \/ Start(p) \/ Hash(p) \/ AfterGet(p) \/ Measure(p) \/ AfterSet(p) \/ Respond(p)
  <2>1. UNCHANGED phase
    BY <1>1 DEF Detect, Start, Hash, AfterGet, Measure, AfterSet, Respond, cache
  <2> QED
    BY <2>1, CallersReuse
<1>2. CASE Lookup(p)
  <2>1. \/ UNCHANGED phase
        \/ Reusing(req[p]) /\ phase'[p] = "looking"
    BY <1>2 DEF Lookup, Cache!BeginGet, cache, EngineInv, Variables, Cache!TypeOK
  <2> QED
    BY <2>1, CallersReuse
<1>3. CASE Store(p)
  <2>1. UNCHANGED phase \/ (req[p].cached /\ req[p].policy = "use")
    BY <1>3 DEF Store, cache
  <2> QED
    BY <2>1, CallersReuse DEF Reusing
<1>4. CASE CacheStep(p)
  <2>1. phase[p] # "idle" /\ phase'[p] # "setting"
    BY <1>4, CacheStepFacts DEF CallMoves
  <2> QED
    BY <2>1, CallersReuse
<1> QED
  BY <1>1, <1>2, <1>3, <1>4 DEF Work

LEMMA PolicyOfCalls ==
    ASSUME EngineInv, [Next]_vars, NEW p \in Procs
    PROVE  /\ phase'[p] # phase[p] => Reusing(req[p])
           /\ phase'[p] = "setting" => req[p].policy = "use"
<1>1. ASSUME NEW q \in Procs \ {p}, Keeps(q) PROVE phase'[p] = phase[p]
  BY <1>1 DEF Keeps, Same, SameCall
<1>2. ASSUME NEW q \in Procs, NEW r \in Requests, Run(q, r) PROVE phase'[p] = phase[p]
  BY <1>2 DEF Run, cache
<1>3. CASE Crash(p)
  <2>1. UNCHANGED phase \/ (phase[p] # "idle" /\ phase'[p] = "idle")
    BY <1>3 DEF Crash, Cache!Crash, Cache!Return, cache, EngineInv, Variables, Cache!TypeOK
  <2> QED
    BY <2>1, CallersReuse
<1>4. CASE (\E q \in Procs : Expire(q)) \/ Environment \/ UNCHANGED vars
  BY <1>4, AroundKeeps, CallersReuse DEF Same, SameCall
<1>5. ASSUME NEW q \in Procs \ {p}, Work(q) \/ Crash(q) PROVE phase'[p] = phase[p]
  BY <1>1, <1>5, WorkKeeps, CrashKeeps
<1> QED
  BY <1>2, <1>3, <1>4, <1>5, PolicyOfWork, CallersReuse DEF Next

\* The request of a process is another one only when it starts to run.
LEMMA RequestStays ==
    ASSUME EngineInv, [Next]_vars, NEW p \in Procs
    PROVE  req'[p] = req[p] \/ pc'[p] = "detect"
<1>1. ASSUME NEW q \in Procs, NEW r \in Requests, Run(q, r)
      PROVE  req'[p] = req[p] \/ pc'[p] = "detect"
  BY <1>1 DEF Run, Goto, EngineInv, Variables
<1>2. ASSUME NEW q \in Procs, Work(q) \/ Crash(q) PROVE UNCHANGED req
  BY <1>2 DEF Work, Detect, Start, Hash, Lookup, AfterGet, Measure, Store, AfterSet, Respond,
     CacheStep, Crash, run
<1>3. CASE (\E q \in Procs : Expire(q)) \/ Environment \/ UNCHANGED vars
  BY <1>3, AroundKeeps DEF Same, SameRun
<1> QED
  BY <1>1, <1>2, <1>3 DEF Next

\* Whatever the interleaving: a request with policy bypass neither asks the
\* cache nor stores anything, and one with policy only neither measures nor
\* stores and completes with a hit.
THEOREM PolicyIsRespected == SafeSpec => PolicyRespected
<1>1. ASSUME EngineInv, [Next]_vars PROVE PolicyStep
  <2>1. EngineInv'
    BY <1>1, StepEngineInv
  <2>2. ASSUME NEW p \in Procs PROVE answer'[p] = "new" => req'[p].policy # "only"
    BY <2>1 DEF EngineInv, Local, PolicyLeads
  <2>3. ASSUME NEW p \in Procs, seen'[p] # NoFiles PROVE req[p].policy # "only"
    <3>1. Measuring(p)' /\ req'[p].policy # "only"
      BY <2>1, <2>3 DEF EngineInv, Local, PolicyLeads, SeesWell
    <3> QED
      BY <1>1, <3>1, RequestStays DEF Measuring
  <2> QED
    BY <1>1, <2>2, <2>3, PolicyOfCalls DEF PolicyStep, Reusing
<1>2. EngineInv /\ [Next]_vars => [PolicyStep]_vars
  BY <1>1
<1> QED
  BY <1>2, EngineInvariance, PTL DEF SafeSpec, PolicyRespected, PolicyStep

\* What a request does to the cache is what the register promises: every
\* step of the engine, of any number of processes, is a step of AbstractCache
\* or leaves the cache alone.  ReportCache implements the same register, so
\* what is shown here holds with the files behind it.
THEOREM EngineUsesTheRegister == SafeSpec => Cache!Spec
<1>1. Init => Cache!Init
  BY AnyReportIsReport DEF Init, Cache!Init
<1>2. ASSUME EngineInv, [Next]_vars PROVE [Cache!Next]_(Cache!vars)
  <2> USE DEF Cache!Next
  <2>1. ASSUME NEW p \in Procs, Lookup(p) PROVE [Cache!Next]_(Cache!vars)
    <3>1. /\ pc[p] = "hash" /\ DOMAIN hashed[p] = Reads(req[p])
          /\ HashesWell(p) /\ req[p] \in Requests
      BY <1>2, <2>1 DEF Lookup, EngineInv, Variables, Local
    <3>2. KeyOf(p) \in Keys
      BY <1>2, <3>1, KeyIsKey DEF EngineInv, Variables, Capabilities, HashesWell, KeyOf
    <3> QED
      BY <2>1, <3>2 DEF Lookup, cache, Cache!vars
  <2>2. ASSUME NEW p \in Procs, Store(p) PROVE [Cache!Next]_(Cache!vars)
    <3>1. /\ pc[p] = "measure" /\ HashesWell(p) /\ req[p] \in Requests
      BY <1>2, <2>2 DEF Store, EngineInv, Variables, Local
    <3>2. KeyOf(p) \in Keys
      BY <1>2, <3>1, KeyIsKey
         DEF EngineInv, Variables, Capabilities, HashesWell, KeyOf, Measuring
    <3>3. Measured(p) \in Reports
      BY <1>2, <3>1, <3>2, ReportIsReport DEF EngineInv, Variables, Measured
    <3> QED
      BY <2>2, <3>2, <3>3 DEF Store, cache, Cache!vars
  <2>3. ASSUME NEW p \in Procs, CacheStep(p) PROVE Cache!Next
    BY <2>3 DEF CacheStep
  <2>4. ASSUME NEW p \in Procs, Crash(p) PROVE [Cache!Next]_(Cache!vars)
    BY <2>4 DEF Crash, cache, Cache!vars
  <2>5. ASSUME NEW p \in Procs,
               \/ Detect(p) \/ Start(p) \/ Hash(p) \/ AfterGet(p)
               \/ Measure(p) \/ AfterSet(p) \/ Respond(p) \/ Expire(p)
               \/ \E q \in Requests : Run(p, q)
        PROVE  UNCHANGED Cache!vars
    BY <2>5 DEF Detect, Start, Hash, AfterGet, Measure, AfterSet, Respond, Expire, Run, cache,
       Cache!vars
  <2>6. CASE Environment \/ UNCHANGED vars
    BY <2>6 DEF Environment, Edit, Upgrade, Lose, cache, vars, Cache!vars
  <2> QED
    BY <1>2, <2>1, <2>2, <2>3, <2>4, <2>5, <2>6 DEF Next, Work
<1> QED
  BY <1>1, <1>2, EngineInvariance, PTL DEF SafeSpec, Cache!Spec
=============================================================================
