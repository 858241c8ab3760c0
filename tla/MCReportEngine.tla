--------------------------- MODULE MCReportEngine ---------------------------
EXTENDS ReportEngine

CONSTANTS mp4, mov, srt, c1, c2, v1, v2,
          Scenes   \* which of the scenes below a run plays

MCExtOf == [x \in Paths |-> CASE x = mov -> "mov" [] x = srt -> "srt" [] OTHER -> "mp4"]

Request(kind, policy, metrics, timed, input, subtitle, reference) ==
    [kind |-> kind, operation |-> "check", metrics |-> metrics, policy |-> policy,
     cached |-> TRUE, timed |-> timed, paths |-> <<input, subtitle, reference>>]

Video == Request("video", "use", FALSE, TRUE, mp4, None, None)

Untimed == [Video EXCEPT !.timed = FALSE]

\* Every policy, requests that differ from the first in their rules or their
\* operation alone, and every kind, with a second file where the kind reads
\* one.  A request with a deadline may also do all that one without it does.
MCRequests ==
    {Video, [Untimed EXCEPT !.metrics = TRUE], [Untimed EXCEPT !.operation = "inspect"],
     [Untimed EXCEPT !.policy = "bypass"], [Untimed EXCEPT !.policy = "only"],
     [Untimed EXCEPT !.cached = FALSE, !.policy = "only"],
     Request("video", "use", TRUE, FALSE, mp4, None, mov),
     Request("audio", "use", FALSE, FALSE, mp4, None, None),
     Request("subtitle", "use", FALSE, FALSE, mp4, None, mov),
     Request("delivery", "use", FALSE, FALSE, mp4, mov, None),
     Request("delivery_package", "use", FALSE, FALSE, mp4, mov, None)}

\* What two processes ask at the same time.
MCTogether == {Untimed, [Untimed EXCEPT !.policy = "only"]}

\* The same delivery under two names.
MCTwoNames ==
    {Request("delivery", "use", FALSE, FALSE, mp4, None, None),
     Request("delivery", "use", FALSE, FALSE, mov, None, None)}

\* A comparison against a reference.
MCReference == {Request("video", "use", TRUE, FALSE, mp4, None, mov)}

\* One file given as the subtitle or as the reference of a delivery.
MCRoles ==
    {Request("delivery", "use", TRUE, FALSE, mp4, srt, None),
     Request("delivery", "use", TRUE, FALSE, mp4, None, srt)}

----------------------------------------------------------------------------
(* In the scene "requests" one process makes every kind of request, and a   *)
(* file changes between its runs.  In "together" two processes ask for the  *)
(* same video at once while one of these happens, at any time: the file     *)
(* changes, ffmpeg is replaced, an entry is lost, or a process is killed.   *)
(* In "all" nothing is left out.                                            *)

VARIABLE scene

MCVars == <<vars, scene>>

MCAll == MCRequests \cup MCTogether

MCInit ==
    /\ scene \in Scenes
    /\ Init
    /\ scene # "all" => ffmpeg = [version |-> v1, vmaf |-> TRUE] /\ file[mp4] = c1
    /\ scene = "requests" => file[mov] \in {c1, None}
    /\ scene = "together" => file[mov] = None

Asks(p, q) ==
    CASE scene = "requests" ->
            q \in MCRequests /\ \A r \in Procs \ {p} : pc[r] = "idle" /\ answer[r] = "none"
      [] scene = "together" -> q \in MCTogether
      [] OTHER -> TRUE

\* What a scene leaves out: in neither is libvmaf ever missing.
Leaves ==
    /\ scene # "all" =>
          /\ ffmpeg'.vmaf /\ \A p \in Procs : caps'[p] # NoCapabilities => caps'[p].vmaf
          /\ \A x \in Paths : file'[x] \in {file[x], c2}
    /\ scene = "requests" =>
          /\ upgrades' + losses' + crashes' = 0
          /\ edits' # edits => \A p \in Procs : pc[p] = "idle"
    /\ scene = "together" => edits' + upgrades' + losses' + crashes' <= 1

MCNext ==
    /\ UNCHANGED scene
    /\ \/ \E p \in Procs :
             \/ \E q \in Requests : Asks(p, q) /\ Run(p, q)
             \/ Work(p) \/ Expire(p) \/ Crash(p)
       \/ Environment
    /\ Leaves

MCSafeSpec == MCInit /\ [][MCNext]_MCVars

MCSpec == MCSafeSpec /\ Fairness
=============================================================================
