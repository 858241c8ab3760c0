------------------------------- MODULE Runner -------------------------------
(***************************************************************************)
(* request.timeout (ADR-019, runner.py): the wall-clock budget of a        *)
(* request, the children qc starts under it, and how they are killed.  One *)
(* qc process serves requests one after the other, through the command     *)
(* line (cmd_run opens a budget around capability detection and run_report *)
(* opens another) or through the library (run_report alone).               *)
(*                                                                         *)
(* Time is discrete and every deadline is kept as the time left until it;  *)
(* 0 is a deadline that has passed.                                        *)
(***************************************************************************)
EXTENDS Naturals, Sequences

CONSTANTS None,          \* no budget
          Budgets,       \* values of request.timeout, None among them
          CapCeiling,    \* run_argv ceiling of capability detection (15 s)
          MediaCeiling,  \* run_argv ceiling of a measurement (60 or 120 s)
          Grace,         \* what communicate gets after a kill (10 s)
          MaxChildren    \* bound on the children of one stage

ASSUME BudgetAssumption ==
    None \notin Nat /\ None \in Budgets /\ Budgets \subseteq (Nat \ {0}) \cup {None}
ASSUME CeilingAssumption == {CapCeiling, MediaCeiling, Grace} \subseteq Nat \ {0}
ASSUME ChildrenAssumption == MaxChildren \in Nat

VARIABLES pc,      \* where the request is
          budget,  \* request.timeout
          stack,   \* the _DEADLINE contexts entered: time left, or None
          todo,    \* children this stage has still to start
          call,    \* "none", or where run_argv is: "wait", "drain"
          limit,   \* time left to the communicate call being waited for
          binds,   \* deadline_binds
          child,   \* the direct child
          kin,     \* a process the child started
          outcome, \* how the request ended
          own,     \* history: time left of the budget the request asked for
          left     \* history: how processes came to outlive their call

running == <<call, limit, binds, child, kin, left>>
request == <<budget, todo>>
vars == <<pc, budget, stack, todo, call, limit, binds, child, kin, outcome, own, left>>

NoKin == [alive |-> FALSE, inGroup |-> FALSE, pipe |-> FALSE]

Stages == {"idle", "caps", "start", "media", "report", "unwind"}

Init ==
    /\ pc = "idle" /\ budget = None /\ stack = <<>> /\ todo = 0
    /\ call = "none" /\ limit = 0 /\ binds = FALSE
    /\ child = "none" /\ kin = NoKin
    /\ outcome = "none" /\ own = None /\ left = {}

----------------------------------------------------------------------------
(* The budget. *)

Least(a, b) == IF a <= b THEN a ELSE b

\* The current _DEADLINE.
Current == IF stack = <<>> THEN None ELSE stack[Len(stack)]

EnteredUncapped(b) == b
\* request_deadline, 119-123: the deadline in force inside the with block.
Entered(b) ==
    CASE Current = None -> b
      [] Current # None /\ b = None -> Current
      [] OTHER -> Least(Current, b)

Raise(o) ==
    /\ pc' = "unwind"
    /\ outcome' = o

\* run_argv 168 and check_deadline 141: the budget is spent.
Spent == Current = 0

----------------------------------------------------------------------------
(* The request: cmd_run and run_report. *)

BeginCli(b) ==
    /\ pc = "idle"
    /\ pc' = "caps"
    /\ \E n \in 0..MaxChildren : todo' = n
    /\ stack' = Append(stack, Entered(b))
    /\ budget' = b /\ own' = b
    /\ outcome' = "none"
    /\ UNCHANGED running

\* The library caller brings its own capabilities.
BeginLibrary(b) ==
    /\ pc = "idle"
    /\ pc' = "start"
    /\ todo' = 0
    /\ stack' = Append(stack, Entered(b))
    /\ budget' = b /\ own' = b
    /\ outcome' = "none"
    /\ UNCHANGED running

\* run_report opens another budget of the same length inside that of cmd_run.
EnterReport ==
    /\ pc = "caps" /\ call = "none" /\ todo = 0
    /\ pc' = "start"
    /\ stack' = Append(stack, Entered(budget))
    /\ UNCHANGED <<request, outcome, own, running>>

CheckStart ==
    /\ pc = "start"
    /\ \/ Spent /\ Raise("TIMEOUT") /\ UNCHANGED todo
       \/ /\ ~Spent
          /\ pc' = "media"
          /\ \E n \in 0..MaxChildren : todo' = n
          /\ UNCHANGED outcome
    /\ UNCHANGED <<budget, stack, own, running>>

\* A measurement fails (UNSUPPORTED_FORMAT, DEPENDENCY_ERROR, ...).
Fail ==
    /\ pc \in {"caps", "media"} /\ call = "none"
    /\ Raise("error")
    /\ UNCHANGED <<request, stack, own, running>>

Measured ==
    /\ pc = "media" /\ call = "none" /\ todo = 0
    /\ pc' = "report"
    /\ UNCHANGED <<request, stack, outcome, own, running>>

CheckReportAlways ==
    /\ pc = "report"
    /\ Raise("completed")
    /\ UNCHANGED <<request, stack, own, running>>
\* run_report 394: the last check before the response is returned.
CheckReport ==
    /\ pc = "report"
    /\ Raise(IF Spent THEN "TIMEOUT" ELSE "completed")
    /\ UNCHANGED <<request, stack, own, running>>

UnwindNothing ==
    /\ pc = "unwind"
    /\ pc' = "idle"
    /\ UNCHANGED <<request, stack, outcome, own, running>>
\* Leaving a with block resets _DEADLINE, whatever the way out.
Unwind ==
    /\ pc = "unwind"
    /\ stack' = SubSeq(stack, 1, Len(stack) - 1)
    /\ pc' = IF Len(stack) = 1 THEN "idle" ELSE "unwind"
    /\ UNCHANGED <<request, outcome, own, running>>

----------------------------------------------------------------------------
(* run_argv. *)

Ceiling == IF pc = "caps" THEN CapCeiling ELSE MediaCeiling

\* 172-174: the child gets what is left of the budget if that is the shorter.
BindsStrictly == Current # None /\ Current < Ceiling
Binds == Current # None /\ Current <= Ceiling

LimitIsCeiling == Ceiling
LimitIsBudget == Current
Limit == IF Current = None THEN Ceiling ELSE Least(Current, Ceiling)

\* 166-184: no child is started on a spent budget.
Launch ==
    /\ pc \in {"caps", "media"} /\ call = "none" /\ todo > 0
    /\ \/ /\ Spent
          /\ Raise("TIMEOUT")
          /\ UNCHANGED <<todo, running>>
       \/ /\ ~Spent
          /\ binds' = Binds
          /\ limit' = Limit
          /\ call' = "wait"
          /\ child' = "running"
          /\ todo' = todo - 1
          /\ UNCHANGED <<pc, outcome, kin, left>>
    /\ UNCHANGED <<budget, stack, own>>

\* The call is over: whatever of its processes still runs outlives it.
Leave(killed) ==
    /\ call' = "none"
    /\ limit' = 0
    /\ binds' = FALSE
    /\ kin' = NoKin
    /\ left' = IF kin.alive THEN left \cup {[killed |-> killed, inGroup |-> kin.inGroup]}
                            ELSE left

PipeHeld == kin.alive /\ kin.pipe

\* 186: communicate returns at the end of both pipes and reaps the child.
Communicate ==
    /\ call = "wait" /\ child = "zombie" /\ ~PipeHeld
    /\ child' = "reaped"
    /\ Leave(FALSE)
    /\ UNCHANGED <<pc, request, stack, outcome, own>>

KillChildOnly == child' = "zombie" /\ UNCHANGED kin
\* _kill_group on POSIX: SIGKILL to the group the child leads, then to the
\* child itself.  A process that left the group is not reached.
KillGroup ==
    /\ child' = "zombie"
    /\ kin' = IF kin.inGroup THEN NoKin ELSE kin

\* 188-189: TimeoutExpired.
Expire ==
    /\ call = "wait" /\ limit = 0
    /\ KillGroup
    /\ call' = "drain"
    /\ limit' = Grace
    /\ UNCHANGED <<pc, request, stack, outcome, own, binds, left>>

\* 196-198 and the callers: detect_capabilities goes on without the tool, a
\* measurement that timed out is a TOOL_ERROR.
AfterKill ==
    /\ Leave(TRUE)
    /\ \/ binds /\ Raise("TIMEOUT")
       \/ ~binds /\ pc = "media" /\ Raise("TOOL_ERROR")
       \/ ~binds /\ pc = "caps" /\ UNCHANGED <<pc, outcome>>
    /\ UNCHANGED <<request, stack, own>>

\* 190-191: the pipes end, the child is reaped.
Drain ==
    /\ call = "drain" /\ ~PipeHeld
    /\ child' = "reaped"
    /\ AfterKill

GiveUpNever ==
    /\ call = "drain" /\ limit = 0 /\ PipeHeld
    /\ UNCHANGED vars
\* 192-195: a pipe is still held open; its output is given up.
GiveUp ==
    /\ call = "drain" /\ limit = 0 /\ PipeHeld
    /\ child' = "reaped"
    /\ AfterKill

----------------------------------------------------------------------------
(* The children and the clock. *)

ChildExits ==
    /\ call = "wait" /\ child = "running"
    /\ child' = "zombie"
    /\ UNCHANGED <<pc, request, stack, call, limit, binds, kin, outcome, own, left>>

\* The child starts a process, in its own group or out of it, which may or
\* may not keep the inherited pipes.
ChildStarts ==
    /\ call = "wait" /\ child = "running" /\ ~kin.alive
    /\ \E g, p \in BOOLEAN : kin' = [alive |-> TRUE, inGroup |-> g, pipe |-> p]
    /\ UNCHANGED <<pc, request, stack, call, limit, binds, child, outcome, own, left>>

KinExits ==
    /\ kin.alive
    /\ kin' = NoKin
    /\ UNCHANGED <<pc, request, stack, call, limit, binds, child, outcome, own, left>>

Less(t) == IF t = None \/ t = 0 THEN t ELSE t - 1

\* Time passes, in Python code too, but the timeout of communicate is prompt.
Tick ==
    /\ pc # "idle"
    /\ call # "none" => limit > 0
    /\ stack' = [i \in DOMAIN stack |-> Less(stack[i])]
    /\ limit' = Less(limit)
    /\ own' = Less(own)
    /\ UNCHANGED <<pc, request, call, binds, child, kin, outcome, left>>

Begin == \E b \in Budgets : BeginCli(b) \/ BeginLibrary(b)

Program ==
    \/ EnterReport \/ CheckStart \/ Fail \/ Measured \/ CheckReport \/ Unwind
    \/ Launch \/ Communicate \/ Expire \/ Drain \/ GiveUp

Children == ChildExits \/ ChildStarts \/ KinExits

Next == Begin \/ Program \/ Children \/ Tick

\* qc itself runs and time passes; no child has to end or to let go of a pipe.
Fairness == WF_vars(Program) /\ WF_vars(Tick)

SafeSpec == Init /\ [][Next]_vars

Spec == SafeSpec /\ Fairness

----------------------------------------------------------------------------
Time == Nat \cup {None}

TypeOK ==
    /\ pc \in Stages
    /\ budget \in Budgets
    /\ stack \in Seq(Time)
    /\ todo \in 0..MaxChildren
    /\ call \in {"none", "wait", "drain"}
    /\ limit \in Nat
    /\ binds \in BOOLEAN
    /\ child \in {"none", "running", "zombie", "reaped"}
    /\ kin \in [alive : BOOLEAN, inGroup : BOOLEAN, pipe : BOOLEAN]
    /\ outcome \in {"none", "TIMEOUT", "TOOL_ERROR", "error", "completed"}
    /\ own \in Time
    /\ left \subseteq [killed : BOOLEAN, inGroup : BOOLEAN]

\* A nested budget never extends an enclosing one (runner.py 115-117).
NestedNeverExtends ==
    \A i, j \in 1..Len(stack) :
        i < j /\ stack[i] # None => stack[j] # None /\ stack[j] <= stack[i]

\* The request's own budget is the one in force wherever a deadline is read:
\* neither a nested block nor an earlier request changes it.
BudgetInForce == stack # <<>> => Current = own

\* No child runs past its ceiling or past the request's budget.
ChildBounded ==
    call = "wait" => limit <= Ceiling /\ (own # None => limit <= own)

\* TIMEOUT is the request's own budget having run out, a request without one
\* never gets it, and a response is only returned before it runs out.
OutcomeJustified ==
    [][/\ outcome' = "TIMEOUT" => own = 0
       /\ outcome' = "completed" => own # 0]_outcome

\* A child killed at a timeout is blamed on the budget exactly when the
\* budget had run out: otherwise the tool hung (TOOL_ERROR).
ExpiryBlamed == [][Expire => (binds <=> own = 0)]_vars

\* When run_argv has killed, the child is reaped and nothing of its process
\* group is alive; only a process that left the group can be.
KillReachesGroup ==
    /\ call = "none" => child \in {"none", "reaped"}
    /\ [killed |-> TRUE, inGroup |-> TRUE] \notin left

\* Every request ends, with or without a budget, whatever its children do.
RequestsEnd == pc # "idle" ~> pc = "idle"
=============================================================================
