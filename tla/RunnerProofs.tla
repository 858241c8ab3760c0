---------------------------- MODULE RunnerProofs ----------------------------
(***************************************************************************)
(* Theorems about Runner for any budgets, ceilings, grace period and       *)
(* number of children.                                                     *)
(***************************************************************************)
EXTENDS Runner, SequenceTheorems, TLAPS

(***************************************************************************)
(* The inductive invariant.  Every context on the stack runs out together  *)
(* with the budget the request asked for: run_report's own one starts      *)
(* later, so it is the enclosing one that stays in force.  And while a     *)
(* child is waited for, its limit and the budget run down in step.         *)
(***************************************************************************)
StackIsOwn == \A i \in 1..Len(stack) : stack[i] = own

OwnWithinBudget ==
    IF budget = None THEN own = None ELSE own \in Nat /\ own <= budget

IdleIsUnbounded == pc = "idle" => stack = <<>>

BusyIsBounded == pc # "idle" => stack # <<>>

CallInStage == call # "none" => pc \in {"caps", "media"}

LimitInStep ==
    call = "wait" =>
        /\ limit <= Ceiling
        /\ IF binds THEN own = limit ELSE own = None \/ own > limit

DrainIsBlamed == call = "drain" /\ binds => own = 0

IInv ==
    /\ TypeOK
    /\ StackIsOwn /\ OwnWithinBudget
    /\ IdleIsUnbounded /\ BusyIsBounded
    /\ CallInStage /\ LimitInStep
    /\ DrainIsBlamed

----------------------------------------------------------------------------
Processes == [alive : BOOLEAN, inGroup : BOOLEAN, pipe : BOOLEAN]

LEMMA ProcessRecords ==
    /\ NoKin \in Processes
    /\ \A g, p \in BOOLEAN : [alive |-> TRUE, inGroup |-> g, pipe |-> p] \in Processes
  BY DEF NoKin, Processes

(* Init establishes the invariant. *)
LEMMA InitIInv == Init => IInv
  <1> SUFFICES ASSUME Init PROVE IInv
      OBVIOUS
  <1>1. TypeOK
    <2>1. kin \in [alive : BOOLEAN, inGroup : BOOLEAN, pipe : BOOLEAN]
          BY ProcessRecords DEF Init, Processes
    <2>2. todo \in 0..MaxChildren /\ limit \in Nat /\ budget \in Budgets
          BY BudgetAssumption, ChildrenAssumption DEF Init
    <2>3. stack \in Seq(Time) /\ own \in Time
          BY DEF Init, Time
    <2> QED
          BY <2>1, <2>2, <2>3 DEF Init, TypeOK, Stages
  <1>2. StackIsOwn
      BY DEF Init, StackIsOwn
  <1>3. OwnWithinBudget /\ IdleIsUnbounded /\ BusyIsBounded
      BY DEF Init, OwnWithinBudget, IdleIsUnbounded, BusyIsBounded
  <1>4. CallInStage /\ LimitInStep /\ DrainIsBlamed
      BY DEF Init, CallInStage, LimitInStep, DrainIsBlamed
  <1> QED
      BY <1>1, <1>2, <1>3, <1>4 DEF IInv

(* In any busy state the deadline in force is the request's own. *)
LEMMA CurrentIsOwn ==
    ASSUME TypeOK, StackIsOwn, stack # <<>>
    PROVE  Current = own /\ own \in Time
  <1>1. Len(stack) \in 1..Len(stack)
      BY DEF TypeOK
  <1> QED
      BY <1>1 DEF TypeOK, StackIsOwn, Current

(* A budget of the same length opened inside the request's own leaves the *)
(* deadline as it is.                                                      *)
LEMMA NestedIsOwn ==
    ASSUME IInv, stack # <<>>
    PROVE  Entered(budget) = own
  <1>1. Current = own /\ own \in Time
      BY CurrentIsOwn DEF IInv
  <1>2. CASE budget = None
      BY <1>1, <1>2 DEF IInv, OwnWithinBudget, Entered
  <1>3. CASE budget # None
      BY <1>1, <1>3, BudgetAssumption
      DEF IInv, TypeOK, OwnWithinBudget, Entered, Least, Time
  <1> QED
      BY <1>2, <1>3

----------------------------------------------------------------------------
(* A request is opened on an empty stack, so its budget is taken as it is. *)
LEMMA FirstIsOwn ==
    ASSUME IInv, pc = "idle", NEW b \in Budgets
    PROVE  Entered(b) = b /\ stack = <<>> /\ b \in Time
  BY BudgetAssumption DEF IInv, IdleIsUnbounded, Entered, Current, Time

(* Each kind of step keeps the type invariant. *)
LEMMA StepTypeOK ==
    ASSUME IInv, [Next]_vars
    PROVE  TypeOK'
  <1> USE DEF TypeOK, IInv
  <1>1. ASSUME NEW b \in Budgets, BeginCli(b) \/ BeginLibrary(b)
        PROVE  TypeOK'
    <2>1. Entered(b) = b /\ b \in Time
          BY <1>1, FirstIsOwn DEF BeginCli, BeginLibrary
    <2>2. stack' \in Seq(Time)
          BY <1>1, <2>1 DEF BeginCli, BeginLibrary
    <2> QED
          BY <1>1, <2>1, <2>2, ChildrenAssumption
          DEF BeginCli, BeginLibrary, Stages, running
  <1>2. ASSUME EnterReport PROVE TypeOK'
    <2>1. stack # <<>>
          BY <1>2 DEF EnterReport, BusyIsBounded
    <2>2. Entered(budget) \in Time
          BY <2>1, NestedIsOwn
    <2>3. stack' \in Seq(Time)
          BY <1>2, <2>2 DEF EnterReport
    <2> QED
          BY <1>2, <2>3 DEF EnterReport, Stages, running, request
  <1>3. ASSUME CheckStart \/ Fail \/ Measured \/ CheckReport PROVE TypeOK'
        BY <1>3 DEF CheckStart, Fail, Measured, CheckReport, Raise, Stages,
                    running, request
  <1>4. ASSUME Unwind PROVE TypeOK'
    <2>1. stack # <<>>
          BY <1>4 DEF Unwind, BusyIsBounded
    <2>2. stack' \in Seq(Time)
          BY <1>4, <2>1 DEF Unwind
    <2> QED
          BY <1>4, <2>2 DEF Unwind, Stages, running, request
  <1>5. ASSUME Launch PROVE TypeOK'
    <2>1. Current = own /\ own \in Time
          BY <1>5, CurrentIsOwn DEF Launch, BusyIsBounded
    <2>2. Limit \in Nat /\ Binds \in BOOLEAN
          BY <2>1, CeilingAssumption, BudgetAssumption
          DEF Limit, Binds, Ceiling, Least, Time
    <2> QED
          BY <1>5, <2>2, ChildrenAssumption
          DEF Launch, Raise, Stages, running
  <1>6. ASSUME Communicate \/ Drain \/ GiveUp PROVE TypeOK'
    <2>1. \E k \in BOOLEAN : Leave(k)
          BY <1>6 DEF Communicate, Drain, GiveUp, AfterKill
    <2>2. kin' \in Processes
          BY <2>1, ProcessRecords DEF Leave
    <2>3. left' \subseteq [killed : BOOLEAN, inGroup : BOOLEAN]
          BY <2>1 DEF Leave
    <2>4. call' = "none" /\ limit' = 0 /\ binds' = FALSE
          BY <2>1 DEF Leave
    <2> QED
          BY <1>6, <2>2, <2>3, <2>4
          DEF Communicate, Drain, GiveUp, AfterKill, Raise, Stages, request, Processes
  <1>7. ASSUME Expire PROVE TypeOK'
    <2>1. kin' \in Processes
          BY <1>7, ProcessRecords DEF Expire, KillGroup, Processes
    <2> QED
          BY <1>7, <2>1, CeilingAssumption DEF Expire, KillGroup, Processes, request
  <1>8. ASSUME Children PROVE TypeOK'
    <2>1. kin' \in Processes
          BY <1>8, ProcessRecords
          DEF Children, ChildExits, ChildStarts, KinExits, Processes
    <2> QED
          BY <1>8, <2>1
          DEF Children, ChildExits, ChildStarts, KinExits, request, Processes
  <1>9. ASSUME Tick PROVE TypeOK'
    <2>1. \A t \in Time : Less(t) \in Time
          BY DEF Less, Time
    <2>2. own' \in Time
          BY <1>9, <2>1 DEF Tick
    <2>3. limit' \in Nat
          BY <1>9, BudgetAssumption DEF Tick, Less
    <2>4. stack' \in Seq(Time)
          <3>1. DOMAIN stack = 1..Len(stack) /\ Len(stack) \in Nat
                OBVIOUS
          <3>2. \A i \in 1..Len(stack) : Less(stack[i]) \in Time
                BY <2>1
          <3>3. stack' = [i \in 1..Len(stack) |-> Less(stack[i])]
                BY <1>9, <3>1 DEF Tick
          <3> QED
                BY <3>1, <3>2, <3>3
    <2> QED
          BY <1>9, <2>2, <2>3, <2>4 DEF Tick, request
  <1>10. ASSUME UNCHANGED vars PROVE TypeOK'
         BY <1>10 DEF vars
  <1> QED
      BY <1>1, <1>2, <1>3, <1>4, <1>5, <1>6, <1>7, <1>8, <1>9, <1>10
      DEF Next, Begin, Program

----------------------------------------------------------------------------
(* Every context on the stack keeps running out with the request's own      *)
(* budget: a first one is that budget, a nested one of the same length is   *)
(* cut to it, and time takes the same from all of them.                     *)
LEMMA StepStack ==
    ASSUME IInv, [Next]_vars
    PROVE  /\ StackIsOwn' /\ OwnWithinBudget'
           /\ IdleIsUnbounded' /\ BusyIsBounded'
  <1> USE DEF StackIsOwn, OwnWithinBudget, IdleIsUnbounded, BusyIsBounded
  <1>0. stack \in Seq(Time) /\ pc \in Stages /\ own \in Time /\ budget \in Budgets
        BY DEF IInv, TypeOK
  <1> DEFINE Goal == /\ StackIsOwn' /\ OwnWithinBudget'
                     /\ IdleIsUnbounded' /\ BusyIsBounded'
  <1>1. ASSUME NEW b \in Budgets, BeginCli(b) \/ BeginLibrary(b)
        PROVE  Goal
    <2>1. Entered(b) = b /\ stack = <<>> /\ b \in Time
          BY <1>1, FirstIsOwn DEF BeginCli, BeginLibrary
    <2>2. stack' = <<b>> /\ own' = b /\ budget' = b /\ pc' # "idle"
          BY <1>1, <2>1 DEF BeginCli, BeginLibrary
    <2> QED
          BY <2>1, <2>2 DEF Time
  <1>2. ASSUME EnterReport PROVE Goal
    <2>1. stack # <<>>
          BY <1>2 DEF EnterReport, IInv
    <2>2. Entered(budget) = own
          BY <2>1, NestedIsOwn
    <2>3. stack' = Append(stack, own) /\ UNCHANGED <<own, budget>> /\ pc' # "idle"
          BY <1>2, <2>2 DEF EnterReport, request
    <2> QED
          BY <1>0, <2>3 DEF IInv
  <1>3. ASSUME CheckStart \/ Fail \/ Measured \/ CheckReport \/ Launch
        PROVE  Goal
    <2>1. UNCHANGED <<stack, own, budget>> /\ pc # "idle" /\ pc' # "idle"
          BY <1>3 DEF CheckStart, Fail, Measured, CheckReport, Launch, Raise,
                      request, running
    <2> QED
          BY <2>1 DEF IInv
  <1>4. ASSUME Unwind PROVE Goal
    <2>1. stack # <<>>
          BY <1>4 DEF Unwind, IInv
    <2>2. /\ Len(stack') = Len(stack) - 1
          /\ \A i \in 1..Len(stack') : stack'[i] = stack[i]
      <3>1. stack' = SubSeq(stack, 1, Len(stack) - 1)
            BY <1>4 DEF Unwind
      <3>2. Len(stack) \in Nat \ {0}
            BY <1>0, <2>1
      <3> DEFINE n == Len(stack) - 1
      <3>3. n \in Nat /\ \A i \in 1..n : stack[i] \in Time
            BY <1>0, <3>2
      <3>4. /\ Len(SubSeq(stack, 1, n)) = IF 1 <= n THEN n - 1 + 1 ELSE 0
            /\ \A i \in 1..n - 1 + 1 : SubSeq(stack, 1, n)[i] = stack[1 + i - 1]
            BY <3>3, SubSeqProperties
      <3>5. stack' = SubSeq(stack, 1, n)
            BY <3>1
      <3> HIDE DEF n
      <3>6. Len(stack') = n /\ \A i \in 1..n : stack'[i] = stack[i]
            BY <3>3, <3>4, <3>5
      <3> QED
          BY <3>6 DEF n
    <2>3. stack' \in Seq(Time)
          BY StepTypeOK DEF TypeOK
    <2>4. pc' = "idle" <=> Len(stack') = 0
          BY <1>0, <1>4, <2>1, <2>2 DEF Unwind
    <2>5. UNCHANGED <<own, budget>>
          BY <1>4 DEF Unwind, request
    <2> QED
          BY <1>0, <2>1, <2>2, <2>3, <2>4, <2>5 DEF IInv
  <1>5. ASSUME Communicate \/ Expire \/ Drain \/ GiveUp PROVE Goal
    <2>1. UNCHANGED <<stack, own, budget>> /\ call # "none"
          BY <1>5 DEF Communicate, Expire, Drain, GiveUp, AfterKill, request
    <2>2. pc # "idle"
          BY <2>1 DEF IInv, CallInStage
    <2>3. pc' = pc \/ pc' = "unwind"
          BY <1>5 DEF Communicate, Expire, Drain, GiveUp, AfterKill, Raise
    <2> QED
          BY <2>1, <2>2, <2>3 DEF IInv
  <1>6. ASSUME Children \/ UNCHANGED vars PROVE Goal
    <2>1. UNCHANGED <<stack, own, budget, pc>>
          BY <1>6 DEF Children, ChildExits, ChildStarts, KinExits, request, vars
    <2> QED
          BY <2>1 DEF IInv
  <1>7. ASSUME Tick PROVE Goal
    <2>1. /\ pc # "idle" /\ pc' = pc
          /\ own' = Less(own) /\ budget' = budget
          /\ stack' = [i \in DOMAIN stack |-> Less(stack[i])]
          BY <1>7 DEF Tick, request
    <2>2. DOMAIN stack = 1..Len(stack) /\ Len(stack) \in Nat
          BY <1>0
    <2>3. Len(stack') = Len(stack) /\ \A i \in 1..Len(stack) : stack'[i] = Less(stack[i])
          BY <2>1, <2>2
    <2>4. StackIsOwn'
          BY <2>1, <2>3 DEF IInv
    <2>5. OwnWithinBudget'
          BY <1>0, <2>1, BudgetAssumption DEF IInv, Less, Time
    <2>6. stack' # <<>>
          BY <1>0, <2>1, <2>2, <2>3 DEF IInv
    <2> QED
          BY <2>1, <2>4, <2>5, <2>6
  <1> QED
      BY <1>1, <1>2, <1>3, <1>4, <1>5, <1>6, <1>7 DEF Next, Begin, Program

(* The limit of a communicate call and the budget run down in step, so the *)
(* comparison made when the child was started still decides at the timeout. *)
LEMMA StepCall ==
    ASSUME IInv, [Next]_vars
    PROVE  CallInStage' /\ LimitInStep' /\ DrainIsBlamed'
  <1> USE DEF CallInStage, LimitInStep, DrainIsBlamed
  <1>0. own \in Time /\ limit \in Nat /\ binds \in BOOLEAN
        /\ call \in {"none", "wait", "drain"}
        BY DEF IInv, TypeOK
  <1> DEFINE Goal == CallInStage' /\ LimitInStep' /\ DrainIsBlamed'
  <1>1. ASSUME Begin \/ EnterReport \/ CheckStart \/ Fail \/ Measured
               \/ CheckReport \/ Unwind
        PROVE  Goal
    <2>1. call = "none"
          BY <1>1 DEF Begin, BeginCli, BeginLibrary, EnterReport, CheckStart,
                      Fail, Measured, CheckReport, Unwind, IInv
    <2>2. call' = call
          BY <1>1 DEF Begin, BeginCli, BeginLibrary, EnterReport, CheckStart,
                      Fail, Measured, CheckReport, Unwind, running
    <2> QED
          BY <2>1, <2>2
  <1>2. ASSUME Launch PROVE Goal
    <2>1. Current = own
          BY <1>2, CurrentIsOwn DEF Launch, IInv, BusyIsBounded
    <2>2. CASE Spent
          BY <1>2, <2>2 DEF Launch, running
    <2>3. CASE ~Spent
      <3>1. /\ call' = "wait" /\ pc' = pc /\ own' = own
            /\ limit' = Limit /\ binds' = Binds
            BY <1>2, <2>3 DEF Launch
      <3>2. Ceiling' = Ceiling /\ Ceiling \in Nat
            BY <3>1, CeilingAssumption DEF Ceiling
      <3>3. CallInStage' /\ DrainIsBlamed'
            BY <1>2, <3>1 DEF Launch
      <3>4. CASE Binds
        <4>1. own \in Nat /\ limit' = own /\ own <= Ceiling
              BY <1>0, <2>1, <3>1, <3>2, <3>4 DEF Binds, Limit, Least, Time
        <4>2. binds' = TRUE
              BY <3>1, <3>4
        <4> QED
              BY <3>1, <3>2, <3>3, <4>1, <4>2
      <3>5. CASE ~Binds
        <4>1. limit' = Ceiling /\ (own = None \/ own > Ceiling)
              BY <1>0, <2>1, <3>1, <3>2, <3>5 DEF Binds, Limit, Least, Time
        <4>2. binds' = FALSE
              BY <3>1, <3>5
        <4> QED
              BY <3>1, <3>2, <3>3, <4>1, <4>2
      <3> QED
          BY <3>4, <3>5
    <2> QED
        BY <2>2, <2>3
  <1>3. ASSUME Communicate \/ Drain \/ GiveUp PROVE Goal
        BY <1>3 DEF Communicate, Drain, GiveUp, AfterKill, Leave
  <1>4. ASSUME Expire PROVE Goal
    <2>1. /\ call = "wait" /\ limit = 0 /\ call' = "drain"
          /\ UNCHANGED <<pc, binds, own>>
          BY <1>4 DEF Expire
    <2> QED
          BY <2>1 DEF IInv
  <1>5. ASSUME Children \/ UNCHANGED vars PROVE Goal
    <2>1. UNCHANGED <<pc, call, limit, binds, own>>
          BY <1>5 DEF Children, ChildExits, ChildStarts, KinExits, vars
    <2> QED
          BY <2>1 DEF IInv, Ceiling
  <1>6. ASSUME Tick PROVE Goal
    <2>1. /\ UNCHANGED <<pc, call, binds>>
          /\ call # "none" => limit > 0
          /\ limit' = Less(limit) /\ own' = Less(own)
          BY <1>6 DEF Tick
    <2>2. Ceiling' = Ceiling /\ Ceiling \in Nat
          BY <2>1, CeilingAssumption DEF Ceiling
    <2>3. CallInStage' /\ DrainIsBlamed'
          BY <2>1, BudgetAssumption DEF IInv, Less
    <2>4. call = "wait" => limit' = limit - 1 /\ limit # None
          BY <1>0, <2>1, BudgetAssumption DEF Less
    <2>5. own = None => own' = None
          BY <2>1 DEF Less
    <2>6. own \in Nat \ {0} => own' = own - 1
          BY <2>1, BudgetAssumption DEF Less
    <2>7. LimitInStep'
          BY <1>0, <2>1, <2>2, <2>4, <2>5, <2>6, BudgetAssumption DEF IInv, Time
    <2> QED
          BY <2>3, <2>7
  <1> QED
      BY <1>1, <1>2, <1>3, <1>4, <1>5, <1>6 DEF Next, Program

(* The invariant holds in every state. *)
THEOREM Invariance == SafeSpec => []IInv
  <1>1. Init => IInv
        BY InitIInv
  <1>2. IInv /\ [Next]_vars => IInv'
        BY StepTypeOK, StepStack, StepCall DEF IInv
  <1> QED
      BY <1>1, <1>2, PTL DEF SafeSpec

(* Every variable keeps its type (the state of runner.py 110-208). *)
THEOREM TypeCorrect == SafeSpec => []TypeOK
  <1>1. IInv => TypeOK
        BY DEF IInv
  <1> QED
      BY Invariance, <1>1, PTL

(* request_deadline, runner.py 115-117: a nested budget never extends an *)
(* enclosing one.                                                        *)
THEOREM BudgetsNest == SafeSpec => []NestedNeverExtends
  <1>1. IInv => NestedNeverExtends
    <2> SUFFICES ASSUME IInv, NEW i \in 1..Len(stack), NEW j \in 1..Len(stack),
                        i < j, stack[i] # None
                 PROVE  stack[j] # None /\ stack[j] <= stack[i]
        BY DEF NestedNeverExtends
    <2>1. stack[i] = own /\ stack[j] = own /\ own \in Nat
          BY DEF IInv, StackIsOwn, TypeOK, Time
    <2> QED
        BY <2>1
  <1> QED
      BY Invariance, <1>1, PTL

(* Wherever run_argv or check_deadline reads _DEADLINE it is the budget the *)
(* request asked for: no request inherits one from an earlier request.      *)
THEOREM OwnBudgetInForce == SafeSpec => []BudgetInForce
  <1>1. IInv => BudgetInForce
        BY CurrentIsOwn DEF IInv, BudgetInForce
  <1> QED
      BY Invariance, <1>1, PTL

(* run_argv, runner.py 172-186: a child gets neither more than its ceiling *)
(* nor more than what is left of the request's budget.                     *)
THEOREM ChildrenBounded == SafeSpec => []ChildBounded
  <1>1. IInv => ChildBounded
        BY DEF IInv, TypeOK, Time, LimitInStep, ChildBounded
  <1> QED
      BY Invariance, <1>1, PTL

(* run_argv, runner.py 188-198: when a child is killed at its timeout the   *)
(* comparison made at its start says TIMEOUT exactly if the budget ran out. *)
THEOREM TimeoutsAreBlamed == SafeSpec => ExpiryBlamed
  <1>1. IInv /\ [Next]_vars => [Expire => (binds <=> own = 0)]_vars
    <2> SUFFICES ASSUME IInv, Expire PROVE binds <=> own = 0
        OBVIOUS
    <2>1. call = "wait" /\ limit = 0
          BY DEF Expire
    <2> QED
        BY <2>1, BudgetAssumption DEF IInv, TypeOK, Time, LimitInStep
  <1> QED
      BY Invariance, <1>1, PTL DEF SafeSpec, ExpiryBlamed

(* The three places that raise TIMEOUT (run_argv before and after a child,  *)
(* check_deadline) do so only when the request's own budget is spent, and a *)
(* response leaves run_report only while it is not.                         *)
THEOREM TimeoutsAreJustified == SafeSpec => OutcomeJustified
  <1> DEFINE Step == /\ outcome' = "TIMEOUT" => own = 0
                     /\ outcome' = "completed" => own # 0
  <1>1. IInv /\ [Next]_vars => [Step]_outcome
    <2> SUFFICES ASSUME IInv, [Next]_vars, outcome' # outcome PROVE Step
        OBVIOUS
    <2>1. CASE Begin
          BY <2>1 DEF Begin, BeginCli, BeginLibrary
    <2>2. CASE CheckStart \/ CheckReport \/ Launch
      <3>1. Current = own
            BY <2>2, CurrentIsOwn
            DEF CheckStart, CheckReport, Launch, IInv, BusyIsBounded
      <3> QED
          BY <2>2, <3>1 DEF CheckStart, CheckReport, Launch, Raise, Spent
    <2>3. CASE Fail
          BY <2>3 DEF Fail, Raise
    <2>4. CASE Drain \/ GiveUp
          BY <2>4 DEF Drain, GiveUp, AfterKill, Raise, IInv, DrainIsBlamed
    <2>5. CASE \/ EnterReport \/ Measured \/ Unwind \/ Communicate \/ Expire
               \/ Children \/ Tick \/ UNCHANGED vars
          BY <2>5 DEF EnterReport, Measured, Unwind, Communicate, Expire,
                      Children, ChildExits, ChildStarts, KinExits, Tick, vars
    <2> QED
        BY <2>1, <2>2, <2>3, <2>4, <2>5 DEF Next, Program
  <1> QED
      BY Invariance, <1>1, PTL DEF SafeSpec, OutcomeJustified

----------------------------------------------------------------------------
(* The invariant behind KillReachesGroup: between the kill and the return   *)
(* of run_argv the child waits to be reaped, and what it started is gone    *)
(* unless it left the group.  It needs nothing of the time, and no type but *)
(* that call and kin are among their values.                                *)
WaitHasChild == call = "wait" => child \in {"running", "zombie"}

DrainIsClean == call = "drain" => child = "zombie" /\ ~kin.inGroup

KillInv ==
  /\ call \in {"none", "wait", "drain"} /\ kin \in Processes
  /\ WaitHasChild /\ DrainIsClean /\ KillReachesGroup

LEMMA StepKillInv ==
    ASSUME KillInv, [Next]_vars
    PROVE  KillInv'
  <1> USE DEF KillInv, WaitHasChild, DrainIsClean, KillReachesGroup
  <1>1. ASSUME UNCHANGED running PROVE KillInv'
        BY <1>1 DEF running
  <1>2. CASE \/ Begin \/ EnterReport \/ CheckStart \/ Fail \/ Measured
             \/ CheckReport \/ Unwind \/ Tick \/ UNCHANGED vars
    <2>1. UNCHANGED <<call, child, kin, left>>
          BY <1>2 DEF Begin, BeginCli, BeginLibrary, EnterReport, CheckStart,
                      Fail, Measured, CheckReport, Unwind, Tick, vars, running
    <2> QED
          BY <2>1
  <1>3. CASE Launch
    <2>1. CASE UNCHANGED running
          BY <1>1, <2>1
    <2>2. CASE call' = "wait" /\ child' = "running" /\ UNCHANGED <<kin, left>>
          BY <2>2
    <2> QED
          BY <1>3, <2>1, <2>2 DEF Launch
  <1>4. ASSUME NEW k \in BOOLEAN, Leave(k), child' = "reaped",
               k => ~kin.inGroup
        PROVE  KillInv'
    <2>1. call' = "none" /\ kin' \in Processes
          BY <1>4, ProcessRecords DEF Leave
    <2>2. [killed |-> TRUE, inGroup |-> TRUE] \notin left'
      <3>1. [killed |-> TRUE, inGroup |-> TRUE] # [killed |-> k, inGroup |-> kin.inGroup]
            BY <1>4
      <3> QED
            BY <1>4, <3>1 DEF Leave
    <2> QED
          BY <1>4, <2>1, <2>2
  <1>5. CASE Communicate
        BY <1>4, <1>5 DEF Communicate
  <1>6. CASE Drain \/ GiveUp
        BY <1>4, <1>6 DEF Drain, GiveUp, AfterKill
  <1>7. CASE Expire
    <2>1. kin' \in Processes /\ ~kin'.inGroup
          BY <1>7, ProcessRecords DEF Expire, KillGroup, NoKin, Processes
    <2> QED
          BY <1>7, <2>1 DEF Expire, KillGroup
  <1>8. CASE ChildExits
        BY <1>8 DEF ChildExits
  <1>9. CASE ChildStarts \/ KinExits
    <2>1. UNCHANGED <<call, child, left>> /\ kin' \in Processes
          BY <1>9, ProcessRecords DEF ChildStarts, KinExits
    <2>2. call = "drain" => ~kin'.inGroup
          BY <1>9 DEF ChildStarts, KinExits, NoKin
    <2> QED
          BY <2>1, <2>2
  <1> QED
      BY <1>2, <1>3, <1>5, <1>6, <1>7, <1>8, <1>9 DEF Next, Program, Children

(* run_argv, runner.py 146-198 with _kill_group: after a kill the child has *)
(* been reaped and only a process that left its group can be alive, however *)
(* the exits of the child and of what it started fall.                      *)
THEOREM KillsReachTheGroup == SafeSpec => []KillReachesGroup
  <1>1. Init => KillInv
        BY ProcessRecords
        DEF Init, KillInv, WaitHasChild, DrainIsClean, KillReachesGroup
  <1>2. KillInv /\ [Next]_vars => KillInv'
        BY StepKillInv
  <1>3. KillInv => KillReachesGroup
        BY DEF KillInv
  <1> QED
      BY <1>1, <1>2, <1>3, PTL DEF SafeSpec
=============================================================================
