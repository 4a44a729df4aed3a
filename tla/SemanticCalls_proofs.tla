----------------------- MODULE SemanticCalls_proofs -----------------------
(***************************************************************************)
(* Machine-checked theorems about SemanticCalls, for every number of       *)
(* tasks, every depth of nesting and every scheduler.                      *)
(***************************************************************************)
EXTENDS SemanticCalls, FiniteSetTheorems, TLAPS

-----------------------------------------------------------------------------
(***************************************************************************)
(* Type correctness.                                                       *)
(***************************************************************************)

\* ArenaLevel and ActiveTask are well typed: every call gets an owner and an arena.
LEMMA ActiveTaskType == TypeOK => ActiveTask \in Tasks
  BY TasksAssumption DEF TypeOK, ActiveTask

\* The level of the arena chosen for a call is a natural number.
LEMMA ArenaLevelType == ASSUME TypeOK, NEW t \in Tasks PROVE ArenaLevel(t) \in Nat
  BY DEF TypeOK, ArenaLevel

\* Entering a semantic call keeps every table well typed.
LEMMA BeginCallType ==
  ASSUME TypeOK, NEW op \in Ops, NEW owner \in Tasks, NEW preserve \in BOOLEAN,
         NEW cell \in Tasks, NEW entry \in {"user", "kernel"}, NEW resume \in Control,
         BeginCall(op, owner, preserve, cell, entry, resume),
         exitTask' \in Tasks \cup {NoTask}, linuxCurrent' \in Tasks,
         pending' \in Tasks \cup {NoTask}, forkConts' = forkConts
  PROVE  TypeOK'
<1> DEFINE stack == [task |-> owner, level |-> ArenaLevel(owner)]
           rec == [op |-> op, owner |-> owner, stack |-> stack, preserve |-> preserve,
                   prevDepth |-> callDepth, taskDepth |-> taskDepths[owner],
                   resume |-> resume, current |-> cell, contexts |-> contexts,
                   active |-> activeUser]
<1>1. stack \in Stacks
  BY ArenaLevelType DEF Stacks
<1>2. rec \in CallRecord
  BY <1>1 DEF CallRecord, TypeOK
<1>3. calls' \in Seq(CallRecord)
  <2> HIDE DEF rec
  <2> calls' = Append(calls, rec)
    BY DEF BeginCall, rec
  <2> QED BY <1>2 DEF TypeOK
<1>4. control' \in Control
  <2>1. control' = Place(entry, IF entry = "user" THEN control.task ELSE cell, stack, op, 0)
    BY DEF BeginCall
  <2>2. control.task \in Tasks
    BY DEF TypeOK, Control
  <2> QED BY <1>1, <2>1, <2>2 DEF Place, Control
<1>5. callTasks' \in Seq(Tasks)
  <2>1. SyncedCallTasks(owner) \in Seq(Tasks)
    <3>1. SyncedCallTasks(owner) \in [1..callDepth -> Tasks]
      BY DEF SyncedCallTasks, TypeOK
    <3>2. callDepth \in Nat
      BY DEF TypeOK
    <3> QED BY <3>1, <3>2
  <2> QED BY <2>1 DEF BeginCall
<1> HIDE DEF stack, rec
<1>6. callDepth' \in Nat /\ kernelCurrent' \in Tasks
  BY DEF BeginCall, TypeOK
<1>9. halted' \in BOOLEAN
  BY Zenon DEF BeginCall
<1>7. taskDepths' \in [Tasks -> Nat]
  BY DEF BeginCall, TypeOK
<1>8. UNCHANGED <<stopDepth, contexts, activeUser, rqCurr, taskState, parent, vforkDone>>
  BY DEF BeginCall, kernelVars
<1> QED BY <1>3, <1>4, <1>5, <1>6, <1>7, <1>8, <1>9 DEF TypeOK

\* Arming a transfer leaves a depth or no depth.
LEMMA ArmTransferType ==
  ASSUME TypeOK, NEW t \in Tasks, ArmTransfer(t)
  PROVE  stopDepth' \in Nat \cup {NoStop} /\ halted' \in BOOLEAN
<1>1. CASE stopDepth' = stopDepth /\ halted' = FALSE
  <2>1. stopDepth' \in Nat \cup {NoStop}
    BY <1>1 DEF TypeOK
  <2>2. halted' \in BOOLEAN
    BY <1>1, Zenon
  <2> QED BY <2>1, <2>2
<1>2. ASSUME NEW d \in 0 .. callDepth - 1, stopDepth' = d, halted' = TRUE
      PROVE  stopDepth' \in Nat \cup {NoStop} /\ halted' \in BOOLEAN
  <2>1. stopDepth' \in Nat \cup {NoStop}
    BY <1>2 DEF TypeOK
  <2>2. halted' \in BOOLEAN
    BY <1>2, Zenon
  <2> QED BY <2>1, <2>2
<1> QED BY <1>1, <1>2, Zenon DEF ArmTransfer

\* A task switch of service 2 keeps every table well typed.
LEMMA SwitchToType ==
  ASSUME TypeOK, NEW next \in Tasks, NEW states \in [Tasks -> TaskStates], NEW op \in Ops,
         SwitchTo(next, states, op),
         parent' \in [Tasks -> Tasks \cup {NoTask}], vforkDone' \subseteq Tasks
  PROVE  TypeOK'
<1>1. control.stack \in Stacks
  BY DEF TypeOK, Control
<1>2. contexts' \in [Tasks -> Context]
  BY <1>1 DEF SwitchTo, TypeOK, Context
<1>3. control' \in Control
  <2>1. ShadowStack(next) \in Stacks
    BY DEF ShadowStack, Stacks, Shadow
  <2>2. contexts[next].stack \in Stacks /\ contexts[next].op \in Ops
    BY DEF TypeOK, Context
  <2>3. CASE contexts[next] # NoContext
    <3>1. control' = Place("kernel", next, contexts[next].stack, contexts[next].op, 0)
      BY <2>3 DEF SwitchTo
    <3> QED BY <3>1, <2>2 DEF Place, Control
  <2>4. CASE contexts[next] = NoContext
    <3>1. PICK o \in Ops : control' = Place("kernel", next, ShadowStack(next), o, 0)
      BY <2>4 DEF SwitchTo, Ops
    <3> QED BY <3>1, <2>1 DEF Place, Control
  <2> QED BY <2>3, <2>4
<1>4. /\ forkConts' \in [Tasks -> Tasks \cup {NoTask}]
      /\ pending' \in Tasks \cup {NoTask}
  BY DEF SwitchTo, TypeOK
<1>5. /\ stopDepth' \in Nat \cup {NoStop}
      /\ halted' \in BOOLEAN
      /\ exitTask' \in Tasks \cup {NoTask}
  <2>1. CASE exitTask # NoTask /\ exitTask = rqCurr
    <3>1. ArmTransfer(rqCurr) /\ exitTask' = NoTask
      BY <2>1 DEF SwitchTo
    <3>2. rqCurr \in Tasks
      BY DEF TypeOK
    <3> QED BY <3>1, <3>2, ArmTransferType
  <2>2. CASE ~(exitTask # NoTask /\ exitTask = rqCurr)
    <3>1. halted' = FALSE /\ stopDepth' = stopDepth /\ exitTask' = exitTask
      BY <2>2 DEF SwitchTo, transferVars
    <3>2. stopDepth' \in Nat \cup {NoStop} /\ exitTask' \in Tasks \cup {NoTask}
      BY <3>1 DEF TypeOK
    <3>3. halted' \in BOOLEAN
      BY <3>1, Zenon
    <3> QED BY <3>2, <3>3
  <2> QED BY <2>1, <2>2
<1>6. linuxCurrent' \in Tasks /\ activeUser' \in Tasks /\ kernelCurrent' \in Tasks /\ rqCurr' \in Tasks
  BY DEF SwitchTo
<1>7. taskState' \in [Tasks -> TaskStates]
  BY DEF SwitchTo, TaskStates
<1>8. UNCHANGED <<calls, callDepth, callTasks, taskDepths>>
  BY DEF SwitchTo, hostVars
<1> QED BY <1>2, <1>3, <1>4, <1>5, <1>6, <1>7, <1>8 DEF TypeOK

\* Waking a parent held in vfork leaves a table of task states.
LEMMA ReleaseVforkType ==
  ASSUME NEW states \in [Tasks -> TaskStates], NEW t \in Tasks
  PROVE  ReleaseVfork(states, t) \in [Tasks -> TaskStates]
  BY DEF ReleaseVfork, TaskStates

\* A guest function's return keeps the type of every table.
LEMMA ReturnType ==
  ASSUME TypeOK, NEW outcome \in {Succeeded, Failed, Restart}, Return(outcome),
         taskState' \in [Tasks -> TaskStates]
  PROVE  TypeOK'
<1>1. control' \in Control
  <2>1. control' = [control EXCEPT !.at = "returned", !.n = outcome]
    BY DEF Return
  <2>2. outcome \in Nat
    BY DEF Succeeded, Failed, Restart
  <2>3. control \in Control
    BY DEF TypeOK
  <2> QED BY <2>1, <2>2, <2>3 DEF Control
<1>2. halted' \in BOOLEAN
  BY Zenon DEF Return
<1>3. UNCHANGED <<calls, callDepth, callTasks, taskDepths, stopDepth, exitTask, contexts,
                  linuxCurrent, activeUser, pending, forkConts, kernelCurrent, rqCurr,
                  parent, vforkDone>>
  BY DEF Return, hostVars, transferVars, forkVars
<1> QED BY <1>1, <1>2, <1>3 DEF TypeOK

\* The innermost activation is a record of the stack.
LEMMA TopType ==
  ASSUME TypeOK, calls # <<>>
  PROVE  Len(calls) \in Nat \ {0} /\ Top \in CallRecord
  BY DEF TypeOK, Top

\* Popping an activation restores well-typed tables.
LEMMA PopCallType ==
  ASSUME TypeOK, calls # <<>>, PopCall
  PROVE  /\ calls' \in Seq(CallRecord)
         /\ callDepth' \in Nat
         /\ callTasks' \in Seq(Tasks)
         /\ taskDepths' \in [Tasks -> Nat]
<1>1. Len(calls) \in Nat \ {0} /\ Top \in CallRecord
  BY TopType
<1>2. calls' \in Seq(CallRecord)
  BY <1>1 DEF PopCall, TypeOK
<1>3. callDepth' \in Nat
  BY <1>1 DEF PopCall, CallRecord
<1>4. callTasks' \in Seq(Tasks)
  BY DEF PopCall, TypeOK
<1>5. taskDepths' \in [Tasks -> Nat]
  BY <1>1 DEF PopCall, TypeOK, CallRecord
<1> QED BY <1>2, <1>3, <1>4, <1>5

\* The machine starts as typed.
LEMMA InitType == Init => TypeOK
<1> SUFFICES ASSUME Init PROVE TypeOK
  OBVIOUS
<1>1. control \in Control
  BY TasksAssumption DEF Init, UserCode, Place, UserStack, Control, Stacks, Ops, Tasks
<1>2. halted \in BOOLEAN
  BY Zenon DEF Init
<1>3. /\ calls \in Seq(CallRecord)
      /\ callDepth \in Nat
      /\ callTasks \in Seq(Tasks)
      /\ taskDepths \in [Tasks -> Nat]
      /\ stopDepth \in Nat \cup {NoStop}
      /\ exitTask \in Tasks \cup {NoTask}
      /\ forkConts \in [Tasks -> Tasks \cup {NoTask}]
      /\ parent \in [Tasks -> Tasks \cup {NoTask}]
      /\ pending \in Tasks \cup {NoTask}
      /\ vforkDone \subseteq Tasks
  BY DEF Init
<1>4. linuxCurrent \in Tasks /\ activeUser \in Tasks /\ kernelCurrent \in Tasks /\ rqCurr \in Tasks
  BY TasksAssumption DEF Init, Tasks
<1>5. PICK started \in SUBSET KThreads :
        /\ taskState = [t \in Tasks |-> IF t = Shell \/ t \in started THEN "ready"
                                        ELSE IF t \in KThreads THEN "new" ELSE "none"]
        /\ contexts = [t \in Tasks |-> IF t \in started
                                       THEN [stack |-> ShadowStack(t), op |-> "kthread"]
                                       ELSE NoContext]
  BY DEF Init
<1>6. taskState \in [Tasks -> TaskStates]
  BY <1>5 DEF TaskStates
<1>7. contexts \in [Tasks -> Context]
  BY <1>5 DEF Context, NoContext, ShadowStack, Shadow, UserStack, Stacks, Ops
<1> QED BY <1>1, <1>2, <1>3, <1>4, <1>6, <1>7 DEF TypeOK

\* Every step of the machine keeps every table well typed.
LEMMA NextType == TypeOK /\ [Next]_vars => TypeOK'
<1> SUFFICES ASSUME TypeOK, [Next]_vars PROVE TypeOK'
  OBVIOUS
<1>a. ActiveTask \in Tasks /\ control \in Control /\ control.task \in Tasks
      /\ kernelCurrent \in Tasks /\ linuxCurrent \in Tasks
  BY ActiveTaskType DEF TypeOK, Control
<1>b. control.op \in Ops
  BY <1>a DEF Control
<1>1. ASSUME NEW op \in {"io", "exec", "exit"}, SystemCall(op) PROVE TypeOK'
  <2>1. op \in Ops
    BY DEF Ops
  <2>2. exitTask' \in Tasks \cup {NoTask} /\ linuxCurrent' \in Tasks
    BY <1>1, <1>a DEF SystemCall, TypeOK
  <2>3. pending' \in Tasks \cup {NoTask} /\ forkConts' = forkConts
    BY <1>1 DEF SystemCall, TypeOK, forkVars
  <2>4. BeginCall(op, ActiveTask, FALSE, ActiveTask, "kernel", control)
    BY <1>1 DEF SystemCall
  <2> QED BY <2>1, <2>2, <2>3, <2>4, <1>a, BeginCallType
<1>2. CASE QsortCompare
  <2>1. "compare" \in Ops
    BY DEF Ops
  <2>2. /\ exitTask' \in Tasks \cup {NoTask} /\ linuxCurrent' \in Tasks
        /\ pending' \in Tasks \cup {NoTask} /\ forkConts' = forkConts
    BY <1>2, <1>a DEF QsortCompare, TypeOK, forkVars
  <2>3. BeginCall("compare", ActiveTask, FALSE, ActiveTask, "user", control)
    BY <1>2 DEF QsortCompare
  <2> QED BY <2>1, <2>2, <2>3, <1>a, BeginCallType
<1>3. ASSUME NEW op \in {"fork", "vfork"}, UserFork(op) PROVE TypeOK'
  <2>1. op \in Ops
    BY DEF Ops
  <2>2. /\ exitTask' \in Tasks \cup {NoTask} /\ linuxCurrent' \in Tasks
        /\ pending' \in Tasks \cup {NoTask} /\ forkConts' = forkConts
    BY <1>3, <1>a DEF UserFork, TypeOK
  <2>3. Place("host", control.task, UserStack, op, 0) \in Control
    BY <2>1, <1>a DEF Place, Control, UserStack, Stacks
  <2>4. BeginCall(op, ActiveTask, TRUE, ActiveTask, "kernel",
                  Place("host", control.task, UserStack, op, 0))
    BY <1>3 DEF UserFork
  <2> QED BY <2>1, <2>2, <2>3, <2>4, <1>a, BeginCallType
<1>4. CASE UserWaitpid
  <2>1. control' \in Control
    BY <1>4, <1>a DEF UserWaitpid, Place, Control, UserStack, Stacks, Ops
  <2>2. linuxCurrent' \in Tasks /\ kernelCurrent' \in Tasks
    BY <1>4, <1>a DEF UserWaitpid
  <2>3. UNCHANGED <<halted, calls, callDepth, callTasks, taskDepths, stopDepth, exitTask,
                    contexts, activeUser, pending, forkConts, rqCurr, taskState, parent,
                    vforkDone>>
    BY <1>4 DEF UserWaitpid, hostVars, transferVars, forkVars, kernelVars
  <2> QED BY <2>1, <2>2, <2>3 DEF TypeOK
<1>5. CASE ForkRetry
  <2>1. /\ exitTask' \in Tasks \cup {NoTask} /\ linuxCurrent' \in Tasks
        /\ pending' \in Tasks \cup {NoTask} /\ forkConts' = forkConts
    BY <1>5, <1>a DEF ForkRetry, TypeOK, forkVars
  <2>2. BeginCall(control.op, ActiveTask, TRUE, kernelCurrent, "kernel", control)
    BY <1>5 DEF ForkRetry
  <2> QED BY <2>1, <2>2, <1>a, <1>b, BeginCallType
<1>6. CASE WaitpidSchedule
  <2> DEFINE owner == IF linuxCurrent # NoTask THEN linuxCurrent ELSE ActiveTask
             resume == [control EXCEPT !.n = @ + 1]
  <2>1. /\ exitTask' \in Tasks \cup {NoTask} /\ linuxCurrent' \in Tasks
        /\ pending' \in Tasks \cup {NoTask} /\ forkConts' = forkConts
    BY <1>6, <1>a DEF WaitpidSchedule, TypeOK, forkVars
  <2>2. owner \in Tasks
    BY <1>a
  <2>3. resume \in Control
    BY <1>a DEF Control
  <2>4. BeginCall("schedule", owner, TRUE, kernelCurrent, "kernel", resume)
    BY <1>6 DEF WaitpidSchedule
  <2>5. "schedule" \in Ops
    BY DEF Ops
  <2> HIDE DEF owner, resume
  <2> QED BY <2>1, <2>2, <2>3, <2>4, <2>5, <1>a, BeginCallType
<1>7. CASE WaitpidWait4
  <2>1. /\ exitTask' \in Tasks \cup {NoTask} /\ linuxCurrent' \in Tasks
        /\ pending' \in Tasks \cup {NoTask} /\ forkConts' = forkConts
    BY <1>7, <1>a DEF WaitpidWait4, TypeOK, forkVars
  <2>2. UserCode(control.task) \in Control
    BY <1>a DEF UserCode, Place, Control, UserStack, Stacks, Ops
  <2>3. BeginCall("wait4", ActiveTask, TRUE, kernelCurrent, "kernel", UserCode(control.task))
    BY <1>7 DEF WaitpidWait4
  <2>4. "wait4" \in Ops
    BY DEF Ops
  <2> QED BY <2>1, <2>2, <2>3, <2>4, <1>a, BeginCallType
<1>7a. CASE WaitpidTrap
  <2>1. /\ exitTask' \in Tasks \cup {NoTask} /\ linuxCurrent' \in Tasks
        /\ pending' \in Tasks \cup {NoTask} /\ forkConts' = forkConts
    BY <1>7a, <1>a DEF WaitpidTrap, TypeOK, forkVars
  <2>2. Place("host", control.task, UserStack, "wait4", 0) \in Control
    BY <1>a DEF Place, Control, UserStack, Stacks, Ops
  <2>3. BeginCall("trap", ActiveTask, FALSE, kernelCurrent, "kernel",
                  Place("host", control.task, UserStack, "wait4", 0))
    BY <1>7a DEF WaitpidTrap
  <2>4. "trap" \in Ops
    BY DEF Ops
  <2> QED BY <2>1, <2>2, <2>3, <2>4, <1>a, BeginCallType
<1>8. CASE FinishReturn
  <2>1. calls # <<>> /\ PopCall /\ Top \in CallRecord
    BY <1>8, TopType DEF FinishReturn
  <2>2. Top.resume \in Control /\ Top.resume.task \in Tasks /\ Top.current \in Tasks
        /\ Top.contexts \in [Tasks -> Context] /\ Top.active \in Tasks
    BY <2>1 DEF CallRecord, Control
  <2>3. control' \in Control
    <3>1. UserCode(Top.resume.task) \in Control
      BY <2>2 DEF UserCode, Place, Control, UserStack, Stacks, Ops
    <3>2. [Top.resume EXCEPT !.n = @ + 1] \in Control
      BY <2>2 DEF Control
    <3>3. control' = AfterCall(Top)
      BY <1>8 DEF FinishReturn
    <3> QED BY <3>1, <3>2, <3>3, <2>2 DEF AfterCall
  <2>4. pending' \in Tasks \cup {NoTask}
    BY <1>8 DEF FinishReturn, PendingAfterCall, TypeOK
  <2>5. halted' \in BOOLEAN
    BY <1>8, Zenon DEF FinishReturn
  <2>6. kernelCurrent' \in Tasks /\ contexts' \in [Tasks -> Context] /\ activeUser' \in Tasks
    BY <1>8, <2>2 DEF FinishReturn, TypeOK
  <2>7. UNCHANGED <<stopDepth, exitTask, linuxCurrent, forkConts, rqCurr, taskState, parent,
                    vforkDone>>
    BY <1>8 DEF FinishReturn, transferVars, kernelVars
  <2> QED BY <2>1, <2>3, <2>4, <2>5, <2>6, <2>7, PopCallType DEF TypeOK
<1>9. CASE FinishTransfer
  <2>1. calls # <<>> /\ PopCall
    BY <1>9 DEF FinishTransfer
  <2>2. stopDepth' \in Nat \cup {NoStop}
    BY <1>9 DEF FinishTransfer, TypeOK
  <2>3. halted' \in BOOLEAN
    BY <1>9, Zenon DEF FinishTransfer
  <2>4. UNCHANGED <<control, exitTask, contexts, linuxCurrent, activeUser, pending, forkConts,
                    kernelCurrent, rqCurr, taskState, parent, vforkDone>>
    BY <1>9 DEF FinishTransfer, forkVars, kernelVars
  <2> QED BY <2>1, <2>2, <2>3, <2>4, PopCallType DEF TypeOK
<1>10. CASE ForkChildReturn
  <2>1. control' \in Control /\ activeUser' \in Tasks /\ kernelCurrent' \in Tasks
    BY <1>10, <1>a DEF ForkChildReturn, UserCode, Place, Control, UserStack, Stacks, Ops
  <2>2. forkConts' \in [Tasks -> Tasks \cup {NoTask}]
    BY <1>10 DEF ForkChildReturn, TypeOK
  <2>3. UNCHANGED <<halted, calls, callDepth, callTasks, taskDepths, stopDepth, exitTask,
                    contexts, linuxCurrent, pending, rqCurr, taskState, parent, vforkDone>>
    BY <1>10 DEF ForkChildReturn, hostVars, transferVars, kernelVars
  <2> QED BY <2>1, <2>2, <2>3 DEF TypeOK
<1>11. CASE ExecHandoff
  <2>1. control' \in Control /\ activeUser' \in Tasks /\ kernelCurrent' \in Tasks
    BY <1>11, <1>a DEF ExecHandoff, UserCode, Place, Control, UserStack, Stacks, Ops
  <2>2. stopDepth' \in Nat \cup {NoStop} /\ halted' \in BOOLEAN
    BY <1>11, <1>a, ArmTransferType DEF ExecHandoff
  <2>3. taskState' \in [Tasks -> TaskStates] /\ vforkDone' \subseteq Tasks
    BY <1>11, <1>a, ReleaseVforkType DEF ExecHandoff, TypeOK
  <2>4. UNCHANGED <<calls, callDepth, callTasks, taskDepths, exitTask, contexts, linuxCurrent,
                    pending, forkConts, rqCurr, parent>>
    BY <1>11 DEF ExecHandoff, hostVars, forkVars
  <2> QED BY <2>1, <2>2, <2>3, <2>4 DEF TypeOK
<1>12. ASSUME NEW outcome \in {Succeeded, Failed, Restart}, KernelReturn(outcome)
       PROVE  TypeOK'
  <2>1. taskState' \in [Tasks -> TaskStates]
    BY <1>12 DEF KernelReturn, TypeOK
  <2> QED BY <1>12, <2>1, ReturnType DEF KernelReturn
<1>13. CASE ComparatorReturn
  <2>1. taskState' \in [Tasks -> TaskStates]
    BY <1>13 DEF ComparatorReturn, TypeOK
  <2> QED BY <1>13, <2>1, ReturnType DEF ComparatorReturn
<1>14. ASSUME NEW child \in UserTasks, KernelFork(child) PROVE TypeOK'
  <2>1. child \in Tasks
    BY DEF Tasks
  <2>2. taskState' \in [Tasks -> TaskStates] /\ parent' \in [Tasks -> Tasks \cup {NoTask}]
    BY <1>14, <1>a, <2>1 DEF KernelFork, TypeOK, TaskStates
  <2>3. control' \in Control
    BY <1>14, <1>a DEF KernelFork, Control, Ops
  <2>4. UNCHANGED <<halted, calls, callDepth, callTasks, taskDepths, stopDepth, exitTask,
                    contexts, linuxCurrent, activeUser, pending, forkConts, kernelCurrent,
                    rqCurr, vforkDone>>
    BY <1>14 DEF KernelFork, hostVars, transferVars, forkVars
  <2> QED BY <2>2, <2>3, <2>4 DEF TypeOK
<1>15. ASSUME NEW child \in UserTasks, KernelReap(child) PROVE TypeOK'
  <2>1. taskState' \in [Tasks -> TaskStates]
    BY <1>15 DEF KernelReap, TypeOK, TaskStates
  <2> QED BY <1>15, <2>1, ReturnType DEF KernelReap
<1>16. ASSUME NEW child \in UserTasks, NEW next \in Tasks, KernelVfork(child, next)
       PROVE  TypeOK'
  <2> DEFINE states == [taskState EXCEPT ![child] = "new", ![kernelCurrent] = "vfork"]
  <2>1. child \in Tasks
    BY DEF Tasks
  <2>2. states \in [Tasks -> TaskStates]
    BY DEF TypeOK, TaskStates
  <2>3. parent' \in [Tasks -> Tasks \cup {NoTask}] /\ vforkDone' \subseteq Tasks
    BY <1>16, <1>a, <2>1 DEF KernelVfork, TypeOK
  <2>4. "cloned" \in Ops
    BY DEF Ops
  <2>5. SwitchTo(next, states, "cloned")
    BY <1>16 DEF KernelVfork
  <2> HIDE DEF states
  <2> QED BY <2>2, <2>3, <2>4, <2>5, SwitchToType
<1>17. ASSUME NEW next \in Tasks, KernelWaitBlock(next) PROVE TypeOK'
  <2> DEFINE states == [taskState EXCEPT ![kernelCurrent] = "wait"]
  <2>1. states \in [Tasks -> TaskStates]
    BY DEF TypeOK, TaskStates
  <2>2. parent' \in [Tasks -> Tasks \cup {NoTask}] /\ vforkDone' \subseteq Tasks
    BY <1>17 DEF KernelWaitBlock, TypeOK
  <2>3. "wait4" \in Ops
    BY DEF Ops
  <2>4. SwitchTo(next, states, "wait4")
    BY <1>17 DEF KernelWaitBlock
  <2> HIDE DEF states
  <2> QED BY <2>1, <2>2, <2>3, <2>4, SwitchToType
<1>18. ASSUME NEW next \in Tasks, KernelYield(next) PROVE TypeOK'
  <2>1. parent' \in [Tasks -> Tasks \cup {NoTask}] /\ vforkDone' \subseteq Tasks
        /\ taskState \in [Tasks -> TaskStates]
    BY <1>18 DEF KernelYield, TypeOK
  <2>2. SwitchTo(next, taskState, control.op)
    BY <1>18 DEF KernelYield
  <2> QED BY <2>1, <2>2, <1>b, SwitchToType
<1>19. ASSUME NEW next \in Tasks, KernelExit(next) PROVE TypeOK'
  <2> DEFINE dying == [ReleaseVfork(taskState, kernelCurrent) EXCEPT ![kernelCurrent] = "zombie"]
             p == parent[kernelCurrent]
             woken == [u \in Tasks |-> IF u = p /\ dying[u] = "wait" THEN "ready"
                                       ELSE dying[u]]
  <2>1. taskState \in [Tasks -> TaskStates]
    BY DEF TypeOK
  <2>2. dying \in [Tasks -> TaskStates]
    BY <2>1, <1>a, ReleaseVforkType DEF TaskStates
  <2>3. woken \in [Tasks -> TaskStates]
    <3> HIDE DEF dying
    <3> QED BY <2>2 DEF TaskStates
  <2>4. parent' \in [Tasks -> Tasks \cup {NoTask}] /\ vforkDone' \subseteq Tasks
    BY <1>19 DEF KernelExit, TypeOK
  <2>5. SwitchTo(next, woken, "exit")
    BY <1>19 DEF KernelExit
  <2>6. "exit" \in Ops
    BY DEF Ops
  <2> HIDE DEF dying, p, woken
  <2> QED BY <2>3, <2>4, <2>5, <2>6, SwitchToType
<1>20. CASE UNCHANGED vars
  BY <1>20 DEF TypeOK, vars, hostVars, transferVars, forkVars, kernelVars
<1> QED
  BY <1>1, <1>2, <1>3, <1>4, <1>5, <1>6, <1>7, <1>7a, <1>8, <1>9, <1>10, <1>11, <1>12,
     <1>13, <1>14, <1>15, <1>16, <1>17, <1>18, <1>19, <1>20 DEF Next

\* Every variable keeps its type in every behaviour of the machine.
THEOREM TypeCorrect == Spec => []TypeOK
  BY InitType, NextType, PTL DEF Spec

-----------------------------------------------------------------------------
(***************************************************************************)
(* The tables beside the Python stack.  Bookkeeping is inductive: entering *)
(* a call and finishing one are the only steps that touch the tables, and  *)
(* they are inverse to each other because the stack is last-in first-out.  *)
(***************************************************************************)

\* A step enters one call, finishes the innermost one, or leaves the stack alone.
LEMMA StackSteps ==
  ASSUME TypeOK, [Next]_vars
  PROVE  \/ \E op \in Ops, owner \in Tasks, preserve \in BOOLEAN, cell \in Tasks,
               entry \in {"user", "kernel"}, resume \in Control :
              BeginCall(op, owner, preserve, cell, entry, resume)
         \/ halted /\ calls # <<>> /\ PopCall
         \/ UNCHANGED <<calls, callDepth, callTasks, taskDepths>>
<1> DEFINE Begins == \E op \in Ops, owner \in Tasks, preserve \in BOOLEAN, cell \in Tasks,
                       entry \in {"user", "kernel"}, resume \in Control :
                      BeginCall(op, owner, preserve, cell, entry, resume)
           Same == UNCHANGED <<calls, callDepth, callTasks, taskDepths>>
<1>a. ActiveTask \in Tasks /\ control \in Control /\ control.task \in Tasks
      /\ kernelCurrent \in Tasks /\ linuxCurrent \in Tasks
  BY ActiveTaskType DEF TypeOK, Control
<1>b. control.op \in Ops
  BY <1>a DEF Control
<1>c. UserCode(control.task) \in Control
  BY <1>a DEF UserCode, Place, Control, UserStack, Stacks, Ops
<1>1. ASSUME NEW op \in {"io", "exec", "exit"}, SystemCall(op) PROVE Begins
  <2>1. op \in Ops /\ FALSE \in BOOLEAN /\ "kernel" \in {"user", "kernel"}
    BY DEF Ops
  <2>2. BeginCall(op, ActiveTask, FALSE, ActiveTask, "kernel", control)
    BY <1>1 DEF SystemCall
  <2> QED BY <2>1, <2>2, <1>a, Zenon
<1>2. ASSUME QsortCompare PROVE Begins
  <2>1. "compare" \in Ops /\ FALSE \in BOOLEAN /\ "user" \in {"user", "kernel"}
    BY DEF Ops
  <2>2. BeginCall("compare", ActiveTask, FALSE, ActiveTask, "user", control)
    BY <1>2 DEF QsortCompare
  <2> QED BY <2>1, <2>2, <1>a, Zenon
<1>3. ASSUME NEW op \in {"fork", "vfork"}, UserFork(op) PROVE Begins
  <2> DEFINE resume == Place("host", control.task, UserStack, op, 0)
  <2>1. op \in Ops /\ TRUE \in BOOLEAN /\ "kernel" \in {"user", "kernel"}
    BY DEF Ops
  <2>2. resume \in Control
    BY <2>1, <1>a DEF Place, Control, UserStack, Stacks
  <2>3. BeginCall(op, ActiveTask, TRUE, ActiveTask, "kernel", resume)
    BY <1>3 DEF UserFork
  <2> HIDE DEF resume
  <2> QED BY <2>1, <2>2, <2>3, <1>a, Zenon
<1>4. ASSUME ForkRetry PROVE Begins
  <2>1. BeginCall(control.op, ActiveTask, TRUE, kernelCurrent, "kernel", control)
    BY <1>4 DEF ForkRetry
  <2>2. TRUE \in BOOLEAN /\ "kernel" \in {"user", "kernel"}
    OBVIOUS
  <2> QED BY <2>1, <2>2, <1>a, <1>b, Zenon
<1>5. ASSUME WaitpidSchedule PROVE Begins
  <2> DEFINE owner == IF linuxCurrent # NoTask THEN linuxCurrent ELSE ActiveTask
             resume == [control EXCEPT !.n = @ + 1]
  <2>1. owner \in Tasks
    BY <1>a
  <2>2. resume \in Control
    BY <1>a DEF Control
  <2>3. BeginCall("schedule", owner, TRUE, kernelCurrent, "kernel", resume)
    BY <1>5 DEF WaitpidSchedule
  <2>4. "schedule" \in Ops /\ TRUE \in BOOLEAN /\ "kernel" \in {"user", "kernel"}
    BY DEF Ops
  <2> HIDE DEF owner, resume
  <2> QED BY <2>1, <2>2, <2>3, <2>4, <1>a, Zenon
<1>6. ASSUME WaitpidWait4 PROVE Begins
  <2>1. BeginCall("wait4", ActiveTask, TRUE, kernelCurrent, "kernel", UserCode(control.task))
    BY <1>6 DEF WaitpidWait4
  <2>2. "wait4" \in Ops /\ TRUE \in BOOLEAN /\ "kernel" \in {"user", "kernel"}
    BY DEF Ops
  <2> QED BY <2>1, <2>2, <1>a, <1>c, Zenon
<1>6a. ASSUME WaitpidTrap PROVE Begins
  <2> DEFINE resume == Place("host", control.task, UserStack, "wait4", 0)
  <2>1. resume \in Control
    BY <1>a DEF Place, Control, UserStack, Stacks, Ops
  <2>2. BeginCall("trap", ActiveTask, FALSE, kernelCurrent, "kernel", resume)
    BY <1>6a DEF WaitpidTrap
  <2>3. "trap" \in Ops /\ FALSE \in BOOLEAN /\ "kernel" \in {"user", "kernel"}
    BY DEF Ops
  <2> HIDE DEF resume
  <2> QED BY <2>1, <2>2, <2>3, <1>a, Zenon
<1>7. ASSUME FinishReturn \/ FinishTransfer PROVE halted /\ calls # <<>> /\ PopCall
  BY <1>7, Zenon DEF FinishReturn, FinishTransfer
<1>8. ASSUME UserWaitpid PROVE Same
  BY <1>8 DEF UserWaitpid, hostVars
<1>9. ASSUME ForkChildReturn PROVE Same
  BY <1>9 DEF ForkChildReturn, hostVars
<1>10. ASSUME ExecHandoff PROVE Same
  BY <1>10 DEF ExecHandoff, hostVars
<1>11. ASSUME NEW outcome \in {Succeeded, Failed, Restart}, KernelReturn(outcome) PROVE Same
  BY <1>11 DEF KernelReturn, Return, hostVars
<1>12. ASSUME ComparatorReturn PROVE Same
  BY <1>12 DEF ComparatorReturn, Return, hostVars
<1>13. ASSUME NEW child \in UserTasks, KernelFork(child) \/ KernelReap(child) PROVE Same
  BY <1>13 DEF KernelFork, KernelReap, Return, hostVars
<1>14. ASSUME NEW child \in UserTasks, NEW next \in Tasks, KernelVfork(child, next) PROVE Same
  BY <1>14 DEF KernelVfork, SwitchTo, hostVars
<1>15. ASSUME NEW next \in Tasks,
              KernelWaitBlock(next) \/ KernelYield(next) \/ KernelExit(next)
       PROVE  Same
  BY <1>15 DEF KernelWaitBlock, KernelYield, KernelExit, SwitchTo, hostVars
<1>16. ASSUME UNCHANGED vars PROVE Same
  BY <1>16 DEF vars, hostVars
<1>17. Begins \/ (halted /\ calls # <<>> /\ PopCall) \/ Same
  <2> HIDE DEF Begins, Same
  <2>1. CASE Next
    BY <2>1, <1>1, <1>2, <1>3, <1>4, <1>5, <1>6, <1>6a, <1>7, <1>8, <1>9, <1>10, <1>11,
       <1>12, <1>13, <1>14, <1>15 DEF Next
  <2> QED BY <2>1, <1>16
<1> QED BY <1>17 DEF Begins, Same

\* The number of activations of t among the n oldest of a stack of calls.
CountIn(s, n, t) == Cardinality({i \in 1..n : s[i].owner = t})

\* The empty part of the stack has no activation of anybody.
LEMMA CountZero == ASSUME NEW s, NEW t PROVE CountIn(s, 0, t) = 0
<1>1. {i \in 1..0 : s[i].owner = t} = {}
  OBVIOUS
<1> QED BY <1>1, FS_EmptySet DEF CountIn

\* Counting one activation more.
LEMMA CountStep ==
  ASSUME NEW s, NEW n \in Nat, NEW m, m = n + 1, NEW t
  PROVE  CountIn(s, m, t) = CountIn(s, n, t) + (IF s[m].owner = t THEN 1 ELSE 0)
<1> DEFINE A == {i \in 1..n : s[i].owner = t}
           B == {i \in 1..m : s[i].owner = t}
<1>0. CountIn(s, n, t) = Cardinality(A) /\ CountIn(s, m, t) = Cardinality(B)
  BY DEF CountIn
<1>1. IsFiniteSet(A)
  <2>1. IsFiniteSet(1..n)
    BY FS_Interval
  <2> QED BY <2>1, FS_Subset
<1>2. CASE s[m].owner = t
  <2>1. B = A \cup {m} /\ m \notin A
    BY <1>2
  <2>2. Cardinality(B) = Cardinality(A) + 1
    <3> HIDE DEF A, B
    <3> QED BY <2>1, <1>1, FS_AddElement
  <2> HIDE DEF A, B
  <2> QED BY <1>0, <1>2, <2>2
<1>3. CASE s[m].owner # t
  <2>1. B = A
    BY <1>3
  <2>2. Cardinality(A) \in Nat
    BY <1>1, FS_CardinalityType
  <2> HIDE DEF A, B
  <2> QED BY <1>0, <1>3, <2>1, <2>2
<1> QED BY <1>2, <1>3

\* Stacks that agree below n have the same counts there.
LEMMA CountSame ==
  ASSUME NEW s, NEW r, NEW n \in Nat, NEW t, \A i \in 1..n : s[i] = r[i]
  PROVE  CountIn(s, n, t) = CountIn(r, n, t)
<1>1. {i \in 1..n : s[i].owner = t} = {i \in 1..n : r[i].owner = t}
  OBVIOUS
<1> QED BY <1>1 DEF CountIn

\* Bookkeeping, with the count over an explicit stack.
LEMMA BookkeepingCounts ==
  Bookkeeping <=>
    /\ callDepth = Len(calls)
    /\ Len(callTasks) = Len(calls)
    /\ \A i \in 1..Len(calls) : /\ callTasks[i] = calls[i].owner
                                /\ calls[i].prevDepth = i - 1
                                /\ calls[i].taskDepth = CountIn(calls, i - 1, calls[i].owner)
    /\ \A t \in Tasks : taskDepths[t] = CountIn(calls, Len(calls), t)
  BY DEF Bookkeeping, OwnedBelow, CountIn

\* The tables describe the empty stack.
LEMMA InitBookkeeping == Init => Bookkeeping
<1> SUFFICES ASSUME Init PROVE Bookkeeping
  OBVIOUS
<1>1. calls = <<>> /\ callTasks = <<>> /\ callDepth = 0 /\ taskDepths = [t \in Tasks |-> 0]
  BY DEF Init
<1>2. \A t : CountIn(calls, 0, t) = 0
  BY CountZero
<1> QED BY <1>1, <1>2, BookkeepingCounts

\* Entering a call extends all three tables by its owner.
LEMMA BeginBookkeeping ==
  ASSUME TypeOK, Bookkeeping, NEW op \in Ops, NEW owner \in Tasks, NEW preserve \in BOOLEAN,
         NEW cell \in Tasks, NEW entry \in {"user", "kernel"}, NEW resume \in Control,
         BeginCall(op, owner, preserve, cell, entry, resume)
  PROVE  Bookkeeping'
<1> DEFINE n == Len(calls)
           rec == [op |-> op, owner |-> owner,
                   stack |-> [task |-> owner, level |-> ArenaLevel(owner)],
                   preserve |-> preserve, prevDepth |-> callDepth,
                   taskDepth |-> taskDepths[owner], resume |-> resume, current |-> cell,
                   contexts |-> contexts, active |-> activeUser]
<1>1. /\ n \in Nat /\ calls \in Seq(CallRecord)
      /\ callTasks \in Seq(Tasks) /\ taskDepths \in [Tasks -> Nat]
  BY DEF TypeOK
<1>2. rec.owner = owner /\ rec.prevDepth = callDepth /\ rec.taskDepth = taskDepths[owner]
  OBVIOUS
<1>3. calls' = Append(calls, rec)
  BY DEF BeginCall
<1> HIDE DEF rec
<1>4. Len(calls') = n + 1 /\ calls'[n + 1] = rec /\ \A i \in 1..n : calls'[i] = calls[i]
  BY <1>1, <1>3
<1>5. callDepth = n /\ Len(callTasks) = n
  BY BookkeepingCounts
<1>6. SyncedCallTasks(owner) = callTasks
  BY <1>1, <1>5 DEF SyncedCallTasks
<1>7. callTasks' = Append(callTasks, owner)
  BY <1>6 DEF BeginCall
<1>8. /\ Len(callTasks') = n + 1 /\ callTasks'[n + 1] = owner
      /\ \A i \in 1..n : callTasks'[i] = callTasks[i]
  BY <1>1, <1>5, <1>7
<1>9. callDepth' = n + 1
  BY <1>5 DEF BeginCall
<1>10. ASSUME NEW k \in 0..n, NEW t PROVE CountIn(calls', k, t) = CountIn(calls, k, t)
  <2>1. \A i \in 1..k : calls'[i] = calls[i]
    BY <1>1, <1>4
  <2> QED BY <2>1, <1>1, CountSame
<1>11. ASSUME NEW i \in 1..(n + 1)
       PROVE  /\ callTasks'[i] = calls'[i].owner
              /\ calls'[i].prevDepth = i - 1
              /\ calls'[i].taskDepth = CountIn(calls', i - 1, calls'[i].owner)
  <2>1. CASE i \in 1..n
    <3>1. /\ callTasks[i] = calls[i].owner
          /\ calls[i].prevDepth = i - 1
          /\ calls[i].taskDepth = CountIn(calls, i - 1, calls[i].owner)
      BY <2>1, BookkeepingCounts
    <3>2. i - 1 \in 0..n
      BY <2>1, <1>1
    <3> QED BY <2>1, <3>1, <3>2, <1>4, <1>8, <1>10
  <2>2. CASE i = n + 1
    <3>1. taskDepths[owner] = CountIn(calls, n, owner)
      BY BookkeepingCounts
    <3>2. n \in 0..n /\ i - 1 = n
      BY <2>2, <1>1
    <3> QED BY <2>2, <3>1, <3>2, <1>2, <1>4, <1>5, <1>8, <1>10
  <2> QED BY <2>1, <2>2, <1>1
<1>12. ASSUME NEW t \in Tasks PROVE taskDepths'[t] = CountIn(calls', n + 1, t)
  <2>1. CountIn(calls', n + 1, t) = CountIn(calls', n, t)
                                     + (IF calls'[n + 1].owner = t THEN 1 ELSE 0)
    <3> DEFINE m == n + 1
    <3>1. m = n + 1
      OBVIOUS
    <3> HIDE DEF m, n
    <3>2. CountIn(calls', m, t) = CountIn(calls', n, t) + (IF calls'[m].owner = t THEN 1 ELSE 0)
      BY <1>1, <3>1, CountStep
    <3> QED BY <3>1, <3>2
  <2>2. CountIn(calls', n, t) = taskDepths[t]
    <3>1. n \in 0..n
      BY <1>1
    <3> QED BY <3>1, <1>10, BookkeepingCounts
  <2>3. taskDepths' = [taskDepths EXCEPT ![owner] = taskDepths[owner] + 1]
    BY DEF BeginCall
  <2> QED BY <2>1, <2>2, <2>3, <1>1, <1>2, <1>4
<1> HIDE DEF n
<1> QED
  <2>1. /\ callDepth' = Len(calls') /\ Len(callTasks') = Len(calls')
    BY <1>4, <1>8, <1>9
  <2>2. \A i \in 1..Len(calls') : /\ callTasks'[i] = calls'[i].owner
                                  /\ calls'[i].prevDepth = i - 1
                                  /\ calls'[i].taskDepth = CountIn(calls', i - 1, calls'[i].owner)
    BY <1>4, <1>11
  <2>3. \A t \in Tasks : taskDepths'[t] = CountIn(calls', Len(calls'), t)
    BY <1>4, <1>12
  <2> QED BY <2>1, <2>2, <2>3 DEF Bookkeeping, OwnedBelow, CountIn

\* Finishing the innermost call restores what its entry saw.
LEMMA PopBookkeeping ==
  ASSUME TypeOK, Bookkeeping, calls # <<>>, PopCall
  PROVE  Bookkeeping'
<1> DEFINE n == Len(calls)
<1>1. /\ n \in Nat \ {0} /\ calls \in Seq(CallRecord) /\ Top = calls[n] /\ Top \in CallRecord
      /\ callTasks \in Seq(Tasks) /\ taskDepths \in [Tasks -> Nat]
  BY TopType DEF TypeOK, Top
<1>2. callDepth = n /\ Len(callTasks) = n /\ callTasks # <<>>
  BY <1>1, BookkeepingCounts
<1>0. n = Len(calls)
  OBVIOUS
<1>3. /\ Top.owner \in Tasks /\ Top.prevDepth = n - 1
      /\ Top.taskDepth = CountIn(calls, n - 1, Top.owner)
  <2>1. Top.owner \in Tasks
    BY <1>1 DEF CallRecord
  <2>2. n \in 1..Len(calls)
    BY <1>1
  <2>3. calls[n].prevDepth = n - 1 /\ calls[n].taskDepth = CountIn(calls, n - 1, calls[n].owner)
    <3> HIDE DEF n
    <3> QED BY <2>2, BookkeepingCounts
  <2> QED BY <2>1, <2>3, <1>1
<1> HIDE DEF n
<1>4. calls' = SubSeq(calls, 1, n - 1) /\ callTasks' = SubSeq(callTasks, 1, n - 1)
  BY <1>0, <1>2 DEF PopCall
<1>5. Len(calls') = n - 1 /\ \A i \in 1..(n - 1) : calls'[i] = calls[i]
  BY <1>0, <1>1, <1>4
<1>6. Len(callTasks') = n - 1 /\ \A i \in 1..(n - 1) : callTasks'[i] = callTasks[i]
  BY <1>1, <1>2, <1>4
<1>7. ASSUME NEW k \in 0..(n - 1), NEW t PROVE CountIn(calls', k, t) = CountIn(calls, k, t)
  <2>1. k \in Nat /\ \A i \in 1..k : calls'[i] = calls[i]
    BY <1>1, <1>5
  <2> QED BY <2>1, CountSame
<1>8. ASSUME NEW i \in 1..(n - 1)
      PROVE  /\ callTasks'[i] = calls'[i].owner
             /\ calls'[i].prevDepth = i - 1
             /\ calls'[i].taskDepth = CountIn(calls', i - 1, calls'[i].owner)
  <2>1. i \in 1..n /\ i - 1 \in 0..(n - 1)
    BY <1>1
  <2>2. /\ callTasks[i] = calls[i].owner
        /\ calls[i].prevDepth = i - 1
        /\ calls[i].taskDepth = CountIn(calls, i - 1, calls[i].owner)
    BY <1>0, <2>1, BookkeepingCounts
  <2> QED BY <2>1, <2>2, <1>5, <1>6, <1>7
<1>9. ASSUME NEW t \in Tasks PROVE taskDepths'[t] = CountIn(calls', n - 1, t)
  <2>1. CountIn(calls', n - 1, t) = CountIn(calls, n - 1, t)
    BY <1>1, <1>7
  <2>2. taskDepths' = [taskDepths EXCEPT ![Top.owner] = Top.taskDepth]
    BY DEF PopCall
  <2>3. CASE t = Top.owner
    BY <2>1, <2>2, <2>3, <1>1, <1>3
  <2>4. CASE t # Top.owner
    <3>1. n - 1 \in Nat /\ n = (n - 1) + 1
      BY <1>1
    <3>2. CountIn(calls, n, t) = CountIn(calls, n - 1, t)
                                   + (IF calls[n].owner = t THEN 1 ELSE 0)
      BY <3>1, CountStep
    <3>3. CountIn(calls, n, t) = taskDepths[t]
      BY <1>0, BookkeepingCounts
    <3>4. CountIn(calls, n - 1, t) = taskDepths[t]
      <4>1. CountIn(calls, n - 1, t) \in Nat
        <5>1. IsFiniteSet(1..(n - 1))
          BY <1>1, FS_Interval
        <5>2. IsFiniteSet({i \in 1..(n - 1) : calls[i].owner = t})
          BY <5>1, FS_Subset
        <5> QED BY <5>2, FS_CardinalityType DEF CountIn
      <4> QED BY <4>1, <3>2, <3>3, <2>4, <1>1
    <3> QED BY <3>4, <2>1, <2>2, <2>4, <1>1
  <2> QED BY <2>3, <2>4
<1> QED
  <2>1. callDepth' = Len(calls') /\ Len(callTasks') = Len(calls')
    BY <1>3, <1>5, <1>6 DEF PopCall
  <2>2. \A i \in 1..Len(calls') : /\ callTasks'[i] = calls'[i].owner
                                  /\ calls'[i].prevDepth = i - 1
                                  /\ calls'[i].taskDepth = CountIn(calls', i - 1, calls'[i].owner)
    BY <1>5, <1>8
  <2>3. \A t \in Tasks : taskDepths'[t] = CountIn(calls', Len(calls'), t)
    BY <1>5, <1>9
  <2> QED BY <2>1, <2>2, <2>3 DEF Bookkeeping, OwnedBelow, CountIn

\* No step separates the tables from the stack they describe.
LEMMA NextBookkeeping == TypeOK /\ Bookkeeping /\ [Next]_vars => Bookkeeping'
<1> SUFFICES ASSUME TypeOK, Bookkeeping, [Next]_vars PROVE Bookkeeping'
  OBVIOUS
<1>1. CASE UNCHANGED <<calls, callDepth, callTasks, taskDepths>>
  BY <1>1 DEF Bookkeeping, OwnedBelow
<1> QED BY <1>1, StackSteps, BeginBookkeeping, PopBookkeeping

\* The depth, the owner list and the per-task depths of
\* _call_linux_function_preserving_control describe its activations at every moment.
THEOREM BookkeepingHolds == Spec => []Bookkeeping
<1>1. Spec => [](TypeOK /\ Bookkeeping)
  BY InitType, InitBookkeeping, NextType, NextBookkeeping, PTL DEF Spec
<1> QED BY <1>1, PTL

-----------------------------------------------------------------------------
(***************************************************************************)
(* The scope of a transfer.  TransferScoped is inductive together with the *)
(* types and the bookkeeping: only a running machine arms a transfer, an   *)
(* armed one allows no step but its own unwinding, and the unwinding pops  *)
(* the owners that arming has examined.                                    *)
(***************************************************************************)
TransferInv == TypeOK /\ Bookkeeping /\ TransferScoped

\* A running machine has no transfer armed.
LEMMA RunningUnarmed == ASSUME TransferScoped, ~halted PROVE stopDepth = NoStop
  BY Zenon DEF TransferScoped

\* Arming picks the longest suffix of activations that the task owns.
LEMMA ArmTransferScoped ==
  ASSUME TransferInv, ~halted, NEW t \in Tasks, ArmTransfer(t),
         UNCHANGED <<callDepth, callTasks>>, control'.at \in {"user", "kernel"}
  PROVE  TransferScoped'
<1>1. stopDepth = NoStop
  BY RunningUnarmed DEF TransferInv
<1>2. callDepth \in Nat
  BY DEF TransferInv, TypeOK
<1>3. ASSUME NEW d \in 0 .. callDepth - 1, IsStopDepth(d, t), stopDepth' = d, halted' = TRUE
      PROVE  TransferScoped'
  <2>1. /\ \A i \in d + 1 .. callDepth : callTasks[i] = t
        /\ d > 0 => callTasks[d] # t
    BY <1>3 DEF IsStopDepth
  <2>2. callDepth \in d + 1 .. callDepth
    BY <1>2
  <2>3. callTasks[callDepth] = t
    BY <2>1, <2>2
  <2>4. /\ stopDepth' < callDepth'
        /\ \A i \in stopDepth' + 1 .. callDepth' : callTasks'[i] = callTasks'[callDepth']
        /\ stopDepth' > 0 => callTasks'[stopDepth'] # callTasks'[callDepth']
    BY <1>2, <1>3, <2>1, <2>3
  <2> QED BY <1>3, <2>4, Zenon DEF TransferScoped
<1>4. CASE stopDepth' = stopDepth
  BY <1>1, <1>4, Zenon DEF TransferScoped
<1> QED BY <1>3, <1>4, Zenon DEF ArmTransfer

\* A task switch arms at most the transfer of an exit.
LEMMA SwitchToScoped ==
  ASSUME TransferInv, ~halted, NEW next \in Tasks, NEW states, NEW op,
         SwitchTo(next, states, op)
  PROVE  TransferScoped'
<1>1. control'.at \in {"user", "kernel"}
  BY DEF SwitchTo, Place
<1>2. UNCHANGED <<callDepth, callTasks>>
  BY DEF SwitchTo, hostVars
<1>3. CASE exitTask # NoTask /\ exitTask = rqCurr
  <2>1. ArmTransfer(rqCurr)
    BY <1>3 DEF SwitchTo
  <2>2. rqCurr \in Tasks
    BY DEF TransferInv, TypeOK
  <2> QED BY <1>1, <1>2, <2>1, <2>2, ArmTransferScoped
<1>4. CASE ~(exitTask # NoTask /\ exitTask = rqCurr)
  <2>1. stopDepth' = stopDepth
    BY <1>4 DEF SwitchTo, transferVars
  <2>2. stopDepth = NoStop
    BY RunningUnarmed DEF TransferInv
  <2> QED BY <2>1, <2>2, Zenon DEF TransferScoped
<1> QED BY <1>3, <1>4

\* Unwinding one activation keeps the transfer on its owner, or ends it.
LEMMA FinishTransferScoped ==
  ASSUME TransferInv, FinishTransfer
  PROVE  TransferScoped'
<1>1. calls # <<>> /\ PopCall /\ halted /\ stopDepth # NoStop
  BY DEF FinishTransfer, InTransfer
<1>2. /\ control.at \in {"user", "kernel"}
      /\ stopDepth < callDepth
      /\ \A i \in stopDepth + 1 .. callDepth : callTasks[i] = callTasks[callDepth]
      /\ stopDepth > 0 => callTasks[stopDepth] # callTasks[callDepth]
  BY <1>1 DEF TransferInv, TransferScoped
<1>3. Len(calls) \in Nat \ {0} /\ Top = calls[Len(calls)]
  BY <1>1, TopType DEF TransferInv, Top
<1>4. callDepth = Len(calls) /\ Len(callTasks) = Len(calls)
  BY DEF TransferInv, Bookkeeping
<1>5. Top.prevDepth = callDepth - 1
  <2>1. Len(calls) \in 1..Len(calls)
    BY <1>3
  <2> QED BY <2>1, <1>3, <1>4 DEF TransferInv, Bookkeeping
<1>6. callTasks \in Seq(Tasks) /\ stopDepth \in Nat
  BY <1>1 DEF TransferInv, TypeOK
<1>7. callDepth' = callDepth - 1 /\ callTasks' = SubSeq(callTasks, 1, callDepth - 1)
  BY <1>3, <1>4, <1>5 DEF PopCall, FinishTransfer
<1>8. \A i \in 1 .. callDepth - 1 : callTasks'[i] = callTasks[i]
  BY <1>3, <1>4, <1>6, <1>7
<1>9. CASE Top.prevDepth = stopDepth
  <2>1. stopDepth' = NoStop
    BY <1>9 DEF FinishTransfer
  <2> QED BY <2>1, Zenon DEF TransferScoped
<1>10. CASE Top.prevDepth # stopDepth
  <2>1. stopDepth' = stopDepth
    BY <1>10 DEF FinishTransfer
  <2>2. halted'
    BY <1>10, Zenon DEF FinishTransfer
  <2>3. control'.at \in {"user", "kernel"}
    BY <1>2 DEF FinishTransfer
  <2>4. stopDepth < callDepth - 1
    BY <1>2, <1>3, <1>4, <1>5, <1>6, <1>10
  <2>5. /\ stopDepth' < callDepth'
        /\ \A i \in stopDepth' + 1 .. callDepth' : callTasks'[i] = callTasks'[callDepth']
        /\ stopDepth' > 0 => callTasks'[stopDepth'] # callTasks'[callDepth']
    <3>1. callDepth - 1 \in 1 .. callDepth - 1 /\ callDepth - 1 \in stopDepth + 1 .. callDepth
      BY <1>3, <1>4, <1>6, <2>4
    <3>2. callTasks'[callDepth'] = callTasks[callDepth]
      BY <3>1, <1>2, <1>7, <1>8
    <3>3. ASSUME NEW i \in stopDepth + 1 .. callDepth - 1
          PROVE  callTasks'[i] = callTasks[callDepth]
      <4>1. i \in 1 .. callDepth - 1 /\ i \in stopDepth + 1 .. callDepth
        BY <1>3, <1>4, <1>6
      <4> QED BY <4>1, <1>2, <1>8
    <3>4. stopDepth > 0 => callTasks'[stopDepth] = callTasks[stopDepth]
      <4>1. stopDepth > 0 => stopDepth \in 1 .. callDepth - 1
        BY <1>3, <1>4, <1>6, <2>4
      <4> QED BY <4>1, <1>8
    <3> QED BY <3>2, <3>3, <3>4, <2>1, <2>4, <1>2, <1>7
  <2> QED BY <2>2, <2>3, <2>5, Zenon DEF TransferScoped
<1> QED BY <1>9, <1>10

\* No step leaves a transfer armed beyond what it may unwind.
LEMMA NextScoped == TransferInv /\ [Next]_vars => TransferScoped'
<1> SUFFICES ASSUME TransferInv, [Next]_vars PROVE TransferScoped'
  OBVIOUS
<1> DEFINE Unarmed == stopDepth = NoStop /\ stopDepth' = stopDepth
<1>a. Unarmed => TransferScoped'
  BY Zenon DEF TransferScoped
<1>b. ~halted => stopDepth = NoStop
  BY RunningUnarmed DEF TransferInv
<1>c. control.at = "host" => stopDepth = NoStop
  BY DEF TransferInv, TransferScoped
<1>1. ASSUME NEW op \in {"io", "exec", "exit"}, SystemCall(op) PROVE Unarmed
  BY <1>1, <1>b DEF SystemCall, InUserCode, BeginCall
<1>2. ASSUME QsortCompare PROVE Unarmed
  BY <1>2, <1>b DEF QsortCompare, InUserCode, BeginCall
<1>3. ASSUME NEW op \in {"fork", "vfork"}, UserFork(op) PROVE Unarmed
  BY <1>3, <1>b DEF UserFork, InUserCode, BeginCall
<1>4. ASSUME UserWaitpid PROVE Unarmed
  BY <1>4, <1>b DEF UserWaitpid, InUserCode, transferVars
<1>5. ASSUME ForkRetry PROVE Unarmed
  BY <1>5, <1>c DEF ForkRetry, InHostCallback, BeginCall
<1>6. ASSUME WaitpidSchedule PROVE Unarmed
  BY <1>6, <1>c DEF WaitpidSchedule, InHostCallback, BeginCall
<1>7. ASSUME WaitpidWait4 PROVE Unarmed
  BY <1>7, <1>c DEF WaitpidWait4, InHostCallback, BeginCall
<1>7a. ASSUME WaitpidTrap PROVE Unarmed
  BY <1>7a, <1>c DEF WaitpidTrap, InHostCallback, BeginCall
<1>8. ASSUME FinishReturn PROVE Unarmed
  <2>1. calls # <<>> /\ ~InTransfer /\ stopDepth' = stopDepth
    BY <1>8 DEF FinishReturn, transferVars
  <2>2. Len(calls) \in Nat \ {0} /\ Top = calls[Len(calls)]
    BY <2>1, TopType DEF TransferInv, Top
  <2>3. Top.prevDepth = Len(calls) - 1 /\ callDepth = Len(calls)
    <3>1. Len(calls) \in 1..Len(calls)
      BY <2>2
    <3> QED BY <3>1, <2>2 DEF TransferInv, Bookkeeping
  <2>4. stopDepth # NoStop => stopDepth < callDepth
    BY DEF TransferInv, TransferScoped
  <2>5. stopDepth \in Nat \cup {NoStop}
    BY DEF TransferInv, TypeOK
  <2> QED BY <2>1, <2>2, <2>3, <2>4, <2>5 DEF InTransfer
<1>9. ASSUME FinishTransfer PROVE TransferScoped'
  BY <1>9, FinishTransferScoped
<1>10. ASSUME ForkChildReturn PROVE Unarmed
  BY <1>10, <1>b DEF ForkChildReturn, InKernel, transferVars
<1>11. ASSUME ExecHandoff PROVE TransferScoped'
  <2>1. ~halted /\ ArmTransfer(linuxCurrent) /\ UNCHANGED <<callDepth, callTasks>>
    BY <1>11 DEF ExecHandoff, InKernel, hostVars
  <2>2. control'.at \in {"user", "kernel"}
    BY <1>11 DEF ExecHandoff, UserCode, Place
  <2>3. linuxCurrent \in Tasks
    BY DEF TransferInv, TypeOK
  <2> QED BY <2>1, <2>2, <2>3, ArmTransferScoped
<1>12. ASSUME NEW outcome \in {Succeeded, Failed, Restart}, KernelReturn(outcome) PROVE Unarmed
  BY <1>12, <1>b DEF KernelReturn, InKernel, Return, transferVars
<1>13. ASSUME ComparatorReturn PROVE Unarmed
  BY <1>13, <1>b DEF ComparatorReturn, InUserCode, Return, transferVars
<1>14. ASSUME NEW child \in UserTasks, KernelFork(child) \/ KernelReap(child) PROVE Unarmed
  BY <1>14, <1>b DEF KernelFork, KernelReap, InKernel, Return, transferVars
<1>15. ASSUME NEW child \in UserTasks, NEW next \in Tasks, KernelVfork(child, next)
       PROVE  TransferScoped'
  BY <1>15, SwitchToScoped DEF KernelVfork, InKernel
<1>16. ASSUME NEW next \in Tasks,
              KernelWaitBlock(next) \/ KernelYield(next) \/ KernelExit(next)
       PROVE  TransferScoped'
  BY <1>16, SwitchToScoped DEF KernelWaitBlock, KernelYield, KernelExit, InKernel
<1>17. ASSUME UNCHANGED vars PROVE TransferScoped'
  BY <1>17 DEF TransferInv, TransferScoped, vars, hostVars, transferVars
<1> HIDE DEF Unarmed
<1>18. CASE Next
  BY <1>18, <1>a, <1>1, <1>2, <1>3, <1>4, <1>5, <1>6, <1>7, <1>7a, <1>8, <1>9, <1>10,
     <1>11, <1>12, <1>13, <1>14, <1>15, <1>16 DEF Next
<1> QED BY <1>17, <1>18

\* An exec or exit transfer unwinds the activations of its own task and nothing else,
\* and is never left armed on a running machine.
THEOREM TransferScopedHolds == Spec => []TransferScoped
<1>1. Init => TransferScoped
  BY DEF Init, TransferScoped
<1>2. Spec => []TransferInv
  BY <1>1, InitType, InitBookkeeping, NextType, NextBookkeeping, NextScoped, PTL
     DEF Spec, TransferInv
<1> QED BY <1>2, PTL DEF TransferInv

-----------------------------------------------------------------------------
(***************************************************************************)
(* In the environment of the release gates: children run to completion     *)
(* once they are scheduled and do not fork.  For every number of children  *)
(* and kernel threads, every bound on nesting and every choice the         *)
(* kernel's scheduler makes.                                               *)
(***************************************************************************)

\* The environment: only the shell forks, the kernel does not yield inside an
\* ordinary call, a qsort comparator makes no system call and the task_struct
\* of a reaped task is not allocated again.
ReleaseGates ==
  /\ Forkers \subseteq {Shell}
  /\ IoYields = FALSE
  /\ ComparatorCalls = FALSE
  /\ RecycleTasks = FALSE

-----------------------------------------------------------------------------
(***************************************************************************)
(* The inductive invariant.  At most one child executes at a time, above a *)
(* shell that is parked in fork, in the schedule() of waitpid or in wait4; *)
(* so the Python stack holds at most one call of the shell below at most   *)
(* one call of that child, and the innermost call that no armed transfer   *)
(* is about to unwind belongs to the task that runs.                       *)
(***************************************************************************)
Offspring == UserTasks \ {Shell}
ForkOps == {"fork", "vfork"}
PreservingOps == {"fork", "vfork", "schedule", "wait4"}
CallOps == PreservingOps \cup {"io", "exec", "exit", "trap", "compare"}

\* The activations that remain once an armed transfer has been carried out.
Depth == IF stopDepth = NoStop THEN Len(calls) ELSE stopDepth
Base == IF rqCurr = Shell THEN 0 ELSE 1

\* The notions of the current task are one.
OneCurrentTask ==
  /\ activeUser = rqCurr
  /\ linuxCurrent = rqCurr
  /\ kernelCurrent = rqCurr
  /\ control.task = rqCurr

\* A place of t's own program, or of a host callback that the program called.
Surface(place, t) ==
  /\ place.task = t
  /\ place.stack = UserStack
  /\ \/ place.at = "user" /\ place.op = "none"
     \/ place.at = "host" /\ place.op \in {"waitpid", "wait4"}
     \/ place.at = "host" /\ place.op \in ForkOps /\ t = Shell

\* What an activation saves is its owner's: it was entered by the task that ran.
CallOK(rec) ==
  /\ rec.owner \in UserTasks
  /\ rec.active = rec.owner
  /\ rec.current = rec.owner
  /\ rec.stack.task = rec.owner
  /\ rec.stack.level >= 0
  /\ rec.op \in CallOps
  /\ rec.preserve <=> rec.op \in PreservingOps
  /\ rec.op \in {"fork", "vfork", "schedule"} => rec.owner = Shell
  /\ rec.op = "exit" => rec.owner # Shell
  /\ Surface(rec.resume, rec.owner)
  /\ rec.op \in ForkOps => rec.resume.op = rec.op
  /\ rec.resume.op \in ForkOps => rec.op = rec.resume.op

CallsShape ==
  /\ Len(calls) <= 2
  /\ \A i \in 1..Len(calls) : CallOK(calls[i]) /\ (calls[i].owner = Shell <=> i = 1)
  /\ stopDepth # NoStop => Len(calls) = stopDepth + 1
  /\ halted /\ stopDepth = NoStop => control.at = "returned"

\* What the kernel executes for a call: a clone that made its child goes on as "cloned".
OpOf(rec, op) == op = rec.op \/ (rec.op \in ForkOps /\ op = "cloned")

OnUserStack ==
  /\ Surface(control, rqCurr)
  /\ rqCurr \in UserTasks
  /\ Depth = Base
OnShadowStack ==
  /\ control.at = "kernel"
  /\ control.stack = ShadowStack(rqCurr)
  /\ control.op = IF rqCurr \in KThreads THEN "kthread" ELSE "ret_from_fork"
  /\ rqCurr # Shell
  /\ Depth = 1
InArena ==
  /\ Depth = Base + 1
  /\ control.at \in {"user", "kernel", "returned"}
  /\ control.at = "user" => control.op = "compare"
  /\ calls[Depth].owner = rqCurr
  /\ control.stack = calls[Depth].stack
  /\ OpOf(calls[Depth], control.op)
  /\ calls[Depth].op \notin PreservingOps => calls[Depth].contexts = contexts
  /\ control.at = "returned" /\ control.op \in ForkOps => control.n # Succeeded
  /\ control.at = "returned" /\ control.op = "cloned" => control.n = Succeeded
  /\ control.at = "returned" => control.op # "exit"

Frames == OnUserStack \/ OnShadowStack \/ InArena

\* While another task runs the shell waits in the kernel under its oldest activation.
ShellParked ==
  rqCurr # Shell =>
    /\ Len(calls) >= 1
    /\ contexts[Shell].stack = calls[1].stack
    /\ contexts[Shell].op \in {"cloned", "schedule", "wait4"}
    /\ OpOf(calls[1], contexts[Shell].op)

ChildOK(c) ==
  /\ taskState[c] \in {"none", "new", "ready", "zombie", "dead"}
  /\ taskState[c] = "ready" => rqCurr = c
  /\ taskState[c] \in {"none", "new"} => contexts[c] = NoContext
  /\ taskState[c] # "none" => parent[c] = Shell

KThreadOK(k) ==
  /\ taskState[k] \in {"new", "ready"}
  /\ contexts[k] \in {NoContext, [stack |-> ShadowStack(k), op |-> "kthread"]}
  /\ taskState[k] = "ready" /\ k # rqCurr => contexts[k] # NoContext

TasksOK ==
  /\ taskState[rqCurr] = "ready"
  /\ taskState[Shell] \in {"ready", "wait", "vfork"}
  /\ \A c \in Offspring : ChildOK(c)
  /\ \A k \in KThreads : KThreadOK(k)
  /\ \A t \in Tasks : parent[t] \in {NoTask, Shell}

\* A fork is under way, or its child waits for its first run with the pending
\* continuation of the shell, or that run is entering user mode.
ForksOK ==
  /\ pending \in {NoTask, Shell}
  /\ pending # NoTask =>
       /\ rqCurr \notin Offspring
       /\ control.op \in ForkOps \/ \E c \in Offspring : taskState[c] = "new"
  /\ control.op \in ForkOps =>
       /\ pending = Shell /\ rqCurr = Shell
       /\ \A c \in Offspring : taskState[c] # "new"
  /\ \A c \in Offspring : taskState[c] = "new" => pending = Shell
  /\ \A c, d \in Offspring : taskState[c] = "new" /\ taskState[d] = "new" => c = d
  /\ \A t \in Tasks : forkConts[t] = IF control.op = "ret_from_fork" /\ t = rqCurr
                                     THEN Shell ELSE NoTask
  /\ exitTask = IF control.op = "exit" THEN rqCurr ELSE NoTask

NestingInv ==
  /\ OneCurrentTask
  /\ CallsShape
  /\ Frames
  /\ ShellParked
  /\ TasksOK
  /\ ForksOK

ScheduledInv == TransferInv /\ NestingInv

-----------------------------------------------------------------------------
(***************************************************************************)
(* Where the machine is, from what it executes.                            *)
(***************************************************************************)

\* The tables in the terms of the invariant.
LEMMA Basics ==
  ASSUME ScheduledInv
  PROVE  /\ Len(calls) \in Nat /\ callDepth = Len(calls)
         /\ \A i \in 1..Len(calls) : callTasks[i] = calls[i].owner /\ calls[i].prevDepth = i - 1
         /\ stopDepth \in Nat \cup {NoStop}
         /\ stopDepth # NoStop => halted /\ control.at \in {"user", "kernel"}
         /\ rqCurr \in Tasks /\ Shell \in Tasks /\ NoTask \notin Tasks
         /\ Depth \in Nat /\ Depth <= Len(calls)
<1>1. TypeOK /\ Bookkeeping /\ TransferScoped /\ CallsShape
  BY DEF ScheduledInv, NestingInv, TransferInv
<1>2. Len(calls) \in Nat /\ rqCurr \in Tasks /\ stopDepth \in Nat \cup {NoStop}
  BY <1>1 DEF TypeOK
<1>3. stopDepth # NoStop => Len(calls) = stopDepth + 1
  BY <1>1 DEF CallsShape
<1>4. /\ callDepth = Len(calls)
      /\ \A i \in 1..Len(calls) : callTasks[i] = calls[i].owner /\ calls[i].prevDepth = i - 1
  BY <1>1 DEF Bookkeeping
<1>5. stopDepth # NoStop => halted /\ control.at \in {"user", "kernel"}
  BY <1>1, Zenon DEF TransferScoped
<1>6. Shell \in Tasks /\ NoTask \notin Tasks
  BY TasksAssumption DEF Tasks
<1>7. Depth \in Nat /\ Depth <= Len(calls)
  BY <1>2, <1>3 DEF Depth, NoStop
<1> QED BY <1>2, <1>4, <1>5, <1>6, <1>7

\* An activation's arena is neither the user stack nor a shadow stack.
LEMMA ArenaApart ==
  ASSUME ScheduledInv, NEW i \in 1..Len(calls)
  PROVE  /\ calls[i].stack # UserStack
         /\ \A t \in Tasks : calls[i].stack # ShadowStack(t)
         /\ CallOK(calls[i])
         /\ calls[i].owner \in UserTasks
         /\ i = 1 \/ i = 2
<1>1. CallOK(calls[i]) /\ Len(calls) <= 2 /\ Len(calls) \in Nat
  BY Basics DEF ScheduledInv, NestingInv, CallsShape
<1>2. calls[i].stack.level >= 0
  BY <1>1 DEF CallOK
<1>3. UserStack.level = -2 /\ \A t \in Tasks : ShadowStack(t).level = -1
  BY DEF UserStack, ShadowStack, Shadow
<1>4. calls[i].stack # UserStack
  BY <1>2, <1>3
<1>5. \A t \in Tasks : calls[i].stack # ShadowStack(t)
  BY <1>2, <1>3
<1>6. calls[i].owner \in UserTasks
  BY <1>1 DEF CallOK
<1>7. i = 1 \/ i = 2
  BY <1>1
<1> QED BY <1>1, <1>4, <1>5, <1>6, <1>7

\* The program or a host callback runs on the user stack, with no call of its own.
LEMMA AtSurface ==
  ASSUME ScheduledInv, control.at = "host" \/ control.stack = UserStack
  PROVE  OnUserStack
<1>1. CASE control.at = "host"
  BY <1>1 DEF ScheduledInv, NestingInv, Frames, OnShadowStack, InArena
<1>2. CASE control.stack = UserStack
  <2>1. ~OnShadowStack
    <3>1. ShadowStack(rqCurr).level = -1 /\ UserStack.level = -2
      BY DEF ShadowStack, UserStack, Shadow
    <3> QED BY <1>2, <3>1 DEF OnShadowStack
  <2>2. ~InArena
    <3>1. SUFFICES ASSUME InArena PROVE FALSE
      OBVIOUS
    <3>2. Depth \in 1..Len(calls)
      BY <3>1, Basics DEF InArena, Base
    <3> QED BY <1>2, <3>1, <3>2, ArenaApart DEF InArena
  <2> QED BY <2>1, <2>2 DEF ScheduledInv, NestingInv, Frames
<1> QED BY <1>1, <1>2

\* The kernel side of a call, or a comparator, runs in the arena of the
\* innermost call; no transfer is armed while the machine runs or has returned.
LEMMA AtCall ==
  ASSUME ScheduledInv,
         \/ control.at = "kernel" /\ control.op \notin {"kthread", "ret_from_fork"}
         \/ control.op = "compare"
         \/ control.at = "returned"
  PROVE  InArena
<1>1. ~OnUserStack
  <2>1. SUFFICES ASSUME Surface(control, rqCurr) PROVE FALSE
    BY DEF OnUserStack
  <2> QED BY <2>1 DEF Surface, ForkOps
<1>2. ~OnShadowStack
  BY DEF OnShadowStack
<1> QED BY <1>1, <1>2 DEF ScheduledInv, NestingInv, Frames

\* A kernel thread, and a child on its way to user mode, run on their shadow stack.
LEMMA AtShadow ==
  ASSUME ScheduledInv, control.op \in {"kthread", "ret_from_fork"}
  PROVE  OnShadowStack
<1>1. ~OnUserStack
  <2>1. SUFFICES ASSUME Surface(control, rqCurr) PROVE FALSE
    BY DEF OnUserStack
  <2> QED BY <2>1 DEF Surface, ForkOps
<1>2. ~InArena
  <2>1. SUFFICES ASSUME InArena PROVE FALSE
    OBVIOUS
  <2>2. Depth \in 1..Len(calls)
    BY <2>1, Basics DEF InArena, Base
  <2>3. calls[Depth].op \in CallOps
    BY <2>2, ArenaApart DEF CallOK
  <2> QED BY <2>1, <2>3 DEF InArena, OpOf, CallOps, PreservingOps
<1> QED BY <1>1, <1>2 DEF ScheduledInv, NestingInv, Frames

-----------------------------------------------------------------------------
(***************************************************************************)
(* Entering a call.                                                        *)
(***************************************************************************)

\* The new activation lies above the others and saves what its entry saw.
LEMMA BeginEffect ==
  ASSUME TypeOK, NEW op, NEW owner \in Tasks, NEW preserve, NEW cell, NEW entry, NEW resume,
         BeginCall(op, owner, preserve, cell, entry, resume)
  PROVE  /\ Len(calls') = Len(calls) + 1
         /\ \A i \in 1..Len(calls) : calls'[i] = calls[i]
         /\ LET rec == calls'[Len(calls) + 1] IN
              /\ rec.op = op /\ rec.owner = owner /\ rec.preserve = preserve
              /\ rec.stack = [task |-> owner, level |-> ArenaLevel(owner)]
              /\ rec.resume = resume /\ rec.current = cell
              /\ rec.contexts = contexts /\ rec.active = activeUser
<1> DEFINE rec == [op |-> op, owner |-> owner,
                   stack |-> [task |-> owner, level |-> ArenaLevel(owner)],
                   preserve |-> preserve, prevDepth |-> callDepth,
                   taskDepth |-> taskDepths[owner], resume |-> resume, current |-> cell,
                   contexts |-> contexts, active |-> activeUser]
<1>1. /\ rec.op = op /\ rec.owner = owner /\ rec.preserve = preserve
      /\ rec.stack = [task |-> owner, level |-> ArenaLevel(owner)]
      /\ rec.resume = resume /\ rec.current = cell
      /\ rec.contexts = contexts /\ rec.active = activeUser
  OBVIOUS
<1>2. calls' = Append(calls, rec)
  BY DEF BeginCall
<1>3. calls \in Seq(CallRecord)
  BY DEF TypeOK
<1> HIDE DEF rec
<1>4. Len(calls') = Len(calls) + 1 /\ calls'[Len(calls) + 1] = rec
  BY <1>2, <1>3
<1>5. \A i \in 1..Len(calls) : calls'[i] = calls[i]
  BY <1>2, <1>3
<1> QED BY <1>1, <1>4, <1>5

\* The task that runs enters a call of its own from its program or a host callback.
LEMMA BeginStep ==
  ASSUME ScheduledInv, OnUserStack, stopDepth = NoStop,
         NEW op \in CallOps, NEW preserve, NEW entry \in {"user", "kernel"}, NEW resume,
         BeginCall(op, rqCurr, preserve, rqCurr, entry, resume),
         linuxCurrent' = rqCurr,
         preserve <=> op \in PreservingOps,
         entry = "user" => op = "compare",
         op \in {"fork", "vfork", "schedule"} => rqCurr = Shell,
         op = "exit" => rqCurr # Shell,
         Surface(resume, rqCurr),
         op \in ForkOps => resume.op = op,
         resume.op \in ForkOps => op = resume.op
  PROVE  OneCurrentTask' /\ CallsShape' /\ Frames' /\ ShellParked' /\ TasksOK'
<1> DEFINE n == Len(calls)
           stack == [task |-> rqCurr, level |-> ArenaLevel(rqCurr)]
<1>1. /\ n \in Nat /\ rqCurr \in UserTasks /\ rqCurr \in Tasks /\ n = Base
  BY Basics DEF OnUserStack, Depth
<1>2. TypeOK /\ OneCurrentTask /\ CallsShape /\ ShellParked /\ TasksOK
  BY DEF ScheduledInv, NestingInv, TransferInv
<1>3. /\ control' = Place(entry, IF entry = "user" THEN control.task ELSE rqCurr, stack, op, 0)
      /\ halted' = FALSE /\ kernelCurrent' = rqCurr
      /\ stopDepth' = stopDepth /\ contexts' = contexts /\ activeUser' = activeUser
      /\ rqCurr' = rqCurr /\ taskState' = taskState /\ parent' = parent
  BY DEF BeginCall, kernelVars
<1>4. control'.at = entry /\ control'.task = rqCurr /\ control'.stack = stack /\ control'.op = op
  BY <1>2, <1>3 DEF Place, OneCurrentTask
<1>5. /\ Len(calls') = n + 1
      /\ \A i \in 1..n : calls'[i] = calls[i]
  BY <1>1, <1>2, BeginEffect
<1> DEFINE rec == calls'[n + 1]
<1>6. /\ rec.op = op /\ rec.owner = rqCurr /\ rec.preserve = preserve /\ rec.stack = stack
      /\ rec.resume = resume /\ rec.current = rqCurr
      /\ rec.contexts = contexts /\ rec.active = activeUser
  BY <1>1, <1>2, BeginEffect
<1>7. ArenaLevel(rqCurr) \in Nat
  BY <1>1, <1>2, ArenaLevelType
<1>8. stack.task = rqCurr /\ stack.level >= 0
  BY <1>7
<1>9. (rec.owner = Shell <=> n + 1 = 1)
  BY <1>1, <1>6 DEF Base
<1> HIDE DEF rec, stack, n
<1>10. CallOK(rec)
  <2>1. rec.preserve <=> rec.op \in PreservingOps
    BY <1>6, Zenon
  <2> QED BY <2>1, <1>1, <1>2, <1>6, <1>8 DEF CallOK, OneCurrentTask
<1>11. OneCurrentTask'
  BY <1>2, <1>3, <1>4 DEF OneCurrentTask
<1>12. CallsShape'
  <2>1. Len(calls') <= 2
    BY <1>1, <1>5 DEF Base
  <2>2. ASSUME NEW i \in 1..(n + 1)
        PROVE  CallOK(calls'[i]) /\ (calls'[i].owner = Shell <=> i = 1)
    <3>1. CASE i \in 1..n
      BY <3>1, <1>2, <1>5 DEF CallsShape, n
    <3>2. CASE i = n + 1
      BY <3>2, <1>9, <1>10 DEF rec
    <3> QED BY <3>1, <3>2, <1>1
  <2>3. ~halted'
    BY <1>3, Zenon
  <2> QED BY <2>1, <2>2, <2>3, <1>3, <1>5 DEF CallsShape
<1>13. Depth' = n + 1 /\ Base' = Base
  BY <1>3, <1>5 DEF Depth, Base
<1>14. InArena'
  <2>1. Depth' = Base' + 1 /\ calls'[Depth'] = rec
    BY <1>1, <1>13 DEF rec
  <2>2. OpOf(rec, op)
    BY <1>6 DEF OpOf
  <2> QED BY <2>1, <2>2, <1>3, <1>4, <1>6 DEF InArena, OpOf
<1>15. ShellParked'
  <2>1. SUFFICES ASSUME rqCurr' # Shell PROVE ShellParked'
    BY DEF ShellParked
  <2>2. n >= 1 /\ calls'[1] = calls[1]
    BY <2>1, <1>1, <1>3, <1>5 DEF Base
  <2> QED BY <2>1, <2>2, <1>1, <1>2, <1>3, <1>5 DEF ShellParked, OpOf, n
<1>16. TasksOK'
  BY <1>2, <1>3 DEF TasksOK, ChildOK, KThreadOK
<1> QED BY <1>11, <1>12, <1>14, <1>15, <1>16 DEF Frames

\* The fork tables are left alone by a call that is no fork and no exit.
LEMMA BeginForks ==
  ASSUME ScheduledInv, OnUserStack,
         control.op \notin ForkOps,
         UNCHANGED <<rqCurr, taskState, pending, forkConts>>,
         control'.op \notin ForkOps \cup {"ret_from_fork"},
         exitTask' = IF control'.op = "exit" THEN rqCurr ELSE NoTask
  PROVE  ForksOK'
<1>1. control.op # "ret_from_fork"
  BY DEF OnUserStack, Surface, ForkOps
<1> QED BY <1>1 DEF ScheduledInv, NestingInv, ForksOK

\* The fork tables are left alone while a fork is under way.
LEMMA ForkGoesOn ==
  ASSUME ScheduledInv, control.op \in ForkOps, control'.op \in ForkOps,
         UNCHANGED <<rqCurr, taskState, pending, forkConts, exitTask>>
  PROVE  ForksOK'
  BY DEF ScheduledInv, NestingInv, ForksOK, ForkOps

\* The host knows the running task whichever table it asks.
LEMMA RunningTask ==
  ASSUME ScheduledInv
  PROVE  /\ ActiveTask = rqCurr /\ linuxCurrent = rqCurr /\ kernelCurrent = rqCurr
         /\ control.task = rqCurr
         /\ (IF linuxCurrent # NoTask THEN linuxCurrent ELSE ActiveTask) = rqCurr
         /\ ~halted => stopDepth = NoStop
         /\ control.at = "host" => stopDepth = NoStop
  BY Basics DEF ScheduledInv, NestingInv, OneCurrentTask, ActiveTask

\* What the program of the running task sees before it calls.
LEMMA AtProgram ==
  ASSUME ScheduledInv, ReleaseGates, InUserCode,
         control.stack = UserStack \/ ComparatorCalls
  PROVE  /\ OnUserStack /\ stopDepth = NoStop
         /\ control.op = "none" /\ Surface(control, rqCurr)
<1>1. control.stack = UserStack
  BY DEF ReleaseGates
<1>2. ~halted /\ control.at = "user"
  BY DEF InUserCode
<1> QED BY <1>1, <1>2, AtSurface, RunningTask DEF OnUserStack, Surface

\* A system call opens a record for the program of the current task.
LEMMA SystemCallStep ==
  ASSUME ScheduledInv, ReleaseGates, NEW op \in {"io", "exec", "exit"}, SystemCall(op)
  PROVE  NestingInv'
<1>1. /\ OnUserStack /\ stopDepth = NoStop
      /\ control.op = "none" /\ Surface(control, rqCurr)
  <2>1. InUserCode /\ (control.stack = UserStack \/ ComparatorCalls)
    BY DEF SystemCall
  <2> QED BY <2>1, AtProgram
<1>2. /\ BeginCall(op, rqCurr, FALSE, rqCurr, "kernel", control)
      /\ linuxCurrent' = rqCurr
      /\ op = "exit" => rqCurr # Shell
      /\ exitTask' = IF op = "exit" THEN rqCurr ELSE exitTask
      /\ pending' = pending /\ forkConts' = forkConts
  BY RunningTask DEF SystemCall, forkVars
<1>3. op \in CallOps /\ op \notin PreservingOps /\ op \notin ForkOps
  BY DEF CallOps, PreservingOps, ForkOps
<1>4. OneCurrentTask' /\ CallsShape' /\ Frames' /\ ShellParked' /\ TasksOK'
  BY <1>1, <1>2, <1>3, BeginStep DEF ForkOps
<1>5. ForksOK'
  <2>1. control'.op = op /\ UNCHANGED <<rqCurr, taskState, pending, forkConts>>
    BY <1>2 DEF BeginCall, Place, kernelVars
  <2>2. exitTask = NoTask
    BY <1>1 DEF ScheduledInv, NestingInv, ForksOK
  <2> QED BY <1>1, <1>2, <1>3, <2>1, <2>2, BeginForks DEF ForkOps
<1> QED BY <1>4, <1>5 DEF NestingInv

\* A comparator runs in an activation of its own, on top of the qsort that called it.
LEMMA QsortCompareStep ==
  ASSUME ScheduledInv, ReleaseGates, QsortCompare
  PROVE  NestingInv'
<1>1. /\ OnUserStack /\ stopDepth = NoStop
      /\ control.op = "none" /\ Surface(control, rqCurr)
  <2>1. InUserCode /\ (control.stack = UserStack \/ ComparatorCalls)
    BY DEF QsortCompare
  <2> QED BY <2>1, AtProgram
<1>2. /\ BeginCall("compare", rqCurr, FALSE, rqCurr, "user", control)
      /\ linuxCurrent' = rqCurr
      /\ UNCHANGED <<exitTask, pending, forkConts>>
  BY RunningTask DEF QsortCompare, forkVars
<1>3. "compare" \in CallOps /\ "compare" \notin PreservingOps
  BY DEF CallOps, PreservingOps
<1>4. OneCurrentTask' /\ CallsShape' /\ Frames' /\ ShellParked' /\ TasksOK'
  BY <1>1, <1>2, <1>3, BeginStep DEF ForkOps
<1>5. ForksOK'
  <2>1. control'.op = "compare" /\ UNCHANGED <<rqCurr, taskState, pending, forkConts>>
    BY <1>2 DEF BeginCall, Place, kernelVars
  <2>2. exitTask = NoTask
    BY <1>1 DEF ScheduledInv, NestingInv, ForksOK
  <2> QED BY <1>1, <1>2, <2>1, <2>2, BeginForks DEF ForkOps
<1> QED BY <1>4, <1>5 DEF NestingInv

\* fork saves the parent's chain and enters clone; ReleaseGates keep it to the shell.
LEMMA UserForkStep ==
  ASSUME ScheduledInv, ReleaseGates, NEW op \in {"fork", "vfork"}, UserFork(op)
  PROVE  NestingInv'
<1>1. /\ OnUserStack /\ stopDepth = NoStop
      /\ control.op = "none" /\ Surface(control, rqCurr)
  <2>1. InUserCode /\ (control.stack = UserStack \/ ComparatorCalls)
    BY DEF UserFork
  <2> QED BY <2>1, AtProgram
<1>2. rqCurr = Shell /\ pending = NoTask
  BY RunningTask DEF UserFork, ReleaseGates
<1> DEFINE resume == Place("host", rqCurr, UserStack, op, 0)
<1>3. /\ BeginCall(op, rqCurr, TRUE, rqCurr, "kernel", resume)
      /\ linuxCurrent' = rqCurr /\ pending' = rqCurr
      /\ UNCHANGED <<exitTask, forkConts>>
  BY RunningTask DEF UserFork
<1>4. op \in CallOps /\ op \in PreservingOps /\ op \in ForkOps /\ op # "exit"
  BY DEF CallOps, PreservingOps, ForkOps
<1>5. Surface(resume, rqCurr) /\ resume.op = op
  BY <1>2, <1>4 DEF Surface, Place
<1> HIDE DEF resume
<1>6. OneCurrentTask' /\ CallsShape' /\ Frames' /\ ShellParked' /\ TasksOK'
  BY <1>1, <1>2, <1>3, <1>4, <1>5, BeginStep
<1>7. ForksOK'
  <2>1. control'.op = op /\ UNCHANGED <<rqCurr, taskState>>
    BY <1>3 DEF BeginCall, Place, kernelVars
  <2>2. ForksOK /\ Shell # NoTask
    BY TasksAssumption DEF ScheduledInv, NestingInv, Tasks
  <2>3. \A c \in Offspring : taskState[c] # "new"
    BY <2>2, <1>2 DEF ForksOK
  <2>4. /\ exitTask = NoTask
        /\ \A t \in Tasks : forkConts[t] = NoTask
    BY <2>2, <1>1 DEF ForksOK
  <2>5. control'.op \notin {"exit", "ret_from_fork"} /\ control'.op \in ForkOps
    BY <2>1, <1>4 DEF ForkOps
  <2> QED BY <1>2, <1>3, <2>1, <2>3, <2>4, <2>5 DEF ForksOK, Offspring
<1> QED BY <1>6, <1>7 DEF NestingInv

\* A host callback runs on the user stack of its task, with no transfer armed.
LEMMA AtCallback ==
  ASSUME ScheduledInv, control.at = "host"
  PROVE  /\ OnUserStack /\ stopDepth = NoStop /\ Surface(control, rqCurr)
         /\ exitTask = NoTask
<1>1. OnUserStack /\ stopDepth = NoStop /\ Surface(control, rqCurr)
  BY AtSurface, RunningTask DEF OnUserStack
<1>2. control.op # "exit"
  BY <1>1 DEF Surface, ForkOps
<1> QED BY <1>1, <1>2 DEF ScheduledInv, NestingInv, ForksOK

\* A clone that is retried is the same call again.
LEMMA ForkRetryStep == ASSUME ScheduledInv, ForkRetry PROVE NestingInv'
<1>1. /\ OnUserStack /\ stopDepth = NoStop /\ Surface(control, rqCurr)
      /\ exitTask = NoTask
  BY AtCallback DEF ForkRetry, InHostCallback
<1>2. control.op \in ForkOps /\ rqCurr = Shell
  BY <1>1 DEF ForkRetry, InHostCallback, ForkOps, Surface
<1>3. /\ BeginCall(control.op, rqCurr, TRUE, rqCurr, "kernel", control)
      /\ linuxCurrent' = rqCurr
      /\ UNCHANGED <<exitTask, pending, forkConts>>
  BY RunningTask DEF ForkRetry, forkVars
<1>4. control.op \in CallOps /\ control.op \in PreservingOps /\ control.op # "exit"
  BY <1>2 DEF CallOps, PreservingOps, ForkOps
<1>5. OneCurrentTask' /\ CallsShape' /\ Frames' /\ ShellParked' /\ TasksOK'
  BY <1>1, <1>2, <1>3, <1>4, BeginStep
<1>6. control'.op = control.op /\ UNCHANGED <<rqCurr, taskState>>
  BY <1>3 DEF BeginCall, Place, kernelVars
<1> QED BY <1>2, <1>3, <1>5, <1>6, ForkGoesOn DEF NestingInv

\* A scheduling round of waitpid is a call of the waiting task.
LEMMA WaitpidScheduleStep == ASSUME ScheduledInv, WaitpidSchedule PROVE NestingInv'
<1>1. /\ OnUserStack /\ stopDepth = NoStop /\ Surface(control, rqCurr)
      /\ exitTask = NoTask
  BY AtCallback DEF WaitpidSchedule, InHostCallback
<1>2. control.op = "waitpid" /\ control.at = "host" /\ pending # NoTask
  BY DEF WaitpidSchedule, InHostCallback, MustDriveScheduler
<1>3. rqCurr = Shell
  BY <1>1, <1>2 DEF ScheduledInv, NestingInv, ForksOK, OnUserStack, Offspring
<1> DEFINE resume == [control EXCEPT !.n = @ + 1]
<1>4. /\ BeginCall("schedule", rqCurr, TRUE, rqCurr, "kernel", resume)
      /\ linuxCurrent' = rqCurr
      /\ UNCHANGED <<exitTask, pending, forkConts>>
  BY RunningTask DEF WaitpidSchedule, forkVars
<1>5. Surface(resume, rqCurr) /\ resume.op = "waitpid"
  <2>1. control \in Control
    BY DEF ScheduledInv, TransferInv, TypeOK
  <2> QED BY <1>1, <1>2, <2>1 DEF Surface, Control
<1> HIDE DEF resume
<1>6. "schedule" \in CallOps /\ "schedule" \in PreservingOps
  BY DEF CallOps, PreservingOps
<1>7. OneCurrentTask' /\ CallsShape' /\ Frames' /\ ShellParked' /\ TasksOK'
  BY <1>1, <1>3, <1>4, <1>5, <1>6, BeginStep DEF ForkOps
<1>8. control'.op = "schedule" /\ UNCHANGED <<rqCurr, taskState>>
  BY <1>4 DEF BeginCall, Place, kernelVars
<1>9. ForksOK'
  BY <1>1, <1>2, <1>4, <1>8, BeginForks DEF ForkOps
<1> QED BY <1>7, <1>9 DEF NestingInv

\* So is the trap of the wait that follows the rounds.
LEMMA WaitpidTrapStep == ASSUME ScheduledInv, WaitpidTrap PROVE NestingInv'
<1>1. /\ OnUserStack /\ stopDepth = NoStop /\ Surface(control, rqCurr)
      /\ exitTask = NoTask
  BY AtCallback DEF WaitpidTrap, InHostCallback
<1>2. control.op = "waitpid" /\ control.at = "host"
  BY DEF WaitpidTrap, InHostCallback
<1> DEFINE resume == Place("host", rqCurr, UserStack, "wait4", 0)
<1>4. /\ BeginCall("trap", rqCurr, FALSE, rqCurr, "kernel", resume)
      /\ linuxCurrent' = rqCurr
      /\ UNCHANGED <<exitTask, pending, forkConts>>
  BY RunningTask DEF WaitpidTrap, forkVars
<1>5. Surface(resume, rqCurr) /\ resume.op = "wait4"
  BY DEF Surface, Place
<1> HIDE DEF resume
<1>6. "trap" \in CallOps /\ "trap" \notin PreservingOps
  BY DEF CallOps, PreservingOps
<1>7. OneCurrentTask' /\ CallsShape' /\ Frames' /\ ShellParked' /\ TasksOK'
  BY <1>1, <1>4, <1>5, <1>6, BeginStep DEF ForkOps
<1>8. control'.op = "trap" /\ UNCHANGED <<rqCurr, taskState>>
  BY <1>4 DEF BeginCall, Place, kernelVars
<1>9. ForksOK'
  BY <1>1, <1>2, <1>4, <1>8, BeginForks DEF ForkOps
<1> QED BY <1>7, <1>9 DEF NestingInv

\* The wait falls back to the ordinary system call.
LEMMA WaitpidWait4Step == ASSUME ScheduledInv, WaitpidWait4 PROVE NestingInv'
<1>1. /\ OnUserStack /\ stopDepth = NoStop /\ Surface(control, rqCurr)
      /\ exitTask = NoTask
  BY AtCallback DEF WaitpidWait4, InHostCallback
<1>2. control.op = "wait4" /\ control.at = "host"
  BY DEF WaitpidWait4, InHostCallback
<1> DEFINE resume == UserCode(rqCurr)
<1>4. /\ BeginCall("wait4", rqCurr, TRUE, rqCurr, "kernel", resume)
      /\ linuxCurrent' = rqCurr
      /\ UNCHANGED <<exitTask, pending, forkConts>>
  BY RunningTask DEF WaitpidWait4, forkVars
<1>5. Surface(resume, rqCurr) /\ resume.op = "none"
  BY DEF Surface, UserCode, Place
<1> HIDE DEF resume
<1>6. "wait4" \in CallOps /\ "wait4" \in PreservingOps
  BY DEF CallOps, PreservingOps
<1>7. OneCurrentTask' /\ CallsShape' /\ Frames' /\ ShellParked' /\ TasksOK'
  BY <1>1, <1>4, <1>5, <1>6, BeginStep DEF ForkOps
<1>8. control'.op = "wait4" /\ UNCHANGED <<rqCurr, taskState>>
  BY <1>4 DEF BeginCall, Place, kernelVars
<1>9. ForksOK'
  BY <1>1, <1>2, <1>4, <1>8, BeginForks DEF ForkOps
<1> QED BY <1>7, <1>9 DEF NestingInv

\* A system call that has not yet entered the kernel changes no table.
LEMMA UserWaitpidStep == ASSUME ScheduledInv, ReleaseGates, UserWaitpid PROVE NestingInv'
<1>1. /\ OnUserStack /\ stopDepth = NoStop
      /\ control.op = "none" /\ Surface(control, rqCurr)
  <2>1. InUserCode /\ (control.stack = UserStack \/ ComparatorCalls)
    BY DEF UserWaitpid
  <2> QED BY <2>1, AtProgram
<1>2. /\ control' = Place("host", rqCurr, UserStack, "waitpid", 0)
      /\ linuxCurrent' = rqCurr /\ kernelCurrent' = rqCurr /\ halted' = halted
      /\ UNCHANGED <<calls, stopDepth, exitTask, contexts, activeUser, pending, forkConts,
                     rqCurr, taskState, parent>>
  BY RunningTask DEF UserWaitpid, hostVars, transferVars, forkVars, kernelVars
<1>3. control'.at = "host" /\ control'.task = rqCurr /\ control'.stack = UserStack
      /\ control'.op = "waitpid"
  BY <1>2 DEF Place
<1>4. OneCurrentTask /\ CallsShape /\ ShellParked /\ TasksOK
  BY DEF ScheduledInv, NestingInv
<1>5. OneCurrentTask'
  BY <1>2, <1>3, <1>4 DEF OneCurrentTask
<1>6. CallsShape'
  <2>1. ~halted'
    <3>1. halted = FALSE /\ halted' = halted
      BY <1>2 DEF UserWaitpid, InUserCode
    <3> QED BY <3>1, Zenon
  <2> QED BY <2>1, <1>2, <1>4 DEF CallsShape
<1>7. Frames'
  BY <1>1, <1>2, <1>3 DEF Frames, OnUserStack, Surface, Depth, Base
<1>8. ShellParked' /\ TasksOK'
  BY <1>2, <1>4 DEF ShellParked, TasksOK, ChildOK, KThreadOK
<1>9. exitTask = NoTask
  BY <1>1 DEF ScheduledInv, NestingInv, ForksOK
<1>10. ForksOK'
  BY <1>1, <1>2, <1>3, <1>9, BeginForks DEF ForkOps
<1> QED BY <1>5, <1>6, <1>7, <1>8, <1>10 DEF NestingInv

-----------------------------------------------------------------------------
(***************************************************************************)
(* The end of a call.                                                      *)
(***************************************************************************)

\* The innermost activation goes and the others stay as they are.
LEMMA PopEffect ==
  ASSUME TypeOK, calls # <<>>, PopCall
  PROVE  /\ Len(calls) \in Nat /\ Len(calls) >= 1
         /\ Len(calls') = Len(calls) - 1
         /\ \A i \in 1..Len(calls) - 1 : calls'[i] = calls[i]
<1> DEFINE n == Len(calls)
<1>1. calls \in Seq(CallRecord) /\ n = Len(calls) /\ n \in Nat \ {0}
  BY TopType DEF TypeOK
<1> HIDE DEF n
<1>2. calls' = SubSeq(calls, 1, n - 1)
  BY <1>1 DEF PopCall
<1>3. Len(calls') = n - 1 /\ \A i \in 1..(n - 1) : calls'[i] = calls[i]
  BY <1>1, <1>2
<1> QED BY <1>1, <1>3

\* Whether a transfer is under way, in the terms of the invariant.
LEMMA TransferDepth ==
  ASSUME ScheduledInv, halted, calls # <<>>
  PROVE  /\ InTransfer <=> stopDepth # NoStop
         /\ Len(calls) \in 1..Len(calls) /\ Top = calls[Len(calls)]
         /\ Top.prevDepth = Len(calls) - 1
<1>1. TypeOK /\ CallsShape
  BY DEF ScheduledInv, NestingInv, TransferInv
<1>2. Len(calls) \in Nat \ {0} /\ Top = calls[Len(calls)]
  BY <1>1, TopType DEF Top
<1>3. Len(calls) \in 1..Len(calls)
  BY <1>2
<1>4. Top.prevDepth = Len(calls) - 1
  BY <1>2, <1>3, Basics
<1>5. stopDepth # NoStop => Len(calls) = stopDepth + 1
  BY <1>1 DEF CallsShape
<1>6. stopDepth \in Nat \cup {NoStop}
  BY Basics
<1>7. InTransfer <=> stopDepth # NoStop
  BY <1>2, <1>4, <1>5, <1>6 DEF InTransfer
<1> QED BY <1>2, <1>3, <1>4, <1>7

\* A call returns to the program or the host callback of the task that entered it.
LEMMA FinishReturnStep ==
  ASSUME ScheduledInv, FinishReturn
  PROVE  NestingInv' /\ Surface(control', rqCurr)
<1> DEFINE n == Len(calls)
<1>1. /\ halted /\ calls # <<>> /\ ~InTransfer /\ PopCall
      /\ control' = AfterCall(Top) /\ pending' = PendingAfterCall(Top)
      /\ halted' = FALSE /\ activeUser' = Top.active
      /\ UNCHANGED <<stopDepth, exitTask, linuxCurrent, forkConts, rqCurr, taskState, parent>>
  BY DEF FinishReturn, transferVars, kernelVars
<1>2. /\ stopDepth = NoStop /\ n \in 1..n /\ Top = calls[n]
  BY <1>1, TransferDepth
<1>3. TypeOK /\ OneCurrentTask /\ CallsShape /\ ShellParked /\ TasksOK /\ ForksOK
  BY DEF ScheduledInv, NestingInv, TransferInv
<1>4. control.at = "returned"
  BY <1>1, <1>2, <1>3 DEF CallsShape
<1>5. InArena /\ n = Depth
  BY <1>2, <1>4, AtCall DEF Depth
<1>6. n \in Nat /\ n = Base + 1 /\ Len(calls') = n - 1 /\ \A i \in 1..n - 1 : calls'[i] = calls[i]
  BY <1>1, <1>3, <1>5, PopEffect DEF InArena
<1>7. CallOK(Top) /\ Top.owner = rqCurr /\ rqCurr \in UserTasks /\ OpOf(Top, control.op)
  BY <1>2, <1>5, ArenaApart DEF InArena
<1>8. /\ control.op \in ForkOps => control.n # Succeeded
      /\ control.op = "cloned" => control.n = Succeeded
  BY <1>4, <1>5 DEF InArena
<1>9. Top.op \notin PreservingOps => Top.contexts = contexts
  BY <1>2, <1>5 DEF InArena
<1>10. kernelCurrent' = rqCurr /\ contexts' = contexts
  <2>1. CASE Top.preserve
    <3>1. kernelCurrent' = kernelCurrent /\ contexts' = contexts
      BY <2>1 DEF FinishReturn
    <3> QED BY <3>1, RunningTask
  <2>2. CASE ~Top.preserve
    <3>1. kernelCurrent' = Top.current /\ contexts' = Top.contexts
      BY <2>2 DEF FinishReturn
    <3>2. Top.op \notin PreservingOps
      BY <2>2, <1>7, Zenon DEF CallOK
    <3> QED BY <3>1, <3>2, <1>7, <1>9 DEF CallOK
  <2> QED BY <2>1, <2>2
<1> HIDE DEF n
\* The fork tables: a fork that made no child gives up its pending continuation.
<1>11. Surface(control', rqCurr)
       /\ (control'.op \in ForkOps => Top.op \in ForkOps /\ control.op \in ForkOps
                                    /\ pending' = pending)
       /\ (control'.op \notin ForkOps =>
            pending' = IF control.op \in ForkOps THEN NoTask ELSE pending)
  <2>1. Surface(Top.resume, rqCurr) /\ Top.resume \in Control
    <3>1. Top \in CallRecord
      BY <1>1, <1>3, TopType
    <3> QED BY <3>1, <1>7 DEF CallOK, CallRecord
  <2>2. CASE ~IsFork(Top)
    <3>1. control' = Top.resume /\ pending' = pending
      BY <2>2, <1>1 DEF AfterCall, PendingAfterCall, RetriesFork
    <3>2. Top.op \notin ForkOps /\ Top.resume.op \notin ForkOps /\ control.op = Top.op
      BY <2>2, <1>7 DEF IsFork, ForkOps, CallOK, OpOf
    <3> QED BY <3>1, <3>2, <2>1
  <2>3. CASE IsFork(Top)
    <3>1. Top.op \in ForkOps /\ Top.resume.op = Top.op /\ Top.resume.task = rqCurr
          /\ control.op \in ForkOps \cup {"cloned"} /\ rqCurr = Shell /\ "cloned" \notin ForkOps
      BY <2>3, <1>7, <2>1 DEF IsFork, ForkOps, CallOK, OpOf, Surface
    <3>2. CASE RetriesFork(Top)
      <4>1. control' = [Top.resume EXCEPT !.n = @ + 1] /\ pending' = pending
        BY <2>3, <3>2, <1>1 DEF AfterCall, PendingAfterCall
      <4>2. control.op \in ForkOps
        BY <3>1, <3>2, <1>8 DEF RetriesFork, Restart, Succeeded
      <4>3. Surface(control', rqCurr) /\ control'.op = Top.op
        BY <4>1, <2>1, <3>1 DEF Surface, Control
      <4> QED BY <4>1, <4>2, <4>3, <3>1
    <3>3. CASE ~RetriesFork(Top)
      <4>1. control' = UserCode(rqCurr)
        BY <2>3, <3>1, <3>3, <1>1 DEF AfterCall
      <4>2. Surface(control', rqCurr) /\ control'.op = "none"
        BY <4>1 DEF UserCode, Place, Surface
      <4>3. pending' = IF control.n # Succeeded /\ pending = rqCurr THEN NoTask ELSE pending
        BY <2>3, <3>1, <3>3, <1>1 DEF PendingAfterCall
      <4>4. pending' = IF control.op \in ForkOps THEN NoTask ELSE pending
        BY <4>3, <3>1, <1>3, <1>8 DEF ForksOK
      <4> QED BY <4>2, <4>4 DEF ForkOps
    <3> QED BY <3>2, <3>3
  <2> QED BY <2>2, <2>3
<1>12. control.op # "exit" /\ control.op # "ret_from_fork"
       /\ control'.op # "exit" /\ control'.op # "ret_from_fork"
  <2>1. control.op # "ret_from_fork"
    BY <1>7 DEF OpOf, CallOK, CallOps, PreservingOps, ForkOps
  <2>2. control.op # "exit"
    BY <1>4, <1>5 DEF InArena
  <2> QED BY <2>1, <2>2, <1>11 DEF Surface, ForkOps
<1>13. OneCurrentTask'
  BY <1>1, <1>3, <1>7, <1>10, <1>11 DEF OneCurrentTask, CallOK, Surface
<1>14. CallsShape'
  <2>1. ~halted'
    BY <1>1, Zenon
  <2> QED BY <2>1, <1>1, <1>2, <1>3, <1>6 DEF CallsShape, n
<1>15. OnUserStack'
  <2>1. Depth' = n - 1 /\ Base' = Base
    BY <1>1, <1>2, <1>6 DEF Depth, Base
  <2> QED BY <2>1, <1>1, <1>6, <1>7, <1>11 DEF OnUserStack, Surface, Base
<1>16. ShellParked'
  <2>1. SUFFICES ASSUME rqCurr # Shell PROVE ShellParked'
    BY <1>1 DEF ShellParked
  <2>2. n = 2 /\ calls'[1] = calls[1]
    BY <2>1, <1>6 DEF Base
  <2> QED BY <2>1, <2>2, <1>1, <1>3, <1>6, <1>10 DEF ShellParked, OpOf
<1>17. TasksOK'
  BY <1>1, <1>3, <1>10 DEF TasksOK, ChildOK, KThreadOK
<1>18. ForksOK'
  BY <1>1, <1>3, <1>11, <1>12 DEF ForksOK
<1> QED BY <1>11, <1>13, <1>14, <1>15, <1>16, <1>17, <1>18 DEF NestingInv, Frames

\* A transfer unwinds the call above its boundary, and the machine goes on where it was.
LEMMA FinishTransferStep == ASSUME ScheduledInv, FinishTransfer PROVE NestingInv'
<1> DEFINE n == Len(calls)
<1>1. /\ halted /\ calls # <<>> /\ InTransfer /\ PopCall
      /\ stopDepth' = IF Top.prevDepth = stopDepth THEN NoStop ELSE stopDepth
      /\ halted' = (Top.prevDepth # stopDepth)
      /\ UNCHANGED <<control, exitTask, contexts, linuxCurrent, activeUser, pending,
                     forkConts, kernelCurrent, rqCurr, taskState, parent>>
  BY DEF FinishTransfer, forkVars, kernelVars
<1>2. TypeOK /\ OneCurrentTask /\ CallsShape /\ Frames /\ ShellParked /\ TasksOK /\ ForksOK
  BY DEF ScheduledInv, NestingInv, TransferInv
<1>3. stopDepth # NoStop /\ Top.prevDepth = n - 1 /\ n = stopDepth + 1
  BY <1>1, <1>2, TransferDepth DEF CallsShape
<1>4. n \in Nat /\ stopDepth \in Nat /\ control.at \in {"user", "kernel"}
  BY <1>3, Basics
<1>5. stopDepth' = NoStop /\ ~halted'
  <2>1. Top.prevDepth = stopDepth
    BY <1>3, <1>4
  <2>2. stopDepth' = NoStop
    BY <1>1, <2>1
  <2>3. ~halted'
    BY <1>1, <2>1, Zenon
  <2> QED BY <2>2, <2>3
<1>6. Len(calls') = n - 1 /\ \A i \in 1..n - 1 : calls'[i] = calls[i]
  BY <1>1, <1>2, PopEffect
<1>7. Depth = n - 1 /\ Depth' = n - 1 /\ Base' = Base
  BY <1>1, <1>3, <1>4, <1>5, <1>6 DEF Depth, Base
<1> HIDE DEF n
<1>8. OneCurrentTask' /\ TasksOK' /\ ForksOK'
  BY <1>1, <1>2 DEF OneCurrentTask, TasksOK, ChildOK, KThreadOK, ForksOK
<1>9. CallsShape'
  BY <1>2, <1>4, <1>5, <1>6 DEF CallsShape, n
<1>10. Frames'
  <2>1. CASE OnUserStack
    BY <2>1, <1>1, <1>7 DEF OnUserStack, Surface, Frames
  <2>2. CASE OnShadowStack
    BY <2>2, <1>1, <1>7 DEF OnShadowStack, Frames
  <2>3. CASE InArena
    <3>1. calls'[Depth'] = calls[Depth]
      BY <2>3, <1>4, <1>6, <1>7 DEF InArena, Base
    <3> QED BY <2>3, <3>1, <1>1, <1>7 DEF InArena, OpOf, Frames
  <2> QED BY <2>1, <2>2, <2>3, <1>2 DEF Frames
<1>11. ShellParked'
  <2>1. SUFFICES ASSUME rqCurr # Shell PROVE ShellParked'
    BY <1>1 DEF ShellParked
  <2>2. Depth >= 1
    BY <2>1, <1>2 DEF Frames, OnUserStack, OnShadowStack, InArena, Base
  <2>3. n - 1 >= 1 /\ calls'[1] = calls[1]
    BY <2>2, <1>4, <1>6, <1>7
  <2> QED BY <2>1, <2>3, <1>1, <1>2, <1>6 DEF ShellParked, OpOf
<1> QED BY <1>8, <1>9, <1>10, <1>11 DEF NestingInv

-----------------------------------------------------------------------------
(***************************************************************************)
(* Inside a call: the kernel returns, clones, reaps.                       *)
(***************************************************************************)

\* The fork tables do not change while the same operation goes on and no child appears.
LEMMA ForksSame ==
  ASSUME ScheduledInv, control'.op = control.op,
         UNCHANGED <<rqCurr, pending, forkConts, exitTask>>,
         \A c \in Offspring : taskState'[c] = "new" <=> taskState[c] = "new"
  PROVE  ForksOK'
  BY DEF ScheduledInv, NestingInv, ForksOK

\* The guest function of the innermost call returns to halt_code.
LEMMA ReturnStep ==
  ASSUME ScheduledInv, InArena, ~halted, NEW outcome, Return(outcome),
         control.op # "exit",
         control.op \in ForkOps => outcome # Succeeded,
         control.op = "cloned" => outcome = Succeeded,
         \A c \in Offspring : taskState'[c] = "new" <=> taskState[c] = "new"
  PROVE  OneCurrentTask' /\ CallsShape' /\ Frames' /\ ShellParked' /\ ForksOK'
<1>1. /\ control' = [control EXCEPT !.at = "returned", !.n = outcome]
      /\ UNCHANGED <<calls, stopDepth, exitTask, contexts, linuxCurrent, activeUser,
                     pending, forkConts, kernelCurrent, rqCurr, parent>>
  BY DEF Return, hostVars, transferVars, forkVars
<1>2. TypeOK /\ OneCurrentTask /\ CallsShape /\ ShellParked
  BY DEF ScheduledInv, NestingInv, TransferInv
<1>3. /\ control'.at = "returned" /\ control'.op = control.op /\ control'.n = outcome
      /\ control'.stack = control.stack /\ control'.task = control.task
  BY <1>1, <1>2 DEF TypeOK, Control
<1>4. OneCurrentTask'
  BY <1>1, <1>2, <1>3 DEF OneCurrentTask
<1>5. CallsShape'
  BY <1>1, <1>2, <1>3, RunningTask DEF CallsShape
<1>6. InArena'
  <2>1. Depth' = Depth /\ Base' = Base
    BY <1>1 DEF Depth, Base
  <2> QED BY <2>1, <1>1, <1>3 DEF InArena, OpOf
<1>7. ShellParked'
  BY <1>1, <1>2 DEF ShellParked, OpOf
<1>8. ForksOK'
  BY <1>1, <1>3, ForksSame
<1> QED BY <1>4, <1>5, <1>6, <1>7, <1>8 DEF Frames

\* The kernel's side returns to the activation whose call it was.
LEMMA KernelReturnStep ==
  ASSUME ScheduledInv, NEW outcome \in {Succeeded, Failed, Restart}, KernelReturn(outcome)
  PROVE  NestingInv'
<1>1. /\ control.at = "kernel" /\ ~halted /\ Return(outcome) /\ taskState' = taskState
      /\ control.op \in {"io", "schedule", "cloned", "wait4", "exec", "trap", "fork", "vfork"}
      /\ control.op \in ForkOps => outcome # Succeeded
      /\ control.op = "cloned" => outcome = Succeeded
  BY DEF KernelReturn, InKernel, Succeeded, Failed, Restart, ForkOps
<1>2. InArena
  BY <1>1, AtCall
<1>3. OneCurrentTask' /\ CallsShape' /\ Frames' /\ ShellParked' /\ ForksOK'
  BY <1>1, <1>2, ReturnStep
<1>4. TasksOK'
  <2>1. UNCHANGED <<contexts, rqCurr, parent, taskState>>
    BY <1>1 DEF Return
  <2> QED BY <2>1 DEF ScheduledInv, NestingInv, TasksOK, ChildOK, KThreadOK
<1> QED BY <1>3, <1>4 DEF NestingInv

\* A comparator returns to the qsort that called it.
LEMMA ComparatorReturnStep ==
  ASSUME ScheduledInv, ComparatorReturn
  PROVE  NestingInv'
<1>1. /\ ~halted /\ Return(Succeeded) /\ taskState' = taskState
      /\ control.op = "compare"
  BY DEF ComparatorReturn, InUserCode
<1>2. InArena
  BY <1>1, AtCall
<1>3. OneCurrentTask' /\ CallsShape' /\ Frames' /\ ShellParked' /\ ForksOK'
  BY <1>1, <1>2, ReturnStep DEF ForkOps
<1>4. TasksOK'
  <2>1. UNCHANGED <<contexts, rqCurr, parent, taskState>>
    BY <1>1 DEF Return
  <2> QED BY <2>1 DEF ScheduledInv, NestingInv, TasksOK, ChildOK, KThreadOK
<1> QED BY <1>3, <1>4 DEF NestingInv

\* A reaped child was a zombie, so no one waits to run it.
LEMMA KernelReapStep ==
  ASSUME ScheduledInv, NEW child \in UserTasks, KernelReap(child)
  PROVE  NestingInv'
<1>1. /\ control.at = "kernel" /\ ~halted /\ Return(Succeeded)
      /\ control.op = "wait4" /\ taskState[child] = "zombie"
      /\ taskState' = [taskState EXCEPT ![child] = "dead"]
  BY DEF KernelReap, InKernel, Children
<1>2. InArena
  BY <1>1, AtCall
<1>3. TypeOK /\ TasksOK
  BY DEF ScheduledInv, NestingInv, TransferInv
<1>4. child \in Tasks /\ UserTasks \cap KThreads = {} /\ Shell \in Tasks
  BY TasksAssumption DEF Tasks
<1>5. child # Shell /\ child # rqCurr
  BY <1>1, <1>3 DEF TasksOK
<1>6. \A t \in Tasks : taskState'[t] = IF t = child THEN "dead" ELSE taskState[t]
  BY <1>1, <1>3, <1>4 DEF TypeOK
<1>7. \A c \in Offspring : c \in Tasks /\ (taskState'[c] = "new" <=> taskState[c] = "new")
  BY <1>1, <1>6 DEF Offspring, Tasks
<1>8. OneCurrentTask' /\ CallsShape' /\ Frames' /\ ShellParked' /\ ForksOK'
  BY <1>1, <1>2, <1>7, ReturnStep DEF ForkOps
<1>9. TasksOK'
  <2>1. UNCHANGED <<contexts, rqCurr, parent>>
    BY <1>1 DEF Return
  <2>2. rqCurr \in Tasks /\ KThreads \subseteq Tasks /\ child \notin KThreads
    BY <1>3, <1>4 DEF TypeOK, Tasks
  <2>3. taskState'[rqCurr'] = "ready" /\ taskState'[Shell] \in {"ready", "wait", "vfork"}
    BY <2>1, <2>2, <1>3, <1>4, <1>5, <1>6 DEF TasksOK
  <2>4. \A k \in KThreads : KThreadOK(k)'
    BY <2>1, <2>2, <1>3, <1>6 DEF TasksOK, KThreadOK
  <2>5. ASSUME NEW c \in Offspring PROVE ChildOK(c)'
    <3>1. ChildOK(c) /\ c \in Tasks
      BY <1>3, <1>7 DEF TasksOK
    <3> QED BY <3>1, <2>1, <1>1, <1>6 DEF ChildOK
  <2> QED BY <2>1, <2>3, <2>4, <2>5, <1>3 DEF TasksOK
<1> QED BY <1>8, <1>9 DEF NestingInv

\* The kernel's clone makes a child for the pending continuation of the shell.
LEMMA KernelForkStep ==
  ASSUME ScheduledInv, ReleaseGates, NEW child \in UserTasks, KernelFork(child)
  PROVE  NestingInv'
<1>1. /\ control.at = "kernel" /\ ~halted /\ control.op = "fork"
      /\ Allocatable(child)
      /\ taskState' = [taskState EXCEPT ![child] = "new"]
      /\ parent' = [parent EXCEPT ![child] = rqCurr]
      /\ control' = [control EXCEPT !.op = "cloned"]
      /\ UNCHANGED <<halted, calls, stopDepth, exitTask, contexts, linuxCurrent, activeUser,
                     pending, forkConts, kernelCurrent, rqCurr>>
  BY RunningTask DEF KernelFork, InKernel, hostVars, transferVars, forkVars
<1>2. TypeOK /\ OneCurrentTask /\ CallsShape /\ ShellParked /\ TasksOK /\ ForksOK
  BY DEF ScheduledInv, NestingInv, TransferInv
<1>3. InArena /\ rqCurr = Shell /\ pending = Shell
      /\ \A c \in Offspring : taskState[c] # "new"
  BY <1>1, <1>2, AtCall DEF ForksOK, ForkOps
<1>4. taskState[child] = "none" /\ child # Shell
  BY <1>1, <1>2 DEF Allocatable, ReleaseGates, TasksOK
<1>5. child \in Offspring /\ child \in Tasks /\ Shell \in Tasks /\ child \notin KThreads
      /\ Offspring \subseteq Tasks /\ KThreads \subseteq Tasks
  BY <1>4, TasksAssumption DEF Offspring, Tasks
<1>6. /\ control'.op = "cloned" /\ control'.at = "kernel" /\ control'.task = control.task
      /\ control'.stack = control.stack
  BY <1>1, <1>2 DEF TypeOK, Control
<1>7. \A t \in Tasks : taskState'[t] = IF t = child THEN "new" ELSE taskState[t]
  BY <1>1, <1>2, <1>5 DEF TypeOK
<1>8. \A t \in Tasks : parent'[t] = IF t = child THEN Shell ELSE parent[t]
  BY <1>1, <1>2, <1>3, <1>5 DEF TypeOK
<1>9. OneCurrentTask'
  BY <1>1, <1>2, <1>6 DEF OneCurrentTask
<1>10. CallsShape'
  <2>1. ~halted'
    BY <1>1, Zenon
  <2> QED BY <2>1, <1>1, <1>2 DEF CallsShape
<1>11. InArena'
  <2>1. Depth' = Depth /\ Base' = Base
    BY <1>1 DEF Depth, Base
  <2>2. OpOf(calls[Depth], "fork")
    BY <1>1, <1>3 DEF InArena
  <2>3. OpOf(calls[Depth], "cloned")
    BY <2>2 DEF OpOf, ForkOps
  <2> QED BY <2>1, <2>3, <1>1, <1>3, <1>6 DEF InArena, OpOf
<1>12. ShellParked'
  BY <1>1, <1>3 DEF ShellParked
<1>13. TasksOK'
  <2>1. taskState'[rqCurr'] = "ready" /\ taskState'[Shell] \in {"ready", "wait", "vfork"}
    BY <1>1, <1>2, <1>3, <1>4, <1>5, <1>7 DEF TasksOK
  <2>2. \A k \in KThreads : KThreadOK(k)'
    BY <1>1, <1>2, <1>5, <1>7 DEF TasksOK, KThreadOK
  <2>3. ASSUME NEW c \in Offspring PROVE ChildOK(c)'
    <3>1. ChildOK(c) /\ c \in Tasks
      BY <1>2, <1>5 DEF TasksOK
    <3> QED BY <3>1, <1>1, <1>4, <1>7, <1>8 DEF ChildOK
  <2>4. \A t \in Tasks : parent'[t] \in {NoTask, Shell}
    BY <1>2, <1>8 DEF TasksOK
  <2> QED BY <2>1, <2>2, <2>3, <2>4 DEF TasksOK
<1>14. ForksOK'
  <2>1. \A c \in Offspring : taskState'[c] = "new" <=> c = child
    BY <1>3, <1>5, <1>7
  <2>2. \A t \in Tasks : forkConts[t] = NoTask
    BY <1>1, <1>2 DEF ForksOK
  <2>3. exitTask = NoTask
    BY <1>1, <1>2 DEF ForksOK
  <2>4. rqCurr \notin Offspring
    BY <1>3 DEF Offspring
  <2> QED BY <2>1, <2>2, <2>3, <2>4, <1>1, <1>3, <1>5, <1>6 DEF ForksOK, ForkOps
<1> QED BY <1>9, <1>10, <1>11, <1>12, <1>13, <1>14 DEF NestingInv, Frames

\* The first run of a child takes it to user mode, with no call of its own.
LEMMA ForkChildReturnStep == ASSUME ScheduledInv, ForkChildReturn PROVE NestingInv'
<1>1. /\ control.at = "kernel" /\ ~halted
      /\ control.op \in {"ret_from_fork", "exec"} /\ forkConts[rqCurr] # NoTask
      /\ forkConts' = [forkConts EXCEPT ![rqCurr] = NoTask]
      /\ control' = UserCode(rqCurr) /\ activeUser' = rqCurr /\ kernelCurrent' = rqCurr
      /\ UNCHANGED <<halted, calls, stopDepth, exitTask, contexts, linuxCurrent, pending,
                     rqCurr, taskState, parent>>
  BY RunningTask DEF ForkChildReturn, InKernel, hostVars, transferVars, kernelVars
<1>2. TypeOK /\ OneCurrentTask /\ CallsShape /\ ShellParked /\ TasksOK /\ ForksOK
  BY DEF ScheduledInv, NestingInv, TransferInv
<1>3. rqCurr \in Tasks
  BY Basics
<1>4. control.op = "ret_from_fork"
  BY <1>1, <1>2, <1>3 DEF ForksOK
<1>5. OnShadowStack
  BY <1>4, AtShadow
<1>6. rqCurr \in Offspring /\ Depth = 1 /\ Base = 1
  BY <1>3, <1>4, <1>5 DEF OnShadowStack, Offspring, Tasks, Base
<1>7. control'.at = "user" /\ control'.op = "none" /\ Surface(control', rqCurr)
  BY <1>1 DEF UserCode, Place, Surface
<1>8. OneCurrentTask'
  BY <1>1, <1>2, <1>7 DEF OneCurrentTask, Surface
<1>9. CallsShape'
  BY <1>1, <1>2, RunningTask DEF CallsShape
<1>10. OnUserStack'
  BY <1>1, <1>6, <1>7 DEF OnUserStack, Depth, Base, Offspring
<1>11. ShellParked' /\ TasksOK'
  BY <1>1, <1>2 DEF ShellParked, TasksOK, ChildOK, KThreadOK, OpOf
<1>12. ForksOK'
  <2>1. \A t \in Tasks : forkConts'[t] = NoTask
    BY <1>1, <1>2, <1>4 DEF ForksOK, TypeOK
  <2>2. pending = NoTask /\ exitTask = NoTask
    BY <1>2, <1>4, <1>6 DEF ForksOK
  <2> QED BY <2>1, <2>2, <1>1, <1>2, <1>7 DEF ForksOK, ForkOps
<1> QED BY <1>8, <1>9, <1>10, <1>11, <1>12 DEF NestingInv, Frames

\* The task that execs or exits owns the innermost call and none below it, so the
\* transfer stops just below that call.
LEMMA ArmOwn ==
  ASSUME ScheduledInv, InArena, stopDepth = NoStop, ArmTransfer(rqCurr)
  PROVE  /\ stopDepth' = Base /\ halted' = TRUE
         /\ Len(calls) = Base + 1
<1> DEFINE n == Len(calls)
<1>1. n = Base + 1 /\ Base \in {0, 1} /\ calls[n].owner = rqCurr
  BY DEF InArena, Depth, Base
<1>2. callDepth = n /\ \A i \in 1..n : callTasks[i] = calls[i].owner
  BY Basics
<1>3. callTasks[n] = rqCurr
  BY <1>1, <1>2
<1>4. PICK d \in 0 .. callDepth - 1 : IsStopDepth(d, rqCurr) /\ stopDepth' = d /\ halted' = TRUE
  BY <1>1, <1>2, <1>3 DEF ArmTransfer
<1>5. d = Base
  <2>1. CASE Base = 0
    BY <2>1, <1>1, <1>2, <1>4
  <2>2. CASE Base = 1
    <3>1. n = 2 /\ rqCurr # Shell
      BY <2>2, <1>1 DEF Base
    <3>2. calls[1].owner = Shell
      BY <3>1 DEF ScheduledInv, NestingInv, CallsShape
    <3>3. callTasks[1] = Shell
      BY <3>1, <3>2, <1>2
    <3>4. d # 0
      BY <3>1, <3>3, <1>2, <1>4 DEF IsStopDepth
    <3> QED BY <2>2, <3>1, <3>4, <1>2, <1>4
  <2> QED BY <2>1, <2>2, <1>1
<1> QED BY <1>1, <1>4, <1>5

\* Only the shell is ever held in vfork, so only the shell can be released.
LEMMA Released ==
  ASSUME ScheduledInv, NEW t \in Tasks, NEW u \in Tasks
  PROVE  \/ ReleaseVfork(taskState, t)[u] = taskState[u]
         \/ /\ u = Shell /\ taskState[u] = "vfork" /\ u # rqCurr
            /\ ReleaseVfork(taskState, t)[u] = "ready"
<1>1. TasksOK /\ TypeOK
  BY DEF ScheduledInv, NestingInv, TransferInv
<1>2. \/ ReleaseVfork(taskState, t)[u] = taskState[u]
      \/ taskState[u] = "vfork" /\ ReleaseVfork(taskState, t)[u] = "ready"
  BY DEF ReleaseVfork
<1>3. ASSUME taskState[u] = "vfork" PROVE u = Shell /\ u # rqCurr
  <2>1. u \notin Offspring /\ u \notin KThreads
    BY <1>1, <1>3 DEF TasksOK, ChildOK, KThreadOK
  <2> QED BY <2>1, <1>1, <1>3 DEF TasksOK, Offspring, Tasks
<1> QED BY <1>2, <1>3

\* Exec starts the new image on the user stack and unwinds the call that asked for it.
LEMMA ExecHandoffStep == ASSUME ScheduledInv, ExecHandoff PROVE NestingInv'
<1>1. /\ control.at = "kernel" /\ ~halted
      /\ control.op \in {"ret_from_fork", "exec"} /\ forkConts[rqCurr] = NoTask
      /\ taskState' = ReleaseVfork(taskState, rqCurr)
      /\ control' = UserCode(rqCurr) /\ activeUser' = rqCurr /\ kernelCurrent' = rqCurr
      /\ ArmTransfer(rqCurr)
      /\ UNCHANGED <<calls, exitTask, contexts, linuxCurrent, pending, forkConts,
                     rqCurr, parent>>
  BY RunningTask DEF ExecHandoff, InKernel, hostVars, forkVars
<1>2. TypeOK /\ OneCurrentTask /\ CallsShape /\ ShellParked /\ TasksOK /\ ForksOK
  BY DEF ScheduledInv, NestingInv, TransferInv
<1>3. rqCurr \in Tasks /\ Shell \in Tasks /\ Shell # NoTask /\ Offspring \subseteq Tasks
      /\ KThreads \subseteq Tasks /\ Shell \notin KThreads
  BY Basics, TasksAssumption DEF Tasks, Offspring
<1>4. control.op = "exec"
  BY <1>1, <1>2, <1>3 DEF ForksOK
<1>5. InArena /\ stopDepth = NoStop
  BY <1>1, <1>4, AtCall, RunningTask
<1>6. stopDepth' = Base /\ halted' = TRUE /\ Len(calls) = Base + 1 /\ Base \in {0, 1}
  BY <1>1, <1>5, ArmOwn DEF Base
<1>7. rqCurr \in UserTasks
  <2>1. Depth \in 1..Len(calls)
    BY <1>5, Basics DEF InArena, Base
  <2> QED BY <2>1, <1>5, ArenaApart DEF InArena
<1>8. control'.at = "user" /\ control'.op = "none" /\ Surface(control', rqCurr)
  BY <1>1 DEF UserCode, Place, Surface
<1>9. OneCurrentTask'
  BY <1>1, <1>2, <1>8 DEF OneCurrentTask, Surface
<1>10. CallsShape'
  BY <1>1, <1>2, <1>6 DEF CallsShape, NoStop
<1>11. OnUserStack'
  BY <1>1, <1>6, <1>7, <1>8 DEF OnUserStack, Depth, Base, NoStop
<1>12. \A u \in Tasks : \/ taskState'[u] = taskState[u]
                        \/ u = Shell /\ u # rqCurr /\ taskState'[u] = "ready"
  BY <1>1, <1>3, Released
<1>13. ShellParked'
  BY <1>1, <1>2 DEF ShellParked, OpOf
<1>14. TasksOK'
  <2>1. taskState'[rqCurr'] = "ready" /\ taskState'[Shell] \in {"ready", "wait", "vfork"}
    BY <1>1, <1>2, <1>3, <1>12 DEF TasksOK
  <2>2. \A k \in KThreads : KThreadOK(k)'
    BY <1>1, <1>2, <1>3, <1>12 DEF TasksOK, KThreadOK
  <2>3. \A c \in Offspring : ChildOK(c)'
    BY <1>1, <1>2, <1>3, <1>12 DEF TasksOK, ChildOK, Offspring
  <2> QED BY <2>1, <2>2, <2>3, <1>1, <1>2 DEF TasksOK
<1>15. ForksOK'
  <2>1. \A c \in Offspring : taskState'[c] = taskState[c]
    BY <1>3, <1>12 DEF Offspring
  <2> QED BY <2>1, <1>1, <1>2, <1>4, <1>8 DEF ForksOK, ForkOps
<1> QED BY <1>9, <1>10, <1>11, <1>13, <1>14, <1>15 DEF NestingInv, Frames

-----------------------------------------------------------------------------
(***************************************************************************)
(* A task switch: the shell parks in the kernel, a kernel thread yields or *)
(* a child exits, and the scheduler picks any other task it may run.       *)
(***************************************************************************)

\* What the kernel has made of the tasks when it switches: no child but the one
\* that exits was running, at most one awaits its first run, and it does so exactly
\* while the continuation of the shell is pending.
Switchable(states, op) ==
  /\ states \in [Tasks -> TaskStates]
  /\ states[Shell] \in {"ready", "wait", "vfork"}
  /\ \A k \in KThreads : states[k] = taskState[k]
  /\ \A c \in Offspring :
       /\ states[c] \in {"none", "new", "zombie", "dead"}
       /\ states[c] \in {"none", "new"} => taskState[c] \in {"none", "new"}
       /\ states[c] # "none" => parent'[c] = Shell
  /\ \A t \in Tasks : parent'[t] \in {NoTask, Shell}
  /\ \A c, d \in Offspring : states[c] = "new" /\ states[d] = "new" => c = d
  /\ pending = Shell <=> \E c \in Offspring : states[c] = "new"
  /\ \/ /\ rqCurr = Shell /\ op \in {"cloned", "schedule", "wait4"}
        /\ InArena /\ OpOf(calls[1], op) /\ control.op # "exit"
     \/ rqCurr \in KThreads /\ op = "kthread" /\ OnShadowStack /\ control.op # "exit"
     \/ rqCurr \in Offspring /\ InArena /\ control.op = "exit"

\* Only the call of a child that exits is unwound; what remains is the one of the shell.
LEMMA SwitchDepth ==
  ASSUME ScheduledInv, ~halted, NEW next \in Tasks, NEW states, NEW op,
         SwitchTo(next, states, op), Switchable(states, op)
  PROVE  /\ Depth' = 1 /\ Len(calls) \in {1, 2} /\ exitTask' = NoTask
         /\ stopDepth' # NoStop => Len(calls) = stopDepth' + 1
         /\ halted' => stopDepth' # NoStop
<1>1. stopDepth = NoStop /\ rqCurr \in Tasks /\ Len(calls) \in Nat /\ NoTask \notin Tasks
      /\ Shell \notin KThreads /\ Shell \notin Offspring /\ calls' = calls
      /\ KThreads \cap Offspring = {}
  BY Basics, RunningTask, TasksAssumption DEF SwitchTo, hostVars, Offspring
<1>2. CASE rqCurr \in Offspring
  <2>1. control.op = "exit" /\ InArena /\ Base = 1
    BY <1>1, <1>2 DEF Switchable, Base
  <2>2. exitTask = rqCurr /\ exitTask # NoTask
    BY <1>1, <2>1 DEF ScheduledInv, NestingInv, ForksOK
  <2>3. ArmTransfer(rqCurr) /\ exitTask' = NoTask
    BY <2>2 DEF SwitchTo
  <2>4. stopDepth' = 1 /\ Len(calls) = 2
    BY <1>1, <2>1, <2>3, ArmOwn
  <2>5. Depth' = 1
    BY <2>4 DEF Depth, NoStop
  <2> QED BY <2>3, <2>4, <2>5 DEF NoStop
<1>3. CASE rqCurr \notin Offspring
  <2>1. control.op # "exit"
    BY <1>3 DEF Switchable
  <2>2. exitTask = NoTask
    BY <2>1 DEF ScheduledInv, NestingInv, ForksOK
  <2>3. halted' = FALSE /\ stopDepth' = stopDepth /\ exitTask' = exitTask
    BY <2>2 DEF SwitchTo, transferVars
  <2>4. Len(calls) = 1
    <3>1. CASE rqCurr = Shell
      BY <3>1, <1>1 DEF Switchable, InArena, Depth, Base
    <3>2. CASE rqCurr # Shell
      BY <3>2, <1>1, <1>3 DEF Switchable, OnShadowStack, Depth
    <3> QED BY <3>1, <3>2
  <2>5. Depth' = 1
    BY <1>1, <2>3, <2>4 DEF Depth
  <2>6. ~halted'
    BY <2>3, Zenon
  <2> QED BY <1>1, <2>2, <2>3, <2>4, <2>5, <2>6
<1> QED BY <1>2, <1>3

\* Where the next task goes on: the shell in the arena of its call, any other task
\* on its shadow stack; a child starts with the continuation of the shell.
LEMMA SwitchPlace ==
  ASSUME ScheduledInv, ~halted, NEW next \in Tasks, NEW states, NEW op,
         SwitchTo(next, states, op), Switchable(states, op), Len(calls) \in {1, 2}
  PROVE  /\ control'.at = "kernel" /\ control'.task = next
         /\ next = Shell =>
              /\ control'.stack = calls[1].stack
              /\ control'.op \in {"cloned", "schedule", "wait4"}
              /\ OpOf(calls[1], control'.op)
         /\ next # Shell =>
              /\ control'.stack = ShadowStack(next)
              /\ control'.op = IF next \in KThreads THEN "kthread" ELSE "ret_from_fork"
         /\ next \notin Offspring => pending' = pending /\ forkConts' = forkConts
         /\ next \in Offspring =>
              /\ states[next] = "new"
              /\ pending' = NoTask /\ forkConts' = [forkConts EXCEPT ![next] = Shell]
<1>1. next # rqCurr /\ states[next] \in {"new", "ready"}
  BY DEF SwitchTo
<1>2. TypeOK /\ ShellParked /\ TasksOK /\ ForksOK
  BY DEF ScheduledInv, NestingInv, TransferInv
<1>3. Shell \notin KThreads /\ UserTasks \cap KThreads = {} /\ NoTask \notin Tasks
      /\ Shell \in Tasks
  BY TasksAssumption DEF Tasks
<1>4. control' = IF contexts[next] # NoContext
                 THEN Place("kernel", next, contexts[next].stack, contexts[next].op, 0)
                 ELSE Place("kernel", next, ShadowStack(next),
                            IF next \in KThreads THEN "kthread" ELSE "ret_from_fork", 0)
  BY DEF SwitchTo
<1>5. control'.at = "kernel" /\ control'.task = next
  BY <1>4 DEF Place
<1>6. CASE next = Shell
  <2>1. /\ contexts[Shell].stack = calls[1].stack
        /\ contexts[Shell].op \in {"cloned", "schedule", "wait4"}
        /\ OpOf(calls[1], contexts[Shell].op)
    BY <1>1, <1>2, <1>6 DEF ShellParked
  <2>2. contexts[Shell] # NoContext
    <3>1. 1 \in 1..Len(calls)
      OBVIOUS
    <3>2. calls[1].stack # UserStack
      BY <3>1, ArenaApart
    <3> QED BY <2>1, <3>2 DEF NoContext
  <2>3. ~TakesContinuation(next)
    BY <1>6, <2>2 DEF TakesContinuation
  <2>4. pending' = pending /\ forkConts' = forkConts
    BY <2>3 DEF SwitchTo
  <2>5. control'.stack = calls[1].stack /\ control'.op = contexts[Shell].op
    BY <1>4, <1>6, <2>1, <2>2 DEF Place
  <2> QED BY <1>5, <1>6, <2>1, <2>4, <2>5 DEF Offspring
<1>7. CASE next \in KThreads
  <2>1. contexts[next] \in {NoContext, [stack |-> ShadowStack(next), op |-> "kthread"]}
    BY <1>2, <1>7 DEF TasksOK, KThreadOK
  <2>2. control'.stack = ShadowStack(next) /\ control'.op = "kthread"
    BY <1>4, <1>7, <2>1 DEF Place
  <2>3. ~TakesContinuation(next)
    BY <1>3, <1>7 DEF TakesContinuation
  <2>4. pending' = pending /\ forkConts' = forkConts
    BY <2>3 DEF SwitchTo
  <2> QED BY <1>3, <1>5, <1>7, <2>2, <2>4 DEF Offspring
<1>8. CASE next \in Offspring
  <2>1. states[next] = "new"
    BY <1>1, <1>8 DEF Switchable
  <2>2. pending = Shell /\ pending # NoTask
    BY <1>3, <1>8, <2>1 DEF Switchable
  <2>3. contexts[next] = NoContext
    <3>1. taskState[next] \in {"none", "new"}
      BY <1>8, <2>1 DEF Switchable
    <3> QED BY <3>1, <1>2, <1>8 DEF TasksOK, ChildOK
  <2>4. TakesContinuation(next)
    BY <1>8, <2>2, <2>3 DEF TakesContinuation, Offspring
  <2>5. pending' = NoTask /\ forkConts' = [forkConts EXCEPT ![next] = Shell]
    BY <2>2, <2>4 DEF SwitchTo
  <2>6. next \notin KThreads /\ next # Shell
    BY <1>3, <1>8 DEF Offspring
  <2>7. control'.stack = ShadowStack(next) /\ control'.op = "ret_from_fork"
    BY <1>4, <2>3, <2>6 DEF Place
  <2> QED BY <1>5, <1>8, <2>1, <2>5, <2>6, <2>7
<1> QED BY <1>6, <1>7, <1>8 DEF Tasks, Offspring

\* A task switch moves the processor to a task whose saved state is on the stack.
LEMMA SwitchStep ==
  ASSUME ScheduledInv, ~halted, NEW next \in Tasks, NEW states, NEW op,
         SwitchTo(next, states, op), Switchable(states, op)
  PROVE  NestingInv'
<1>1. /\ next # rqCurr /\ states[next] \in {"new", "ready"}
      /\ contexts' = [contexts EXCEPT ![rqCurr] = [stack |-> control.stack, op |-> op]]
      /\ linuxCurrent' = next /\ activeUser' = next /\ kernelCurrent' = next /\ rqCurr' = next
      /\ taskState' = [states EXCEPT ![next] = "ready"]
      /\ calls' = calls
  BY DEF SwitchTo, hostVars
<1>2. TypeOK /\ CallsShape /\ ShellParked /\ TasksOK /\ ForksOK
  BY DEF ScheduledInv, NestingInv, TransferInv
<1>3. /\ Shell \notin KThreads /\ UserTasks \cap KThreads = {} /\ NoTask \notin Tasks
      /\ Shell \in Tasks /\ rqCurr \in Tasks /\ Offspring \subseteq Tasks
      /\ KThreads \subseteq Tasks
      /\ Shell \notin Offspring /\ Offspring \cap KThreads = {} /\ Shell # NoTask
      /\ \A t \in Tasks : t = Shell \/ t \in Offspring \/ t \in KThreads
  BY Basics, TasksAssumption DEF Tasks, Offspring
<1>4. /\ Depth' = 1 /\ Len(calls) \in {1, 2} /\ exitTask' = NoTask
      /\ stopDepth' # NoStop => Len(calls) = stopDepth' + 1
      /\ halted' => stopDepth' # NoStop
  BY SwitchDepth
<1>5. /\ control'.at = "kernel" /\ control'.task = next
      /\ next = Shell =>
              /\ control'.stack = calls[1].stack
              /\ control'.op \in {"cloned", "schedule", "wait4"}
              /\ OpOf(calls[1], control'.op)
      /\ next # Shell =>
              /\ control'.stack = ShadowStack(next)
              /\ control'.op = IF next \in KThreads THEN "kthread" ELSE "ret_from_fork"
      /\ next \notin Offspring => pending' = pending /\ forkConts' = forkConts
      /\ next \in Offspring =>
              /\ states[next] = "new"
              /\ pending' = NoTask /\ forkConts' = [forkConts EXCEPT ![next] = Shell]
  BY <1>4, SwitchPlace
<1>6. \A t \in Tasks : taskState'[t] = IF t = next THEN "ready" ELSE states[t]
  BY <1>1 DEF Switchable
<1>7. \A t \in Tasks : contexts'[t] = IF t = rqCurr THEN [stack |-> control.stack, op |-> op]
                                      ELSE contexts[t]
  BY <1>1, <1>2 DEF TypeOK
<1>8. OneCurrentTask'
  BY <1>1, <1>5 DEF OneCurrentTask
<1>9. CallsShape'
  BY <1>1, <1>2, <1>4 DEF CallsShape
<1>10. calls[1].owner = Shell /\ CallOK(calls[1])
  BY <1>2, <1>4 DEF CallsShape
<1>11. Frames'
  <2>1. CASE next = Shell
    <3>1. Base' = 0
      BY <1>1, <2>1 DEF Base
    <3>2. calls[1].op \in PreservingOps
      BY <1>5, <1>10, <2>1 DEF OpOf, CallOK, CallOps, PreservingOps, ForkOps
    <3>3. InArena'
      BY <1>1, <1>4, <1>5, <1>10, <2>1, <3>1, <3>2 DEF InArena
    <3> QED BY <3>3 DEF Frames
  <2>2. CASE next # Shell
    BY <1>1, <1>4, <1>5, <2>2 DEF OnShadowStack, Frames
  <2> QED BY <2>1, <2>2
<1>12. ShellParked'
  <2>1. SUFFICES ASSUME next # Shell PROVE ShellParked'
    BY <1>1 DEF ShellParked
  <2>2. CASE rqCurr = Shell
    <3>1. InArena /\ OpOf(calls[1], op) /\ op \in {"cloned", "schedule", "wait4"}
      BY <2>2, <1>3 DEF Switchable
    <3>2. control.stack = calls[1].stack
      BY <3>1, <2>2 DEF InArena, Base
    <3> QED BY <3>1, <3>2, <2>2, <1>1, <1>3, <1>4, <1>7 DEF ShellParked, OpOf
  <2>3. CASE rqCurr # Shell
    <3>1. contexts'[Shell] = contexts[Shell]
      BY <2>3, <1>3, <1>7
    <3> QED BY <3>1, <2>3, <1>1, <1>2 DEF ShellParked, OpOf
  <2> QED BY <2>2, <2>3
<1>13. ASSUME NEW c \in Offspring PROVE ChildOK(c)'
  <2>1. ChildOK(c) /\ c \in Tasks /\ taskState[rqCurr] = "ready"
    BY <1>2, <1>3 DEF TasksOK
  <2>2. CASE c = next
    <3>1. taskState'[c] = "ready" /\ states[c] # "none"
      BY <2>2, <1>1, <1>6
    <3> QED BY <2>2, <3>1, <1>1 DEF ChildOK, Switchable
  <2>3. CASE c # next
    <3>1. taskState'[c] = states[c]
      BY <2>1, <2>3, <1>6
    <3>2. states[c] \in {"none", "new"} => c # rqCurr /\ contexts[c] = NoContext
      BY <2>1 DEF Switchable, ChildOK
    <3>3. states[c] \in {"none", "new"} => contexts'[c] = NoContext
      BY <2>1, <3>2, <1>7
    <3> QED BY <3>1, <3>3 DEF ChildOK, Switchable
  <2> QED BY <2>2, <2>3
<1>14. ASSUME NEW k \in KThreads PROVE KThreadOK(k)'
  <2>1. KThreadOK(k) /\ k \in Tasks /\ states[k] = taskState[k]
    BY <1>2, <1>3 DEF TasksOK, Switchable
  <2>2. taskState'[k] \in {"new", "ready"} /\ (k # next => taskState'[k] = taskState[k])
    BY <2>1, <1>6 DEF KThreadOK
  <2>3. CASE k = rqCurr
    <3>1. op = "kthread" /\ control.stack = ShadowStack(k)
      BY <2>3, <1>3 DEF Switchable, OnShadowStack
    <3>2. contexts'[k] = [stack |-> ShadowStack(k), op |-> "kthread"]
      BY <2>1, <2>3, <3>1, <1>7
    <3>3. contexts'[k] # NoContext
      BY <3>2 DEF NoContext
    <3> QED BY <2>2, <3>2, <3>3 DEF KThreadOK
  <2>4. CASE k # rqCurr
    <3>1. contexts'[k] = contexts[k]
      BY <2>1, <2>4, <1>7
    <3> QED BY <2>1, <2>2, <2>4, <3>1, <1>1 DEF KThreadOK
  <2> QED BY <2>3, <2>4
<1>15. TasksOK'
  <2>1. taskState'[rqCurr'] = "ready"
    BY <1>1, <1>6
  <2>2. taskState'[Shell] \in {"ready", "wait", "vfork"}
    BY <1>3, <1>6 DEF Switchable
  <2>3. \A t \in Tasks : parent'[t] \in {NoTask, Shell}
    BY DEF Switchable
  <2> QED BY <1>13, <1>14, <2>1, <2>2, <2>3 DEF TasksOK
<1>16. ForksOK'
  <2>1. \A t \in Tasks : forkConts[t] = NoTask
    <3>1. control.op # "ret_from_fork"
      <4>1. CASE OnShadowStack /\ rqCurr \in KThreads
        BY <4>1 DEF OnShadowStack
      <4>2. CASE InArena
        <5>1. Depth \in 1..Len(calls)
          BY <4>2, Basics DEF InArena, Base
        <5>2. calls[Depth].op \in CallOps
          BY <5>1, ArenaApart DEF CallOK
        <5> QED BY <4>2, <5>2 DEF InArena, OpOf, CallOps, PreservingOps
      <4> QED BY <4>1, <4>2 DEF Switchable
    <3> QED BY <3>1, <1>2 DEF ForksOK
  <2>2. /\ control'.op \notin ForkOps /\ control'.op # "exit"
        /\ control'.op = "ret_from_fork" <=> next \in Offspring
    BY <1>3, <1>5 DEF ForkOps
  <2>3. \A c, d \in Offspring : states[c] = "new" /\ states[d] = "new" => c = d
    BY DEF Switchable
  <2>4. pending = Shell <=> \E c \in Offspring : states[c] = "new"
    BY DEF Switchable
  <2>5. \A c \in Offspring : taskState'[c] = "new" <=> c # next /\ states[c] = "new"
    BY <1>3, <1>6
  <2>6. CASE next \in Offspring
    <3>1. \A c \in Offspring : taskState'[c] # "new"
      BY <2>3, <2>5, <2>6, <1>5
    <3>2. \A t \in Tasks : forkConts'[t] = IF t = next THEN Shell ELSE NoTask
      BY <2>1, <2>6, <1>2, <1>5 DEF TypeOK
    <3> QED BY <3>1, <3>2, <2>2, <2>6, <1>1, <1>4, <1>5 DEF ForksOK
  <2>7. CASE next \notin Offspring
    <3>1. \A c \in Offspring : taskState'[c] = "new" <=> states[c] = "new"
      BY <2>5, <2>7
    <3>2. pending' = pending /\ forkConts' = forkConts /\ pending \in {NoTask, Shell}
      BY <2>7, <1>2, <1>5 DEF ForksOK
    <3> QED BY <3>1, <3>2, <2>1, <2>2, <2>3, <2>4, <2>7, <1>1, <1>3, <1>4 DEF ForksOK
  <2> QED BY <2>6, <2>7
<1> QED BY <1>8, <1>9, <1>11, <1>12, <1>15, <1>16 DEF NestingInv

\* vfork makes its child and holds the shell.
LEMMA KernelVforkSwitch ==
  ASSUME ScheduledInv, ReleaseGates, NEW child \in UserTasks, NEW next \in Tasks,
         KernelVfork(child, next)
  PROVE  /\ control.at = "kernel" /\ ~halted /\ control.op = "vfork" /\ rqCurr = Shell
         /\ child \in Offspring /\ taskState[child] = "none"
         /\ parent' = [parent EXCEPT ![child] = rqCurr]
         /\ \E states : /\ SwitchTo(next, states, "cloned") /\ Switchable(states, "cloned")
                        /\ states[Shell] = "vfork" /\ states[child] = "new"
                        /\ \A c \in Offspring : c # child => states[c] = taskState[c]
<1> DEFINE moved == [taskState EXCEPT ![child] = "new", ![rqCurr] = "vfork"]
<1>1. /\ control.at = "kernel" /\ ~halted /\ control.op = "vfork"
      /\ Allocatable(child)
      /\ parent' = [parent EXCEPT ![child] = rqCurr]
      /\ SwitchTo(next, moved, "cloned")
  BY RunningTask DEF KernelVfork, InKernel
<1>2. TypeOK /\ CallsShape /\ TasksOK /\ ForksOK
  BY DEF ScheduledInv, NestingInv, TransferInv
<1>3. InArena /\ rqCurr = Shell /\ pending = Shell
      /\ \A c \in Offspring : taskState[c] # "new"
  BY <1>1, <1>2, AtCall DEF ForksOK, ForkOps
<1>4. taskState[child] = "none" /\ child # Shell
  BY <1>1, <1>2 DEF Allocatable, ReleaseGates, TasksOK
<1>5. child \in Offspring /\ child \in Tasks /\ Shell \in Tasks /\ child \notin KThreads
      /\ Offspring \subseteq Tasks /\ KThreads \subseteq Tasks /\ Shell \notin KThreads
      /\ Shell \notin Offspring
  BY <1>4, TasksAssumption DEF Offspring, Tasks
<1>6. moved \in [Tasks -> TaskStates]
  BY <1>2 DEF TypeOK, TaskStates
<1>7. \A t \in Tasks : moved[t] = IF t = Shell THEN "vfork" ELSE IF t = child THEN "new"
                                                              ELSE taskState[t]
  BY <1>2, <1>3, <1>4, <1>5 DEF TypeOK
<1>8. \A t \in Tasks : parent'[t] = IF t = child THEN Shell ELSE parent[t]
  BY <1>1, <1>2, <1>3, <1>5 DEF TypeOK
<1> HIDE DEF moved
<1>9. OpOf(calls[1], "cloned")
  <2>1. Depth = 1 /\ OpOf(calls[1], "vfork")
    BY <1>1, <1>3 DEF InArena, Base
  <2> QED BY <2>1 DEF OpOf, ForkOps
<1>10. ASSUME NEW c \in Offspring
       PROVE  /\ moved[c] \in {"none", "new", "zombie", "dead"}
              /\ moved[c] \in {"none", "new"} => taskState[c] \in {"none", "new"}
              /\ moved[c] # "none" => parent'[c] = Shell
              /\ moved[c] = "new" <=> c = child
  <2>1. ChildOK(c) /\ c \in Tasks /\ c # Shell
    BY <1>2, <1>5 DEF TasksOK
  <2> QED BY <2>1, <1>3, <1>4, <1>7, <1>8 DEF ChildOK
<1>11. Switchable(moved, "cloned")
  <2>1. \A t \in Tasks : parent'[t] \in {NoTask, Shell}
    BY <1>2, <1>8 DEF TasksOK
  <2>2. moved[Shell] = "vfork" /\ \A k \in KThreads : moved[k] = taskState[k]
    BY <1>5, <1>7
  <2> QED BY <2>1, <2>2, <1>1, <1>3, <1>5, <1>6, <1>9, <1>10 DEF Switchable
<1>12. /\ moved[Shell] = "vfork" /\ moved[child] = "new"
       /\ \A c \in Offspring : c # child => moved[c] = taskState[c]
  BY <1>4, <1>5, <1>7
<1> QED BY <1>1, <1>3, <1>4, <1>5, <1>11, <1>12

\* Only the shell has children, so only the shell blocks in wait4.
LEMMA KernelWaitBlockSwitch ==
  ASSUME ScheduledInv, NEW next \in Tasks, KernelWaitBlock(next)
  PROVE  /\ control.at = "kernel" /\ ~halted /\ control.op = "wait4" /\ rqCurr = Shell
         /\ parent' = parent
         /\ \E states : /\ SwitchTo(next, states, "wait4") /\ Switchable(states, "wait4")
                        /\ states[Shell] = "wait"
                        /\ \A c \in Offspring : states[c] = taskState[c]
<1> DEFINE moved == [taskState EXCEPT ![rqCurr] = "wait"]
<1>1. /\ control.at = "kernel" /\ ~halted /\ control.op = "wait4"
      /\ Children(rqCurr, {"new", "ready", "wait", "vfork"}) # {}
      /\ parent' = parent
      /\ SwitchTo(next, moved, "wait4")
  BY RunningTask DEF KernelWaitBlock, InKernel
<1>2. TypeOK /\ CallsShape /\ TasksOK /\ ForksOK
  BY DEF ScheduledInv, NestingInv, TransferInv
<1>3. InArena
  BY <1>1, AtCall
<1>4. rqCurr = Shell
  <2>1. PICK c \in UserTasks : parent[c] = rqCurr
    BY <1>1 DEF Children
  <2>2. c \in Tasks /\ rqCurr # NoTask
    BY Basics DEF Tasks
  <2> QED BY <2>1, <2>2, <1>2 DEF TasksOK
<1>5. Shell \in Tasks /\ Offspring \subseteq Tasks /\ KThreads \subseteq Tasks
      /\ Shell \notin KThreads /\ Shell \notin Offspring /\ Shell # NoTask
  BY TasksAssumption DEF Offspring, Tasks
<1>6. moved \in [Tasks -> TaskStates]
  BY <1>2 DEF TypeOK, TaskStates
<1>7. \A t \in Tasks : moved[t] = IF t = Shell THEN "wait" ELSE taskState[t]
  BY <1>2, <1>4 DEF TypeOK
<1> HIDE DEF moved
<1>8. OpOf(calls[1], "wait4")
  BY <1>1, <1>3, <1>4 DEF InArena, Base
<1>9. ASSUME NEW c \in Offspring
      PROVE  /\ moved[c] \in {"none", "new", "zombie", "dead"}
             /\ moved[c] = taskState[c]
             /\ moved[c] # "none" => parent'[c] = Shell
  <2>1. ChildOK(c) /\ c \in Tasks /\ c # Shell
    BY <1>2, <1>5 DEF TasksOK
  <2> QED BY <2>1, <1>1, <1>4, <1>7 DEF ChildOK
<1>10. pending = Shell <=> \E c \in Offspring : moved[c] = "new"
  BY <1>1, <1>2, <1>5, <1>9 DEF ForksOK, ForkOps
<1>11. Switchable(moved, "wait4")
  <2>1. \A t \in Tasks : parent'[t] \in {NoTask, Shell}
    BY <1>1, <1>2 DEF TasksOK
  <2>2. moved[Shell] = "wait" /\ \A k \in KThreads : moved[k] = taskState[k]
    BY <1>5, <1>7
  <2>3. \A c, d \in Offspring : moved[c] = "new" /\ moved[d] = "new" => c = d
    BY <1>2, <1>9 DEF ForksOK
  <2> QED BY <2>1, <2>2, <2>3, <1>1, <1>3, <1>4, <1>6, <1>8, <1>9, <1>10 DEF Switchable
<1>12. moved[Shell] = "wait"
  BY <1>5, <1>7
<1> QED BY <1>1, <1>4, <1>9, <1>11, <1>12

\* Only the schedule() of the shell's waitpid and the kernel threads yield.
LEMMA KernelYieldSwitch ==
  ASSUME ScheduledInv, ReleaseGates, NEW next \in Tasks, KernelYield(next)
  PROVE  /\ control.at = "kernel" /\ ~halted /\ control.op \in {"schedule", "kthread"}
         /\ parent' = parent
         /\ SwitchTo(next, taskState, control.op) /\ Switchable(taskState, control.op)
<1>1. /\ control.at = "kernel" /\ ~halted /\ control.op \in {"schedule", "kthread"}
      /\ parent' = parent
      /\ SwitchTo(next, taskState, control.op)
  BY DEF KernelYield, InKernel, ReleaseGates
<1>2. TypeOK /\ CallsShape /\ TasksOK /\ ForksOK
  BY DEF ScheduledInv, NestingInv, TransferInv
<1>3. Shell \in Tasks /\ Offspring \subseteq Tasks /\ KThreads \subseteq Tasks
      /\ Shell \notin KThreads /\ Shell \notin Offspring /\ Shell # NoTask
      /\ Offspring \cap KThreads = {}
  BY TasksAssumption DEF Offspring, Tasks
<1>4. \/ /\ rqCurr = Shell /\ control.op \in {"cloned", "schedule", "wait4"}
         /\ InArena /\ OpOf(calls[1], control.op) /\ control.op # "exit"
      \/ rqCurr \in KThreads /\ control.op = "kthread" /\ OnShadowStack /\ control.op # "exit"
  <2>1. CASE control.op = "kthread"
    <3>1. OnShadowStack
      BY <2>1, AtShadow
    <3> QED BY <2>1, <3>1 DEF OnShadowStack
  <2>2. CASE control.op = "schedule"
    <3>1. InArena
      BY <2>2, <1>1, AtCall
    <3>2. Depth \in 1..Len(calls)
      BY <3>1, Basics DEF InArena, Base
    <3>3. calls[Depth].op = "schedule" /\ CallOK(calls[Depth])
      BY <2>2, <3>1, <3>2, ArenaApart DEF InArena, OpOf
    <3>4. rqCurr = Shell
      BY <3>1, <3>3 DEF InArena, CallOK
    <3>5. OpOf(calls[1], control.op)
      BY <3>1, <3>4 DEF InArena, Base
    <3> QED BY <2>2, <3>1, <3>4, <3>5
  <2> QED BY <2>1, <2>2, <1>1
<1>5. ASSUME NEW c \in Offspring
      PROVE  /\ taskState[c] \in {"none", "new", "zombie", "dead"}
             /\ taskState[c] # "none" => parent'[c] = Shell
  <2>1. ChildOK(c) /\ c # rqCurr
    BY <1>2, <1>3, <1>4 DEF TasksOK
  <2> QED BY <2>1, <1>1 DEF ChildOK
<1>6. pending = Shell <=> \E c \in Offspring : taskState[c] = "new"
  BY <1>1, <1>2, <1>3 DEF ForksOK, ForkOps
<1>7. Switchable(taskState, control.op)
  <2>1. \A t \in Tasks : parent'[t] \in {NoTask, Shell}
    BY <1>1, <1>2 DEF TasksOK
  <2>2. taskState[Shell] \in {"ready", "wait", "vfork"} /\ taskState \in [Tasks -> TaskStates]
    BY <1>2 DEF TasksOK, TypeOK
  <2>3. \A c, d \in Offspring : taskState[c] = "new" /\ taskState[d] = "new" => c = d
    BY <1>2 DEF ForksOK
  <2> QED BY <2>1, <2>2, <2>3, <1>4, <1>5, <1>6 DEF Switchable
<1> QED BY <1>1, <1>7

\* A child exits above the call that its shell is parked in.
LEMMA KernelExitSwitch ==
  ASSUME ScheduledInv, NEW next \in Tasks, KernelExit(next)
  PROVE  /\ control.at = "kernel" /\ ~halted /\ control.op = "exit" /\ rqCurr \in Offspring
         /\ parent' = parent
         /\ \E states : /\ SwitchTo(next, states, "exit") /\ Switchable(states, "exit")
                        /\ states[rqCurr] = "zombie"
                        /\ \A c \in Offspring : c # rqCurr => states[c] = taskState[c]
<1> DEFINE released == ReleaseVfork(taskState, rqCurr)
           dying == [released EXCEPT ![rqCurr] = "zombie"]
           woken == [u \in Tasks |-> IF u = parent[rqCurr] /\ dying[u] = "wait" THEN "ready"
                                     ELSE dying[u]]
<1>1. /\ control.at = "kernel" /\ ~halted /\ control.op = "exit" /\ rqCurr # Shell
      /\ parent' = parent
      /\ SwitchTo(next, woken, "exit")
  BY RunningTask DEF KernelExit, InKernel
<1>2. TypeOK /\ CallsShape /\ TasksOK /\ ForksOK
  BY DEF ScheduledInv, NestingInv, TransferInv
<1>3. Shell \in Tasks /\ Offspring \subseteq Tasks /\ KThreads \subseteq Tasks
      /\ Shell \notin KThreads /\ Shell \notin Offspring /\ Shell # NoTask /\ rqCurr \in Tasks
      /\ Offspring \cap KThreads = {}
  BY Basics, TasksAssumption DEF Offspring, Tasks
<1>4. InArena /\ rqCurr \in Offspring
  <2>1. InArena
    BY <1>1, AtCall
  <2>2. Depth \in 1..Len(calls)
    BY <2>1, Basics DEF InArena, Base
  <2>3. rqCurr \in UserTasks
    BY <2>1, <2>2, ArenaApart DEF InArena
  <2> QED BY <2>1, <2>3, <1>1 DEF Offspring
<1>5. released \in [Tasks -> TaskStates]
  BY <1>2, <1>3, ReleaseVforkType DEF TypeOK
<1>6. \A u \in Tasks : \/ released[u] = taskState[u]
                       \/ /\ u = Shell /\ u # rqCurr /\ taskState[u] = "vfork"
                          /\ released[u] = "ready"
  BY <1>3, Released
<1> HIDE DEF released
<1>7. dying \in [Tasks -> TaskStates]
      /\ \A u \in Tasks : dying[u] = IF u = rqCurr THEN "zombie" ELSE released[u]
  BY <1>5 DEF TaskStates
<1> HIDE DEF dying
<1>8. woken \in [Tasks -> TaskStates]
      /\ \A u \in Tasks : woken[u] = dying[u] \/ (dying[u] = "wait" /\ woken[u] = "ready")
  BY <1>7 DEF TaskStates
<1> HIDE DEF woken
<1>9. ASSUME NEW c \in Offspring
      PROVE  /\ woken[c] = IF c = rqCurr THEN "zombie" ELSE taskState[c]
             /\ woken[c] \in {"none", "new", "zombie", "dead"}
             /\ woken[c] # "none" => parent'[c] = Shell
  <2>1. ChildOK(c) /\ c \in Tasks /\ c # Shell /\ taskState[rqCurr] = "ready"
    BY <1>2, <1>3 DEF TasksOK
  <2>2. dying[c] = IF c = rqCurr THEN "zombie" ELSE taskState[c]
    BY <2>1, <1>6, <1>7
  <2>3. woken[c] = dying[c]
    BY <2>1, <2>2, <1>8 DEF ChildOK
  <2> QED BY <2>1, <2>2, <2>3, <1>1 DEF ChildOK
<1>10. woken[Shell] \in {"ready", "wait", "vfork"}
  BY <1>1, <1>2, <1>3, <1>6, <1>7, <1>8 DEF TasksOK
<1>11. ASSUME NEW k \in KThreads PROVE woken[k] = taskState[k]
  <2>1. k \in Tasks /\ k # rqCurr /\ k # Shell /\ KThreadOK(k)
    BY <1>2, <1>3, <1>4 DEF TasksOK
  <2> QED BY <2>1, <1>6, <1>7, <1>8 DEF KThreadOK
<1>12. pending = NoTask /\ \A c \in Offspring : taskState[c] # "new"
  <2>1. pending = NoTask
    BY <1>2, <1>4 DEF ForksOK
  <2> QED BY <2>1, <1>2, <1>3 DEF ForksOK
<1>13. Switchable(woken, "exit")
  <2>1. \A t \in Tasks : parent'[t] \in {NoTask, Shell}
    BY <1>1, <1>2 DEF TasksOK
  <2>2. \A c \in Offspring : woken[c] # "new"
    BY <1>9, <1>12
  <2>3. \A c \in Offspring : woken[c] \in {"none", "new"} => taskState[c] \in {"none", "new"}
    BY <1>9
  <2>4. \/ /\ rqCurr = Shell /\ "exit" \in {"cloned", "schedule", "wait4"}
           /\ InArena /\ OpOf(calls[1], "exit") /\ control.op # "exit"
        \/ rqCurr \in KThreads /\ "exit" = "kthread" /\ OnShadowStack /\ control.op # "exit"
        \/ rqCurr \in Offspring /\ InArena /\ control.op = "exit"
    BY <1>1, <1>4
  <2> QED BY <2>1, <2>2, <2>3, <2>4, <1>3, <1>8, <1>9, <1>10, <1>11, <1>12 DEF Switchable
<1>14. woken[rqCurr] = "zombie" /\ \A c \in Offspring : c # rqCurr => woken[c] = taskState[c]
  BY <1>4, <1>9
<1> QED BY <1>1, <1>4, <1>13, <1>14

\* Whatever the kernel is doing when it switches, the calls stay nested.
LEMMA KernelSwitchStep ==
  ASSUME ScheduledInv, ReleaseGates, NEW next \in Tasks,
         \/ \E child \in UserTasks : KernelVfork(child, next)
         \/ KernelWaitBlock(next) \/ KernelYield(next) \/ KernelExit(next)
  PROVE  NestingInv'
<1>1. ~halted /\ \E states, op : SwitchTo(next, states, op) /\ Switchable(states, op)
  <2>1. ASSUME NEW child \in UserTasks, KernelVfork(child, next)
        PROVE  ~halted /\ \E states, op : SwitchTo(next, states, op) /\ Switchable(states, op)
    BY <2>1, KernelVforkSwitch
  <2>2. CASE KernelWaitBlock(next)
    BY <2>2, KernelWaitBlockSwitch
  <2>3. CASE KernelYield(next)
    BY <2>3, KernelYieldSwitch
  <2>4. CASE KernelExit(next)
    BY <2>4, KernelExitSwitch
  <2> QED BY <2>1, <2>2, <2>3, <2>4
<1> QED BY <1>1, SwitchStep

-----------------------------------------------------------------------------
(***************************************************************************)
(* The theorems.                                                           *)
(***************************************************************************)

\* The shell starts in its program, above no call.
LEMMA InitNesting == Init => NestingInv
<1> SUFFICES ASSUME Init PROVE NestingInv
  OBVIOUS
<1>1. Shell \in Tasks /\ Offspring \subseteq Tasks /\ KThreads \subseteq Tasks
      /\ Shell \notin KThreads /\ Shell \notin Offspring /\ Shell # NoTask /\ Shell \in UserTasks
      /\ Offspring \cap KThreads = {}
  BY TasksAssumption DEF Offspring, Tasks
<1>2. /\ control = UserCode(Shell) /\ halted = FALSE /\ calls = <<>>
      /\ stopDepth = NoStop /\ exitTask = NoTask /\ linuxCurrent = Shell /\ activeUser = Shell
      /\ kernelCurrent = Shell /\ rqCurr = Shell /\ pending = NoTask
      /\ forkConts = [t \in Tasks |-> NoTask] /\ parent = [t \in Tasks |-> NoTask]
  BY DEF Init
<1>3. PICK started \in SUBSET KThreads :
       /\ taskState = [t \in Tasks |-> IF t = Shell \/ t \in started THEN "ready"
                                       ELSE IF t \in KThreads THEN "new" ELSE "none"]
       /\ contexts = [t \in Tasks |-> IF t \in started
                                      THEN [stack |-> ShadowStack(t), op |-> "kthread"]
                                      ELSE NoContext]
  BY DEF Init
<1>4. control.task = Shell /\ control.op = "none" /\ control.at = "user"
      /\ control.stack = UserStack
  BY <1>2 DEF UserCode, Place
<1>5. Len(calls) = 0
  BY <1>2
<1>6. OneCurrentTask
  BY <1>2, <1>4 DEF OneCurrentTask
<1>7. CallsShape
  <2>1. ~halted
    BY <1>2, Zenon
  <2> QED BY <2>1, <1>2, <1>5 DEF CallsShape
<1>8. Frames
  BY <1>1, <1>2, <1>4, <1>5 DEF Frames, OnUserStack, Surface, Depth, Base
<1>9. ShellParked
  BY <1>2 DEF ShellParked
<1>10. ASSUME NEW c \in Offspring PROVE taskState[c] = "none" /\ contexts[c] = NoContext
  <2>1. c \in Tasks /\ c # Shell /\ c \notin KThreads
    BY <1>1
  <2> QED BY <2>1, <1>3
<1>11. ASSUME NEW k \in KThreads PROVE KThreadOK(k)
  <2>1. k \in Tasks /\ k # Shell
    BY <1>1
  <2>2. CASE k \in started
    <3>1. taskState[k] = "ready" /\ contexts[k] = [stack |-> ShadowStack(k), op |-> "kthread"]
      BY <2>1, <2>2, <1>3
    <3>2. contexts[k] # NoContext
      <4>1. ShadowStack(k).level = -1 /\ UserStack.level = -2
        BY DEF ShadowStack, UserStack, Shadow
      <4> QED BY <3>1, <4>1 DEF NoContext
    <3> QED BY <3>1, <3>2 DEF KThreadOK
  <2>3. CASE k \notin started
    <3>1. taskState[k] = "new" /\ contexts[k] = NoContext
      BY <2>1, <2>3, <1>3
    <3> QED BY <3>1 DEF KThreadOK
  <2> QED BY <2>2, <2>3
<1>12. TasksOK
  <2>1. taskState[Shell] = "ready" /\ \A t \in Tasks : parent[t] = NoTask
    BY <1>1, <1>2, <1>3
  <2> QED BY <2>1, <1>2, <1>10, <1>11 DEF TasksOK, ChildOK
<1>13. ForksOK
  BY <1>1, <1>2, <1>4, <1>10 DEF ForksOK, ForkOps
<1> QED BY <1>6, <1>7, <1>8, <1>9, <1>12, <1>13 DEF NestingInv

\* Every step keeps the nesting.
LEMMA NextNesting ==
  ASSUME ReleaseGates, ScheduledInv, [Next]_vars
  PROVE  NestingInv'
<1>1. ASSUME UNCHANGED vars PROVE NestingInv'
  <2>1. UNCHANGED <<control, halted, calls, stopDepth, exitTask, contexts, linuxCurrent,
                    activeUser, pending, forkConts, kernelCurrent, rqCurr, taskState, parent>>
    BY <1>1 DEF vars, hostVars, transferVars, forkVars, kernelVars
  <2>2. OneCurrentTask' /\ CallsShape' /\ ShellParked'
    BY <2>1 DEF ScheduledInv, NestingInv, OneCurrentTask, CallsShape, ShellParked, OpOf
  <2>3. Frames'
    BY <2>1 DEF ScheduledInv, NestingInv, Frames, OnUserStack, OnShadowStack, InArena, OpOf,
                Surface, Depth, Base
  <2>4. TasksOK' /\ ForksOK'
    BY <2>1 DEF ScheduledInv, NestingInv, TasksOK, ChildOK, KThreadOK, ForksOK
  <2> QED BY <2>2, <2>3, <2>4 DEF NestingInv
<1>2. ASSUME Next PROVE NestingInv'
  BY <1>2, SystemCallStep, QsortCompareStep, UserForkStep, UserWaitpidStep, ForkRetryStep,
     WaitpidScheduleStep, WaitpidTrapStep, WaitpidWait4Step, FinishReturnStep,
     FinishTransferStep, ForkChildReturnStep, ExecHandoffStep, KernelReturnStep,
     ComparatorReturnStep, KernelForkStep, KernelReapStep, KernelSwitchStep DEF Next
<1> QED BY <1>1, <1>2

\* In the environment of the release gates the calls of the shell and of its running
\* child nest as ScheduledInv says.
THEOREM Nesting == ASSUME ReleaseGates PROVE Spec => []ScheduledInv
<1>1. Init => ScheduledInv
  <2>1. Init => TransferScoped
    BY DEF Init, TransferScoped
  <2> QED BY <2>1, InitType, InitBookkeeping, InitNesting DEF ScheduledInv, TransferInv
<1>2. ScheduledInv /\ [Next]_vars => ScheduledInv'
  <2>1. SUFFICES ASSUME ScheduledInv, [Next]_vars PROVE ScheduledInv'
    OBVIOUS
  <2>2. TypeOK' /\ Bookkeeping' /\ TransferScoped'
    BY <2>1, NextType, NextBookkeeping, NextScoped DEF ScheduledInv, TransferInv
  <2>3. NestingInv'
    BY <2>1, NextNesting
  <2> QED BY <2>2, <2>3 DEF ScheduledInv, TransferInv
<1> QED BY <1>1, <1>2, PTL DEF Spec

\* A guest function that returns to halt_code ends the run of the call that entered it.
LEMMA NestingHalts == ScheduledInv => HaltDelivered
<1> SUFFICES ASSUME ScheduledInv, control.at = "returned"
             PROVE  calls # <<>> /\ Top.stack = control.stack
  BY DEF HaltDelivered
<1>1. InArena /\ stopDepth = NoStop
  BY AtCall, Basics
<1>2. Depth = Len(calls) /\ Depth = Base + 1 /\ control.stack = calls[Depth].stack
  BY <1>1 DEF Depth, InArena
<1>3. Len(calls) \in Nat /\ Len(calls) >= 1
  BY <1>2, Basics DEF Base
<1>4. calls # <<>>
  BY <1>3
<1> QED BY <1>2, <1>4 DEF Top

\* While a child or a kernel thread runs, the shell's continuation is live, and no
\* other task has one but the kernel threads.
LEMMA NestingContinues == ScheduledInv => ContinuationsLive
<1> SUFFICES ASSUME ScheduledInv, NEW t \in Tasks, t # rqCurr,
                    taskState[t] \in {"ready", "wait", "vfork"}
             PROVE  /\ contexts[t] # NoContext
                    /\ contexts[t].stack.level >= 0 =>
                         \E i \in 1..Len(calls) : calls[i].stack = contexts[t].stack
  BY DEF ContinuationsLive
<1>1. TasksOK /\ ShellParked
  BY DEF ScheduledInv, NestingInv
<1>2. CASE t = Shell
  <2>1. Len(calls) >= 1 /\ contexts[t].stack = calls[1].stack
    BY <1>1, <1>2 DEF ShellParked
  <2>2. 1 \in 1..Len(calls)
    BY <2>1, Basics
  <2>3. contexts[t] # NoContext
    BY <2>1, <2>2, ArenaApart DEF NoContext
  <2> QED BY <2>1, <2>2, <2>3
<1>3. CASE t \in Offspring
  BY <1>1, <1>3 DEF TasksOK, ChildOK
<1>4. CASE t \in KThreads
  <2>1. contexts[t] = [stack |-> ShadowStack(t), op |-> "kthread"] /\ contexts[t] # NoContext
    BY <1>1, <1>4 DEF TasksOK, KThreadOK
  <2>2. contexts[t].stack.level = -1
    BY <2>1 DEF ShadowStack, Shadow
  <2> QED BY <2>1, <2>2
<1> QED BY <1>2, <1>3, <1>4 DEF Tasks, Offspring

\* The pending continuation is the shell's, for the fork that it is in or for the one
\* child that awaits its first run.
LEMMA NestingMatches == ScheduledInv => ForkContinuationsMatched
<1> SUFFICES ASSUME ScheduledInv PROVE ForkContinuationsMatched
  OBVIOUS
<1>1. TasksOK /\ ForksOK /\ Shell # NoTask /\ UserTasks \subseteq Tasks /\ control.task = rqCurr
      /\ rqCurr \in Tasks
  BY Basics, TasksAssumption, RunningTask DEF ScheduledInv, NestingInv, Tasks
<1>2. ASSUME NEW c \in UserTasks, taskState[c] = "new" PROVE pending = parent[c]
  <2>1. c \in Offspring
    BY <1>1, <1>2 DEF TasksOK, Offspring
  <2> QED BY <2>1, <1>1, <1>2 DEF TasksOK, ForksOK, ChildOK
<1>3. ASSUME NEW c \in UserTasks, forkConts[c] # NoTask PROVE forkConts[c] = parent[c]
  <2>1. c \in Tasks /\ control.op = "ret_from_fork" /\ c = rqCurr /\ forkConts[c] = Shell
    BY <1>1, <1>3 DEF ForksOK
  <2>2. c \in Offspring
    BY <2>1, AtShadow DEF OnShadowStack, Offspring
  <2> QED BY <2>1, <2>2, <1>1 DEF TasksOK, ChildOK
<1>4. control.op = "ret_from_fork" => forkConts[control.task] # NoTask
  BY <1>1 DEF ForksOK
<1>5. ASSUME pending # NoTask
      PROVE  \/ \E c \in UserTasks : taskState[c] = "new" /\ parent[c] = pending
             \/ \E i \in 1..Len(calls) : IsFork(calls[i]) /\ calls[i].owner = pending
             \/ InHostCallback({"fork", "vfork"})
  <2>1. pending = Shell /\ (control.op \in ForkOps \/ \E c \in Offspring : taskState[c] = "new")
    BY <1>1, <1>5 DEF ForksOK
  <2>2. CASE \E c \in Offspring : taskState[c] = "new"
    BY <2>1, <2>2, <1>1 DEF TasksOK, ChildOK, Offspring
  <2>3. CASE control.op \in ForkOps
    <3>1. CASE OnUserStack
      BY <2>3, <3>1 DEF OnUserStack, Surface, ForkOps, InHostCallback
    <3>2. CASE OnShadowStack
      BY <2>3, <3>2 DEF OnShadowStack, ForkOps
    <3>3. CASE InArena
      <4>1. Depth \in 1..Len(calls)
        BY <3>3, Basics DEF InArena, Base
      <4>2. IsFork(calls[Depth])
        BY <2>3, <3>3 DEF InArena, OpOf, IsFork, ForkOps
      <4>3. calls[Depth].owner = pending
        BY <2>1, <2>3, <3>3, <1>1 DEF InArena, ForksOK
      <4> QED BY <4>1, <4>2, <4>3
    <3> QED BY <3>1, <3>2, <3>3 DEF ScheduledInv, NestingInv, Frames
  <2> QED BY <2>1, <2>2, <2>3
<1> QED BY <1>2, <1>3, <1>4, <1>5 DEF ForkContinuationsMatched

\* The call that a transfer is about to unwind is that of the shell while it runs or
\* that of a child, and no child is ever blocked.
LEMMA ArmedTop ==
  ASSUME ScheduledInv, stopDepth # NoStop
  PROVE  taskState[Top.owner] \notin {"wait", "vfork"}
<1> DEFINE n == Len(calls)
<1>1. CallsShape /\ Frames /\ TasksOK
  BY DEF ScheduledInv, NestingInv
<1>2. n = stopDepth + 1 /\ n <= 2 /\ stopDepth \in Nat /\ Depth = stopDepth /\ Top = calls[n]
  BY <1>1, Basics DEF CallsShape, Depth, Top
<1>3. n \in 1..Len(calls)
  BY <1>2
<1> HIDE DEF n
<1>4. CASE n = 1
  <2>1. Top.owner = Shell
    BY <1>1, <1>2, <1>3, <1>4 DEF CallsShape
  <2>2. Depth = 0
    BY <1>2, <1>4
  <2>3. rqCurr = Shell
    BY <2>2, <1>1 DEF Frames, OnUserStack, OnShadowStack, InArena, Base
  <2> QED BY <2>1, <2>3, <1>1 DEF TasksOK
<1>5. CASE n = 2
  <2>1. Top.owner # Shell /\ Top.owner \in UserTasks
    BY <1>1, <1>2, <1>3, <1>5, ArenaApart DEF CallsShape
  <2> QED BY <2>1, <1>1 DEF TasksOK, ChildOK, Offspring
<1> QED BY <1>2, <1>4, <1>5

\* The vm.run() that a halt ends is the run of the call whose guest function returned:
\* Python's stack and the guest's chains of frames are unwound in the same order.
THEOREM HaltDeliveredHolds == ASSUME ReleaseGates PROVE Spec => []HaltDelivered
  BY Nesting, NestingHalts, PTL

\* active_user_task, linux_current_task, the guest's minimachine_current_task and the
\* runqueue's curr agree, and userspace code runs as the task whose program it is.
THEOREM IdentitiesAgreeHolds == ASSUME ReleaseGates PROVE Spec => []IdentitiesAgree
<1>1. ScheduledInv => IdentitiesAgree
  BY DEF ScheduledInv, NestingInv, OneCurrentTask, IdentitiesAgree
<1> QED BY <1>1, Nesting, PTL

\* Every task that the scheduler may pick again can be resumed in a live arena.
THEOREM ContinuationsLiveHolds == ASSUME ReleaseGates PROVE Spec => []ContinuationsLive
  BY Nesting, NestingContinues, PTL

\* A fork continuation reaches exactly the child it was made for.
THEOREM ForkContinuationsMatchedHolds ==
  ASSUME ReleaseGates PROVE Spec => []ForkContinuationsMatched
  BY Nesting, NestingMatches, PTL

\* A transfer never pops an activation of a task that is blocked in the kernel.
THEOREM WaitersSurviveTransfersHolds ==
  ASSUME ReleaseGates PROVE Spec => WaitersSurviveTransfers
<1>1. ScheduledInv /\ [Next]_vars =>
        [(stopDepth # NoStop /\ Len(calls') < Len(calls))
            => taskState[Top.owner] \notin {"wait", "vfork"}]_vars
  BY ArmedTop
<1> QED BY <1>1, Nesting, PTL DEF Spec, WaitersSurviveTransfers

-----------------------------------------------------------------------------
(***************************************************************************)
(* The refinement of UnixProcesses.  The phase of the task that runs is    *)
(* read off the place it runs at, the phase of any other off the           *)
(* scheduler's view of it; so a step that switches no task moves the phase *)
(* of the running task only, besides that of the child it makes or reaps.  *)
(***************************************************************************)
PlacePhase(place) ==
  IF place.op = "ret_from_fork" THEN "unstarted"
  ELSE IF place.at = "user" /\ place.stack = UserStack THEN "running"
  ELSE IF place.at = "returned" /\ place.op # "compare" THEN "completed"
  ELSE "calling"

StatePhase(state) ==
  IF state = "none" THEN "absent"
  ELSE IF state = "new" THEN "unstarted"
  ELSE IF state = "zombie" THEN "zombie"
  ELSE IF state = "dead" THEN "reaped"
  ELSE "calling"

\* The phase of a task is read from the place of the processor when the task runs
\* and from the kernel's state of it otherwise.
LEMMA PhaseValue ==
  ScheduledInv => \A t \in UserTasks :
                    Phase(t) = IF t = rqCurr THEN PlacePhase(control)
                               ELSE StatePhase(taskState[t])
<1> SUFFICES ASSUME ScheduledInv, NEW t \in UserTasks
             PROVE  Phase(t) = IF t = rqCurr THEN PlacePhase(control)
                               ELSE StatePhase(taskState[t])
  OBVIOUS
<1>1. control.task = rqCurr /\ taskState[rqCurr] = "ready" /\ t \in Tasks /\ Shell # NoTask
      /\ rqCurr \in Tasks
  BY RunningTask, Basics, TasksAssumption DEF ScheduledInv, NestingInv, TasksOK, Tasks
<1>2. forkConts[t] # NoTask <=> control.op = "ret_from_fork" /\ t = rqCurr
  BY <1>1 DEF ScheduledInv, NestingInv, ForksOK
<1>3. CASE t = rqCurr
  BY <1>1, <1>2, <1>3 DEF Phase, PlacePhase
<1>4. CASE t # rqCurr
  BY <1>1, <1>2, <1>4 DEF Phase, StatePhase
<1> QED BY <1>3, <1>4

\* The same in the next state.
LEMMA PhaseValueNext ==
  ScheduledInv' => \A t \in UserTasks :
                     Phase(t)' = IF t = rqCurr' THEN PlacePhase(control')
                                 ELSE StatePhase(taskState'[t])
<1>1. (ScheduledInv => \A t \in UserTasks :
                    Phase(t) = IF t = rqCurr THEN PlacePhase(control)
                               ELSE StatePhase(taskState[t]))'
  BY PhaseValue, PTL
<1> QED BY <1>1 DEF PlacePhase, StatePhase

PhaseMap == [t \in UserTasks |-> Phase(t)]

\* A step of the task that runs changes its own phase.
LEMMA RunnerMoves ==
  ASSUME ScheduledInv, ScheduledInv', rqCurr' = rqCurr,
         \A t \in UserTasks : t # rqCurr => StatePhase(taskState'[t]) = StatePhase(taskState[t])
  PROVE  /\ rqCurr \in UserTasks =>
              /\ PhaseMap[rqCurr] = PlacePhase(control)
              /\ PhaseMap' = [PhaseMap EXCEPT ![rqCurr] = PlacePhase(control')]
         /\ PlacePhase(control') = PlacePhase(control) => PhaseMap' = PhaseMap
<1>1. \A t \in UserTasks :
        /\ Phase(t) = IF t = rqCurr THEN PlacePhase(control) ELSE StatePhase(taskState[t])
        /\ Phase(t)' = IF t = rqCurr THEN PlacePhase(control') ELSE StatePhase(taskState'[t])
  BY PhaseValue, PhaseValueNext
<1>2. \A t \in UserTasks : t # rqCurr => Phase(t)' = Phase(t)
  BY <1>1
<1> QED BY <1>1, <1>2 DEF PhaseMap

\* The moves that UnixProcesses allows one process to make.
LEMMA UnixMove ==
  ASSUME NEW p \in UserTasks, NEW to, parent' = parent,
         PhaseMap' = [PhaseMap EXCEPT ![p] = to],
         \/ PhaseMap[p] = "running" /\ to = "calling"
         \/ PhaseMap[p] = "calling" /\ to \in {"completed", "running", "zombie"}
         \/ PhaseMap[p] = "completed" /\ to \in {"running", "calling"}
         \/ PhaseMap[p] = "unstarted" /\ to = "running"
  PROVE  Unix!UpNext
<1>1. CASE PhaseMap[p] = "running" /\ to = "calling"
  <2>1. Unix!Call(p)
    BY <1>1 DEF Unix!Call, Unix!Move, PhaseMap
  <2> QED BY <2>1 DEF Unix!UpNext
<1>2. CASE PhaseMap[p] = "calling" /\ to = "completed"
  <2>1. Unix!Complete(p)
    BY <1>2 DEF Unix!Complete, Unix!Move, PhaseMap
  <2> QED BY <2>1 DEF Unix!UpNext
<1>3. CASE PhaseMap[p] = "calling" /\ to = "running"
  <2>1. Unix!Exec(p)
    BY <1>3 DEF Unix!Exec, Unix!Move, PhaseMap
  <2> QED BY <2>1 DEF Unix!UpNext
<1>4. CASE PhaseMap[p] = "calling" /\ to = "zombie"
  <2>1. Unix!Exit(p)
    BY <1>4 DEF Unix!Exit, Unix!Move, PhaseMap
  <2> QED BY <2>1 DEF Unix!UpNext
<1>5. CASE PhaseMap[p] = "completed" /\ to = "running"
  <2>1. Unix!ReturnToUser(p)
    BY <1>5 DEF Unix!ReturnToUser, Unix!Move, PhaseMap
  <2> QED BY <2>1 DEF Unix!UpNext
<1>6. CASE PhaseMap[p] = "completed" /\ to = "calling"
  <2>1. Unix!CallAgain(p)
    BY <1>6 DEF Unix!CallAgain, Unix!Move, PhaseMap
  <2> QED BY <2>1 DEF Unix!UpNext
<1>7. CASE PhaseMap[p] = "unstarted" /\ to = "running"
  <2>1. Unix!Start(p)
    BY <1>7 DEF Unix!Start, Unix!Move, PhaseMap
  <2> QED BY <2>1 DEF Unix!UpNext
<1> QED BY <1>1, <1>2, <1>3, <1>4, <1>5, <1>6, <1>7

\* One step of UnixProcesses, or none.
UnixStep == Unix!UpNext \/ UNCHANGED <<PhaseMap, parent>>

\* A program that enters the kernel, a comparator or a host callback begins a call.
LEMMA UserCalls ==
  ASSUME ScheduledInv, ScheduledInv', ReleaseGates,
         \/ \E op \in {"io", "exec", "exit"} : SystemCall(op)
         \/ QsortCompare
         \/ \E op \in {"fork", "vfork"} : UserFork(op)
         \/ UserWaitpid
  PROVE  UnixStep
<1>1. InUserCode /\ (control.stack = UserStack \/ ComparatorCalls)
  BY DEF SystemCall, QsortCompare, UserFork, UserWaitpid
<1>2. OnUserStack /\ control.op = "none" /\ Surface(control, rqCurr)
  BY <1>1, AtProgram
<1>3. PlacePhase(control) = "running" /\ rqCurr \in UserTasks
  BY <1>1, <1>2 DEF PlacePhase, InUserCode, OnUserStack, Surface
<1>4. rqCurr' = rqCurr /\ taskState' = taskState /\ parent' = parent
  BY DEF SystemCall, QsortCompare, UserFork, UserWaitpid, BeginCall, kernelVars
<1>5. PlacePhase(control') = "calling"
  <2>1. CASE UserWaitpid
    <3>1. control' = Place("host", control.task, UserStack, "waitpid", 0)
      BY <2>1 DEF UserWaitpid
    <3> QED BY <3>1 DEF Place, PlacePhase
  <2>2. CASE ~UserWaitpid
    <3> DEFINE Begins(op, entry, preserve, resume) ==
                 /\ op \in {"io", "exec", "exit", "fork", "vfork", "compare"}
                 /\ entry \in {"kernel", "user"}
                 /\ BeginCall(op, ActiveTask, preserve, ActiveTask, entry, resume)
    <3>1. PICK op, entry, preserve, resume : Begins(op, entry, preserve, resume)
      <4>1. CASE \E o \in {"io", "exec", "exit"} : SystemCall(o)
        <5>1. PICK o \in {"io", "exec", "exit"} : SystemCall(o)
          BY <4>1
        <5>2. Begins(o, "kernel", FALSE, control)
          BY <5>1 DEF SystemCall
        <5> HIDE DEF Begins
        <5> QED BY <5>2
      <4>2. CASE QsortCompare
        <5>1. Begins("compare", "user", FALSE, control)
          BY <4>2 DEF QsortCompare
        <5> HIDE DEF Begins
        <5> QED BY <5>1
      <4>3. CASE \E o \in {"fork", "vfork"} : UserFork(o)
        <5>1. PICK o \in {"fork", "vfork"} : UserFork(o)
          BY <4>3
        <5>2. Begins(o, "kernel", TRUE, Place("host", control.task, UserStack, o, 0))
          BY <5>1 DEF UserFork
        <5> HIDE DEF Begins
        <5> QED BY <5>2
      <4> QED BY <2>2, <4>1, <4>2, <4>3
    <3>2. /\ control'.op = op /\ control'.at = entry
          /\ control'.stack = [task |-> rqCurr, level |-> ArenaLevel(rqCurr)]
      BY <3>1, RunningTask DEF BeginCall, Place
    <3>3. control'.stack # UserStack
      <4>1. rqCurr # NoTask
        BY Basics
      <4> QED BY <3>2, <4>1 DEF UserStack
    <3>4. op # "ret_from_fork" /\ entry # "returned"
      BY <3>1
    <3> QED BY <3>2, <3>3, <3>4 DEF PlacePhase
  <2> QED BY <2>1, <2>2
<1>6. /\ PhaseMap[rqCurr] = "running"
      /\ PhaseMap' = [PhaseMap EXCEPT ![rqCurr] = "calling"]
  BY <1>3, <1>4, <1>5, RunnerMoves
<1> QED BY <1>3, <1>4, <1>6, UnixMove DEF UnixStep

\* A host callback that enters the kernel again goes on with the same call.
LEMMA CallbackCalls ==
  ASSUME ScheduledInv, ScheduledInv',
         ForkRetry \/ WaitpidSchedule \/ WaitpidTrap \/ WaitpidWait4
  PROVE  UnixStep
<1>1. control.at = "host"
  BY DEF ForkRetry, WaitpidSchedule, WaitpidTrap, WaitpidWait4, InHostCallback
<1>2. Surface(control, rqCurr)
  BY <1>1, AtCallback
<1>3. PlacePhase(control) = "calling"
  BY <1>1, <1>2 DEF PlacePhase, Surface, ForkOps
<1>4. rqCurr' = rqCurr /\ taskState' = taskState /\ parent' = parent
  BY DEF ForkRetry, WaitpidSchedule, WaitpidTrap, WaitpidWait4, BeginCall, kernelVars
<1>5. PlacePhase(control') = "calling"
  <2> DEFINE Begins(op, owner, preserve, resume) ==
               /\ op \in ForkOps \cup {"schedule", "trap", "wait4"}
               /\ BeginCall(op, owner, preserve, kernelCurrent, "kernel", resume)
  <2>1. PICK op, owner, preserve, resume : Begins(op, owner, preserve, resume)
    <3>1. CASE ForkRetry
      <4>1. Begins(control.op, ActiveTask, TRUE, control)
        BY <3>1 DEF ForkRetry, InHostCallback, ForkOps
      <4> HIDE DEF Begins
      <4> QED BY <4>1
    <3>2. CASE WaitpidSchedule
      <4>1. Begins("schedule", IF linuxCurrent # NoTask THEN linuxCurrent ELSE ActiveTask,
                   TRUE, [control EXCEPT !.n = @ + 1])
        BY <3>2 DEF WaitpidSchedule
      <4> HIDE DEF Begins
      <4> QED BY <4>1
    <3>3. CASE WaitpidTrap
      <4>1. Begins("trap", ActiveTask, FALSE, Place("host", control.task, UserStack, "wait4", 0))
        BY <3>3 DEF WaitpidTrap
      <4> HIDE DEF Begins
      <4> QED BY <4>1
    <3>4. CASE WaitpidWait4
      <4>1. Begins("wait4", ActiveTask, TRUE, UserCode(control.task))
        BY <3>4 DEF WaitpidWait4
      <4> HIDE DEF Begins
      <4> QED BY <4>1
    <3> QED BY <3>1, <3>2, <3>3, <3>4
  <2>2. control'.op = op /\ control'.at = "kernel"
    BY <2>1 DEF BeginCall, Place
  <2>3. op # "ret_from_fork"
    BY <2>1 DEF ForkOps
  <2> QED BY <2>2, <2>3 DEF PlacePhase
<1>6. PhaseMap' = PhaseMap
  BY <1>3, <1>4, <1>5, RunnerMoves
<1> QED BY <1>4, <1>6 DEF UnixStep

\* A call that the kernel completed comes back to its program, or its host callback
\* goes on; a comparator returns to the program that is sorting.
LEMMA CallReturns ==
  ASSUME ScheduledInv, ScheduledInv', FinishReturn
  PROVE  UnixStep
<1>1. halted /\ stopDepth = NoStop /\ control.at = "returned" /\ ~halted'
      /\ rqCurr' = rqCurr /\ taskState' = taskState /\ parent' = parent
  <2>1. halted /\ calls # <<>> /\ ~InTransfer
    BY DEF FinishReturn
  <2>2. stopDepth = NoStop
    BY <2>1, TransferDepth
  <2>3. control.at = "returned"
    BY <2>1, <2>2 DEF ScheduledInv, NestingInv, CallsShape
  <2>4. ~halted'
    <3>1. halted' = FALSE
      BY DEF FinishReturn
    <3> QED BY <3>1, Zenon
  <2> QED BY <2>1, <2>2, <2>3, <2>4 DEF FinishReturn, kernelVars
<1>2. PlacePhase(control) \in {"completed", "calling"}
  <2>1. control.op # "ret_from_fork"
    BY <1>1, AtShadow DEF OnShadowStack
  <2> QED BY <2>1, <1>1 DEF PlacePhase
<1>3. rqCurr \in UserTasks
  <2>1. InArena
    BY <1>1, AtCall
  <2>2. Depth \in 1..Len(calls)
    BY <2>1, Basics DEF InArena, Base
  <2> QED BY <2>1, <2>2, ArenaApart DEF InArena
<1>4. PlacePhase(control') \in {"running", "calling"}
  <2>1. Surface(control', rqCurr)
    BY FinishReturnStep
  <2> QED BY <2>1 DEF Surface, PlacePhase, ForkOps
<1>5. /\ PhaseMap[rqCurr] = PlacePhase(control)
      /\ PhaseMap' = [PhaseMap EXCEPT ![rqCurr] = PlacePhase(control')]
      /\ PlacePhase(control') = PlacePhase(control) => PhaseMap' = PhaseMap
  BY <1>1, <1>3, RunnerMoves
<1>6. CASE PlacePhase(control') = PlacePhase(control)
  BY <1>1, <1>5, <1>6 DEF UnixStep
<1>7. CASE PlacePhase(control') # PlacePhase(control)
  BY <1>1, <1>2, <1>3, <1>4, <1>5, <1>7, UnixMove DEF UnixStep
<1> QED BY <1>6, <1>7

\* Unwinding the calls of a task that has exec'd or exited is invisible to it.
LEMMA TransferUnseen ==
  ASSUME ScheduledInv, ScheduledInv', FinishTransfer
  PROVE  UnixStep
<1>1. control' = control /\ rqCurr' = rqCurr /\ taskState' = taskState /\ parent' = parent
  BY DEF FinishTransfer, kernelVars
<1>2. PhaseMap' = PhaseMap
  BY <1>1, RunnerMoves
<1> QED BY <1>1, <1>2 DEF UnixStep

\* A child starts with its first run, and exec replaces the program.
LEMMA ReturnsToUser ==
  ASSUME ScheduledInv, ScheduledInv', ForkChildReturn \/ ExecHandoff
  PROVE  UnixStep
<1>1. /\ control.at = "kernel" /\ control.op \in {"ret_from_fork", "exec"}
      /\ control' = UserCode(rqCurr) /\ rqCurr' = rqCurr /\ parent' = parent
  BY RunningTask DEF ForkChildReturn, ExecHandoff, InKernel, kernelVars
<1>2. PlacePhase(control) \in {"unstarted", "calling"} /\ PlacePhase(control') = "running"
  BY <1>1 DEF PlacePhase, UserCode, Place
<1>3. \A t \in UserTasks : StatePhase(taskState'[t]) = StatePhase(taskState[t])
  <2>1. CASE ForkChildReturn
    BY <2>1 DEF ForkChildReturn, kernelVars
  <2>2. CASE ExecHandoff
    <3>1. taskState' = ReleaseVfork(taskState, rqCurr) /\ rqCurr \in Tasks
          /\ UserTasks \subseteq Tasks
      BY <2>2, RunningTask, Basics DEF ExecHandoff, Tasks
    <3>2. \A t \in UserTasks : \/ taskState'[t] = taskState[t]
                               \/ taskState[t] = "vfork" /\ taskState'[t] = "ready"
      BY <3>1, Released
    <3> QED BY <3>2 DEF StatePhase
  <2> QED BY <2>1, <2>2
<1>4. rqCurr \in UserTasks
  <2>1. OnUserStack'
    <3>1. control'.stack = UserStack /\ control'.at = "user" /\ control'.op = "none"
      BY <1>1 DEF UserCode, Place
    <3>2. ~OnShadowStack'
      BY <3>1 DEF OnShadowStack
    <3>3. ~InArena'
      BY <3>1 DEF InArena
    <3> QED BY <3>2, <3>3 DEF ScheduledInv, NestingInv, Frames
  <2> QED BY <2>1, <1>1 DEF OnUserStack
<1>5. /\ PhaseMap[rqCurr] = PlacePhase(control)
      /\ PhaseMap' = [PhaseMap EXCEPT ![rqCurr] = "running"]
  BY <1>1, <1>2, <1>3, <1>4, RunnerMoves
<1> QED BY <1>1, <1>2, <1>4, <1>5, UnixMove DEF UnixStep

\* The kernel completes a call; a comparator's return is the program's own business.
LEMMA KernelCompletes ==
  ASSUME ScheduledInv, ScheduledInv',
         (\E outcome \in {Succeeded, Failed, Restart} : KernelReturn(outcome)) \/ ComparatorReturn
  PROVE  UnixStep
<1>1. PICK outcome \in {Succeeded, Failed, Restart} : Return(outcome)
  BY DEF KernelReturn, ComparatorReturn, Succeeded
<1>2. /\ control' = [control EXCEPT !.at = "returned", !.n = outcome]
      /\ rqCurr' = rqCurr /\ taskState' = taskState /\ parent' = parent
  BY <1>1 DEF Return, KernelReturn, ComparatorReturn
<1>3. control'.at = "returned" /\ control'.op = control.op
  BY <1>2 DEF ScheduledInv, TransferInv, TypeOK, Control
<1>4. InArena
  BY AtCall DEF KernelReturn, ComparatorReturn, InKernel, InUserCode
<1>5. Depth \in 1..Len(calls)
  BY <1>4, Basics DEF InArena, Base
<1>6. rqCurr \in UserTasks /\ calls[Depth].stack # UserStack
  BY <1>4, <1>5, ArenaApart DEF InArena
<1>7. control.stack # UserStack /\ control.op # "ret_from_fork" /\ control.at \in {"user", "kernel"}
  BY <1>4, <1>6 DEF InArena, KernelReturn, ComparatorReturn, InKernel, InUserCode
<1>8. PlacePhase(control) = "calling" /\ PlacePhase(control') \in {"completed", "calling"}
  BY <1>3, <1>7 DEF PlacePhase
<1>9. /\ PhaseMap[rqCurr] = "calling"
      /\ PhaseMap' = [PhaseMap EXCEPT ![rqCurr] = PlacePhase(control')]
      /\ PlacePhase(control') = "calling" => PhaseMap' = PhaseMap
  BY <1>2, <1>6, <1>8, RunnerMoves
<1>10. CASE PlacePhase(control') = "calling"
  BY <1>2, <1>9, <1>10 DEF UnixStep
<1>11. CASE PlacePhase(control') = "completed"
  BY <1>2, <1>6, <1>9, <1>11, UnixMove DEF UnixStep
<1> QED BY <1>8, <1>10, <1>11

\* The kernel's clone makes the child of the shell, which stays in its call.
LEMMA KernelClones ==
  ASSUME ScheduledInv, ScheduledInv', ReleaseGates, NEW child \in UserTasks, KernelFork(child)
  PROVE  UnixStep
<1>1. /\ control.at = "kernel" /\ control.op = "fork" /\ Allocatable(child)
      /\ taskState' = [taskState EXCEPT ![child] = "new"]
      /\ parent' = [parent EXCEPT ![child] = rqCurr]
      /\ control' = [control EXCEPT !.op = "cloned"] /\ rqCurr' = rqCurr
  BY RunningTask DEF KernelFork, InKernel
<1>2. TypeOK /\ TasksOK /\ rqCurr = Shell
  BY <1>1 DEF ScheduledInv, NestingInv, TransferInv, ForksOK, ForkOps
<1>3. taskState[child] = "none" /\ child # rqCurr
  BY <1>1, <1>2 DEF Allocatable, ReleaseGates, TasksOK
<1>4. control'.at = "kernel" /\ control'.op = "cloned"
  BY <1>1, <1>2 DEF TypeOK, Control
<1>5. PlacePhase(control) = "calling" /\ PlacePhase(control') = "calling"
  BY <1>1, <1>4 DEF PlacePhase
<1>6. \A t \in UserTasks : taskState'[t] = IF t = child THEN "new" ELSE taskState[t]
  BY <1>1, <1>2 DEF TypeOK, Tasks
<1>7. /\ \A t \in UserTasks : PhaseMap'[t] = IF t = child THEN "unstarted" ELSE PhaseMap[t]
      /\ PhaseMap[child] = "absent" /\ PhaseMap[Shell] = "calling"
  BY <1>1, <1>2, <1>3, <1>5, <1>6, PhaseValue, PhaseValueNext, TasksAssumption
     DEF PhaseMap, StatePhase
<1>8. PhaseMap' = [PhaseMap EXCEPT ![child] = "unstarted"]
  BY <1>7 DEF PhaseMap
<1>9. Unix!Spawn(Shell, child)
  BY <1>1, <1>2, <1>7, <1>8 DEF Unix!Spawn, PhaseMap
<1> QED BY <1>9, TasksAssumption DEF UnixStep, Unix!UpNext

\* wait4 completes with the exit of a child, which is reaped.
LEMMA KernelReaps ==
  ASSUME ScheduledInv, ScheduledInv', NEW child \in UserTasks, KernelReap(child)
  PROVE  UnixStep
<1>1. /\ control.at = "kernel" /\ control.op = "wait4" /\ Return(Succeeded)
      /\ parent[child] = rqCurr /\ taskState[child] = "zombie"
      /\ taskState' = [taskState EXCEPT ![child] = "dead"]
      /\ rqCurr' = rqCurr /\ parent' = parent
  BY RunningTask DEF KernelReap, InKernel, Children, Return
<1>2. TypeOK /\ TasksOK
  BY DEF ScheduledInv, NestingInv, TransferInv
<1>3. child # rqCurr
  BY <1>1, <1>2 DEF TasksOK
<1>4. rqCurr \in UserTasks
  <2>1. InArena
    BY <1>1, AtCall
  <2>2. Depth \in 1..Len(calls)
    BY <2>1, Basics DEF InArena, Base
  <2> QED BY <2>1, <2>2, ArenaApart DEF InArena
<1>5. control'.at = "returned" /\ control'.op = "wait4"
  BY <1>1, <1>2 DEF Return, TypeOK, Control
<1>6. PlacePhase(control) = "calling" /\ PlacePhase(control') = "completed"
  BY <1>1, <1>5 DEF PlacePhase
<1>7. \A t \in UserTasks : taskState'[t] = IF t = child THEN "dead" ELSE taskState[t]
  BY <1>1, <1>2 DEF TypeOK, Tasks
<1>8. /\ \A t \in UserTasks : PhaseMap'[t] = IF t = child THEN "reaped"
                                             ELSE IF t = rqCurr THEN "completed" ELSE PhaseMap[t]
      /\ PhaseMap[child] = "zombie" /\ PhaseMap[rqCurr] = "calling"
  BY <1>1, <1>3, <1>4, <1>6, <1>7, PhaseValue, PhaseValueNext DEF PhaseMap, StatePhase
<1>9. PhaseMap' = [PhaseMap EXCEPT ![child] = "reaped", ![rqCurr] = "completed"]
  BY <1>3, <1>8 DEF PhaseMap
<1>10. Unix!Reap(rqCurr, child)
  BY <1>1, <1>8, <1>9 DEF Unix!Reap, PhaseMap
<1> QED BY <1>4, <1>10 DEF UnixStep, Unix!UpNext

\* A task switch shows in the phases only by what the kernel did to the tasks before it.
LEMMA SwitchPhases ==
  ASSUME ScheduledInv, ScheduledInv', ~halted, control.at = "kernel", NEW next \in Tasks,
         NEW states, NEW op, SwitchTo(next, states, op), Switchable(states, op)
  PROVE  /\ \A t \in UserTasks : PhaseMap[t] = StatePhase(taskState[t])
         /\ \A t \in UserTasks : PhaseMap'[t] = StatePhase(states[t])
<1>1. TypeOK /\ TasksOK /\ UserTasks \cap KThreads = {} /\ UserTasks \subseteq Tasks
      /\ Len(calls) \in {1, 2} /\ Shell \notin KThreads
  BY SwitchDepth, TasksAssumption DEF ScheduledInv, NestingInv, TransferInv, Tasks
<1>2. taskState' = [states EXCEPT ![next] = "ready"] /\ rqCurr' = next
      /\ states \in [Tasks -> TaskStates] /\ states[next] \in {"new", "ready"}
  BY DEF SwitchTo, Switchable
<1>3. /\ control'.at = "kernel"
      /\ next = Shell => control'.op \in {"cloned", "schedule", "wait4"}
      /\ next # Shell => control'.op = IF next \in KThreads THEN "kthread" ELSE "ret_from_fork"
      /\ next \in Offspring => states[next] = "new"
  BY <1>1, SwitchPlace
<1>4. ASSUME NEW t \in UserTasks PROVE PhaseMap[t] = StatePhase(taskState[t])
  <2>1. CASE t = rqCurr
    <3>1. InArena
      BY <1>1, <2>1 DEF Switchable
    <3>2. Depth \in 1..Len(calls)
      BY <3>1, Basics DEF InArena, Base
    <3>3. calls[Depth].op \in CallOps
      BY <3>2, ArenaApart DEF CallOK
    <3>4. control.op # "ret_from_fork"
      BY <3>1, <3>3 DEF InArena, OpOf, CallOps, PreservingOps
    <3>5. taskState[t] = "ready"
      BY <2>1, <1>1 DEF TasksOK
    <3> QED BY <2>1, <3>4, <3>5, PhaseValue DEF PhaseMap, PlacePhase, StatePhase
  <2>2. CASE t # rqCurr
    BY <2>2, PhaseValue DEF PhaseMap
  <2> QED BY <2>1, <2>2
<1>5. ASSUME NEW t \in UserTasks PROVE PhaseMap'[t] = StatePhase(states[t])
  <2>1. CASE t = next
    <3>1. CASE t = Shell
      <4>1. states[t] = "ready"
        BY <2>1, <3>1, <1>2 DEF Switchable
      <4> QED BY <2>1, <3>1, <4>1, <1>2, <1>3, PhaseValueNext DEF PhaseMap, PlacePhase, StatePhase
    <3>2. CASE t # Shell
      <4>1. states[t] = "new" /\ control'.op = "ret_from_fork"
        BY <2>1, <3>2, <1>1, <1>3 DEF Offspring
      <4> QED BY <2>1, <4>1, <1>2, PhaseValueNext DEF PhaseMap, PlacePhase, StatePhase
    <3> QED BY <3>1, <3>2
  <2>2. CASE t # next
    <3>1. taskState'[t] = states[t]
      BY <2>2, <1>1, <1>2
    <3> QED BY <2>2, <3>1, <1>2, PhaseValueNext DEF PhaseMap
  <2> QED BY <2>1, <2>2
<1> QED BY <1>4, <1>5

\* vfork makes the child of the shell, exit a zombie of the child that runs; a task
\* that blocks or yields keeps its phase.
LEMMA KernelSwitches ==
  ASSUME ScheduledInv, ScheduledInv', ReleaseGates, NEW next \in Tasks,
         \/ \E child \in UserTasks : KernelVfork(child, next)
         \/ KernelWaitBlock(next) \/ KernelYield(next) \/ KernelExit(next)
  PROVE  UnixStep
<1>a. /\ TasksOK /\ Shell \in UserTasks /\ \A t \in UserTasks : t = Shell \/ t \in Offspring
      /\ Shell \notin Offspring /\ Offspring \subseteq UserTasks
  BY TasksAssumption DEF ScheduledInv, NestingInv, Offspring
<1>b. StatePhase(taskState[Shell]) = "calling"
  BY <1>a DEF TasksOK, StatePhase
<1>1. ASSUME NEW child \in UserTasks, KernelVfork(child, next) PROVE UnixStep
  <2>1. /\ control.at = "kernel" /\ ~halted /\ rqCurr = Shell
        /\ child \in Offspring /\ taskState[child] = "none"
        /\ parent' = [parent EXCEPT ![child] = rqCurr]
    BY <1>1, KernelVforkSwitch
  <2>2. PICK states : /\ SwitchTo(next, states, "cloned") /\ Switchable(states, "cloned")
                      /\ states[Shell] = "vfork" /\ states[child] = "new"
                      /\ \A c \in Offspring : c # child => states[c] = taskState[c]
    BY <1>1, KernelVforkSwitch
  <2>3. /\ \A t \in UserTasks : PhaseMap[t] = StatePhase(taskState[t])
        /\ \A t \in UserTasks : PhaseMap'[t] = StatePhase(states[t])
    BY <2>1, <2>2, SwitchPhases
  <2>4. /\ \A t \in UserTasks : PhaseMap'[t] = IF t = child THEN "unstarted" ELSE PhaseMap[t]
        /\ PhaseMap[child] = "absent" /\ PhaseMap[Shell] = "calling"
    BY <2>1, <2>2, <2>3, <1>a, <1>b DEF StatePhase
  <2>5. PhaseMap' = [PhaseMap EXCEPT ![child] = "unstarted"]
    BY <2>4 DEF PhaseMap
  <2>6. Unix!Spawn(Shell, child)
    BY <2>1, <2>4, <2>5 DEF Unix!Spawn, PhaseMap
  <2> QED BY <2>6, <1>a DEF UnixStep, Unix!UpNext
<1>2. ASSUME KernelWaitBlock(next) PROVE UnixStep
  <2>1. control.at = "kernel" /\ ~halted /\ parent' = parent
    BY <1>2, KernelWaitBlockSwitch
  <2>2. PICK states : /\ SwitchTo(next, states, "wait4") /\ Switchable(states, "wait4")
                      /\ states[Shell] = "wait"
                      /\ \A c \in Offspring : states[c] = taskState[c]
    BY <1>2, KernelWaitBlockSwitch
  <2>3. /\ \A t \in UserTasks : PhaseMap[t] = StatePhase(taskState[t])
        /\ \A t \in UserTasks : PhaseMap'[t] = StatePhase(states[t])
    BY <2>1, <2>2, SwitchPhases
  <2>4. \A t \in UserTasks : PhaseMap'[t] = PhaseMap[t]
    BY <2>2, <2>3, <1>a, <1>b DEF StatePhase
  <2>5. PhaseMap' = PhaseMap
    BY <2>4 DEF PhaseMap
  <2> QED BY <2>1, <2>5 DEF UnixStep
<1>3. ASSUME KernelYield(next) PROVE UnixStep
  <2>1. /\ control.at = "kernel" /\ ~halted /\ parent' = parent
        /\ SwitchTo(next, taskState, control.op) /\ Switchable(taskState, control.op)
    BY <1>3, KernelYieldSwitch
  <2>2. \A t \in UserTasks : PhaseMap'[t] = PhaseMap[t]
    BY <2>1, SwitchPhases
  <2>3. PhaseMap' = PhaseMap
    BY <2>2 DEF PhaseMap
  <2> QED BY <2>1, <2>3 DEF UnixStep
<1>4. ASSUME KernelExit(next) PROVE UnixStep
  <2>1. control.at = "kernel" /\ ~halted /\ parent' = parent /\ rqCurr \in Offspring
    BY <1>4, KernelExitSwitch
  <2>2. PICK states : /\ SwitchTo(next, states, "exit") /\ Switchable(states, "exit")
                      /\ states[rqCurr] = "zombie"
                      /\ \A c \in Offspring : c # rqCurr => states[c] = taskState[c]
    BY <1>4, KernelExitSwitch
  <2>3. /\ \A t \in UserTasks : PhaseMap[t] = StatePhase(taskState[t])
        /\ \A t \in UserTasks : PhaseMap'[t] = StatePhase(states[t])
    BY <2>1, <2>2, SwitchPhases
  <2>4. states[Shell] \in {"ready", "wait", "vfork"} /\ taskState[rqCurr] = "ready"
    BY <2>2, <1>a DEF Switchable, TasksOK
  <2>5. /\ \A t \in UserTasks : PhaseMap'[t] = IF t = rqCurr THEN "zombie" ELSE PhaseMap[t]
        /\ PhaseMap[rqCurr] = "calling"
    BY <2>1, <2>2, <2>3, <2>4, <1>a, <1>b DEF StatePhase
  <2>6. PhaseMap' = [PhaseMap EXCEPT ![rqCurr] = "zombie"]
    BY <2>5 DEF PhaseMap
  <2> QED BY <2>1, <2>5, <2>6, <1>a, UnixMove DEF UnixStep
<1> QED BY <1>1, <1>2, <1>3, <1>4

\* Every step of the engine is a step of the process surface, or changes nothing of it.
LEMMA NextUnix ==
  ASSUME ReleaseGates, ScheduledInv, ScheduledInv', [Next]_vars
  PROVE  [Unix!UpNext]_(Unix!upVars)
<1>1. CASE UNCHANGED vars
  <2>1. UNCHANGED <<control, forkConts, taskState, rqCurr, parent>>
    BY <1>1 DEF vars, forkVars, kernelVars
  <2>2. PhaseMap' = PhaseMap
    BY <2>1, RunnerMoves
  <2> QED BY <2>1, <2>2 DEF Unix!upVars, PhaseMap
<1>2. CASE Next
  <2>1. UnixStep
    BY <1>2, UserCalls, CallbackCalls, CallReturns, TransferUnseen, ReturnsToUser,
       KernelCompletes, KernelClones, KernelReaps, KernelSwitches DEF Next
  <2> QED BY <2>1 DEF UnixStep, Unix!upVars, PhaseMap
<1> QED BY <1>1, <1>2

\* The runner's process surface keeps the promise of UnixProcesses: what a task's fork,
\* exec, wait or other call did in the kernel is what its own program sees, whichever
\* activations its run was nested under.
THEOREM Refinement == ASSUME ReleaseGates PROVE Spec => ImplementsUnixProcesses
<1>1. Init => Unix!UpInit
  <2> SUFFICES ASSUME Init PROVE Unix!UpInit
    OBVIOUS
  <2>1. ScheduledInv
    <3>1. TransferScoped
      BY DEF Init, TransferScoped
    <3> QED BY <3>1, InitType, InitBookkeeping, InitNesting DEF ScheduledInv, TransferInv
  <2>2. rqCurr = Shell /\ control = UserCode(Shell) /\ parent = [t \in Tasks |-> NoTask]
        /\ taskState \in {[t \in Tasks |-> IF t = Shell \/ t \in started THEN "ready"
                                       ELSE IF t \in KThreads THEN "new" ELSE "none"]
                           : started \in SUBSET KThreads}
    BY DEF Init
  <2>3. PlacePhase(control) = "running"
    BY <2>2 DEF UserCode, Place, PlacePhase
  <2>4. \A t \in UserTasks : t # Shell => taskState[t] = "none"
    BY <2>2, TasksAssumption DEF Tasks
  <2>5. \A t \in UserTasks : Phase(t) = IF t = Shell THEN "running" ELSE "absent"
    BY <2>1, <2>2, <2>3, <2>4, PhaseValue DEF StatePhase
  <2>6. \A t \in UserTasks : parent[t] = NoTask
    BY <2>2 DEF Tasks
  <2> QED BY <2>5, <2>6 DEF Unix!UpInit
<1>2. ScheduledInv /\ ScheduledInv' /\ [Next]_vars => [Unix!UpNext]_(Unix!upVars)
  BY NextUnix
<1> QED BY <1>1, <1>2, Nesting, PTL DEF Spec, ImplementsUnixProcesses, Unix!UpSpec

=============================================================================
