--------------------------- MODULE SemanticCalls ---------------------------
(***************************************************************************)
(* The boot runner executes every userspace system call as a "semantic     *)
(* call": a Python activation of _call_linux_function_preserving_control   *)
(* that saves the machine's control state, enters a guest Linux function   *)
(* on an arena of its own and re-runs the one virtual machine until it     *)
(* halts.  A guest scheduler may switch to another task underneath that    *)
(* run, and the other task's system calls nest further activations on the  *)
(* same Python stack, whoever they belong to.                              *)
(*                                                                         *)
(* Modelled here: the stack of activations and what each one saves and     *)
(* restores, the three redundant depth tables, the arenas, the service-2   *)
(* context switch, the service-3 return to userspace, the non-returning    *)
(* transfers of exec and exit, fork and waitpid as the libc surface of the *)
(* runner implements them.  The Linux scheduler, clone, wait4 and do_exit  *)
(* are guest code outside this repository: they are reduced to which task  *)
(* may run next and which task is blocked on what.                         *)
(***************************************************************************)
EXTENDS Integers, Sequences, FiniteSets

CONSTANTS
  UserTasks,        \* task_struct addresses of userspace tasks
  KThreads,         \* task_struct addresses of kernel threads
  Shell,            \* the userspace task that boot has started
  NoTask,           \* the null task pointer
  Forkers,          \* the userspace tasks whose program may fork
  IoYields,         \* whether the kernel may yield inside an ordinary call
  ComparatorCalls,  \* whether a qsort comparator makes such calls itself
  RecycleTasks,     \* whether a reaped task_struct may be allocated again
  MaxDepth,         \* bound on nested activations (Python has its own)
  ScheduleRounds,   \* schedule() drives of one waitpid (8 in the code)
  ForkRestarts      \* retries of an interrupted clone (3 in the code)

Tasks == UserTasks \cup KThreads

ASSUME TasksAssumption ==
  /\ UserTasks \cap KThreads = {}
  /\ Shell \in UserTasks
  /\ NoTask \notin Tasks
  /\ Forkers \subseteq UserTasks
  /\ IoYields \in BOOLEAN
  /\ ComparatorCalls \in BOOLEAN
  /\ RecycleTasks \in BOOLEAN
ASSUME BoundsAssumption ==
  /\ MaxDepth \in Nat
  /\ ScheduleRounds \in Nat
  /\ ForkRestarts \in Nat

VARIABLES
  control,       \* where the machine executes: (sp, pc), named by its frame chain
  halted,        \* vm.halted
  calls,         \* the Python stack of semantic-call activations
  callDepth,     \* vm._preserved_call_depth
  callTasks,     \* vm._preserved_call_tasks
  taskDepths,    \* vm._preserved_task_depths (0 for an absent key)
  stopDepth,     \* vm._preserved_transfer_stop_depth, NoStop while no transfer is armed
  exitTask,      \* vm._user_exit_task
  contexts,      \* vm.linux_task_contexts
  linuxCurrent,  \* vm.linux_current_task
  activeUser,    \* vm.active_user_task
  pending,       \* vm.pending_user_fork_continuation: the forking task
  forkConts,     \* vm.linux_user_fork_continuations: child -> forking task
  kernelCurrent, \* the guest cell minimachine_current_task
  rqCurr,        \* the scheduler's rq->curr, which service 2 sees as prev
  taskState,     \* the scheduler's view of each task
  parent,        \* real_parent of each task
  vforkDone      \* tasks whose parent is held in vfork until they exec or exit

hostVars   == <<calls, callDepth, callTasks, taskDepths>>
transferVars == <<stopDepth, exitTask>>
forkVars   == <<pending, forkConts>>
kernelVars == <<rqCurr, taskState, parent, vforkDone>>
vars == <<control, halted, hostVars, transferVars, contexts, linuxCurrent,
          activeUser, forkVars, kernelCurrent, kernelVars>>
-----------------------------------------------------------------------------
(***************************************************************************)
(* Frame chains.  A chain is named by the stack its frames lie on: the P3  *)
(* user stack (one for all tasks of a CLONE_VM family), a task's shadow    *)
(* stack, or the arena (task, level) of a semantic call.                   *)
(***************************************************************************)
NoStop == -1
Shadow == -1
UserStack == [task |-> NoTask, level |-> -2]
ShadowStack(t) == [task |-> t, level |-> Shadow]
Stacks == [task : Tasks \cup {NoTask}, level : Int]

\* What a frame chain is executing.
Ops == {"none", "io", "exec", "exit", "fork", "vfork", "cloned", "schedule",
        "trap", "wait4", "compare", "waitpid", "kthread", "ret_from_fork"}

\* at: user code, kernel code, inside a host callback, or returned to halt_code.
Control == [at : {"user", "kernel", "host", "returned"},
            task : Tasks, stack : Stacks, op : Ops, n : Nat]

Place(at, t, stack, op, n) ==
  [at |-> at, task |-> t, stack |-> stack, op |-> op, n |-> n]
UserCode(t) == Place("user", t, UserStack, "none", 0)

Context == [stack : Stacks, op : Ops]
NoContext == [stack |-> UserStack, op |-> "none"]

TaskStates == {"none", "new", "ready", "wait", "vfork", "zombie", "dead"}

\* The results of a guest function that the host callbacks tell apart.
Succeeded == 0
Failed == 1
Restart == 2
-----------------------------------------------------------------------------
(***************************************************************************)
(* Semantic-call arenas.  The level starts at the number of the task's     *)
(* live activations and skips an arena that holds the task's recorded      *)
(* scheduler continuation; a task has one recorded continuation, so the    *)
(* loop of the code skips at most once.                                    *)
(***************************************************************************)
ArenaLevel(t) ==
  LET depth == taskDepths[t]
  IN  IF contexts[t].stack = [task |-> t, level |-> depth] THEN depth + 1 ELSE depth

\* call_tasks is truncated or padded to the numeric depth before it is pushed.
SyncedCallTasks(owner) ==
  [i \in 1..callDepth |-> IF i <= Len(callTasks) THEN callTasks[i] ELSE owner]

\* active_user_task, or linux_current_task when there is none.
ActiveTask == IF activeUser # NoTask THEN activeUser ELSE linuxCurrent

BeginCall(op, owner, preserve, cell, entry, resume) ==
  LET stack == [task |-> owner, level |-> ArenaLevel(owner)]
  IN  /\ Len(calls) < MaxDepth
      /\ calls' = Append(calls,
           [op |-> op, owner |-> owner, stack |-> stack, preserve |-> preserve,
            prevDepth |-> callDepth, taskDepth |-> taskDepths[owner],
            resume |-> resume, current |-> cell, contexts |-> contexts,
            active |-> activeUser])
      /\ callDepth' = callDepth + 1
      /\ callTasks' = Append(SyncedCallTasks(owner), owner)
      /\ taskDepths' = [taskDepths EXCEPT ![owner] = @ + 1]
      /\ control' = Place(entry, IF entry = "user" THEN control.task ELSE cell,
                           stack, op, 0)
      /\ halted' = FALSE
      /\ kernelCurrent' = cell
      /\ UNCHANGED <<stopDepth, contexts, activeUser, kernelVars>>
-----------------------------------------------------------------------------
(***************************************************************************)
(* Userspace code calling an external function.  The callback wrapper      *)
(* first makes the active userspace task the kernel's current task.        *)
(***************************************************************************)
InUserCode == control.at = "user" /\ ~halted

SystemCall(op) ==
  /\ InUserCode
  /\ control.stack = UserStack \/ (ComparatorCalls /\ op = "io")
  /\ op = "exit" => control.task # Shell
  /\ BeginCall(op, ActiveTask, FALSE, ActiveTask, "kernel", control)
  /\ linuxCurrent' = ActiveTask
  /\ exitTask' = IF op = "exit" THEN ActiveTask ELSE exitTask
  /\ UNCHANGED forkVars

QsortCompare ==
  /\ InUserCode
  /\ control.stack = UserStack \/ ComparatorCalls
  /\ BeginCall("compare", ActiveTask, FALSE, ActiveTask, "user", control)
  /\ linuxCurrent' = ActiveTask
  /\ UNCHANGED <<exitTask, forkVars>>

\* A second fork before the first child has run raises and ends the run.
UserFork(op) ==
  /\ InUserCode /\ control.stack = UserStack
  /\ control.task \in Forkers
  /\ pending = NoTask
  /\ pending' = control.task
  /\ BeginCall(op, ActiveTask, TRUE, ActiveTask, "kernel",
               Place("host", control.task, UserStack, op, 0))
  /\ linuxCurrent' = ActiveTask
  /\ UNCHANGED <<exitTask, forkConts>>

UserWaitpid ==
  /\ InUserCode /\ control.stack = UserStack
  /\ control' = Place("host", control.task, UserStack, "waitpid", 0)
  /\ linuxCurrent' = ActiveTask
  /\ kernelCurrent' = ActiveTask
  /\ UNCHANGED <<halted, hostVars, transferVars, contexts, activeUser,
                 forkVars, kernelVars>>
-----------------------------------------------------------------------------
(***************************************************************************)
(* The rest of the host callbacks of fork and waitpid.                     *)
(***************************************************************************)
InHostCallback(ops) == control.at = "host" /\ control.op \in ops

ForkRetry ==
  /\ InHostCallback({"fork", "vfork"})
  /\ BeginCall(control.op, ActiveTask, TRUE, kernelCurrent, "kernel", control)
  /\ UNCHANGED <<exitTask, linuxCurrent, forkVars>>

MustDriveScheduler == pending # NoTask /\ control.n < ScheduleRounds

WaitpidSchedule ==
  /\ InHostCallback({"waitpid"})
  /\ MustDriveScheduler
  /\ BeginCall("schedule", IF linuxCurrent # NoTask THEN linuxCurrent ELSE ActiveTask,
               TRUE, kernelCurrent, "kernel", [control EXCEPT !.n = @ + 1])
  /\ UNCHANGED <<exitTask, linuxCurrent, forkVars>>

\* The architecture's entry point does not dispatch wait4: it answers -ENOSYS,
\* and user_syscall falls back on the kernel's own entry.
WaitpidTrap ==
  /\ InHostCallback({"waitpid"})
  /\ ~MustDriveScheduler
  /\ BeginCall("trap", ActiveTask, FALSE, kernelCurrent, "kernel",
               Place("host", control.task, UserStack, "wait4", 0))
  /\ UNCHANGED <<exitTask, linuxCurrent, forkVars>>

WaitpidWait4 ==
  /\ InHostCallback({"wait4"})
  /\ BeginCall("wait4", ActiveTask, TRUE, kernelCurrent, "kernel",
               UserCode(control.task))
  /\ UNCHANGED <<exitTask, linuxCurrent, forkVars>>
-----------------------------------------------------------------------------
(***************************************************************************)
(* The end of the innermost activation: its vm.run() returns because the   *)
(* machine halted, whichever guest function returned to halt_code.         *)
(***************************************************************************)
Top == calls[Len(calls)]
InTransferAbove == stopDepth # NoStop /\ Top.prevDepth > stopDepth  \* mutant
InTransfer == stopDepth # NoStop /\ Top.prevDepth + 1 > stopDepth

PopCallTwice ==                                                    \* mutant
  /\ calls' = SubSeq(calls, 1, Len(calls) - 1)
  /\ callDepth' = Top.prevDepth - 1
  /\ callTasks' = SubSeq(callTasks, 1, Len(callTasks) - 1)
  /\ taskDepths' = [taskDepths EXCEPT ![Top.owner] = Top.taskDepth]
PopCallLeak ==                                                     \* mutant
  /\ calls' = SubSeq(calls, 1, Len(calls) - 1)
  /\ callDepth' = Top.prevDepth
  /\ callTasks' = SubSeq(callTasks, 1, Len(callTasks) - 1)
  /\ taskDepths' = IF stopDepth # NoStop THEN taskDepths
                   ELSE [taskDepths EXCEPT ![Top.owner] = Top.taskDepth]
PopCall ==
  /\ calls' = SubSeq(calls, 1, Len(calls) - 1)
  /\ callDepth' = Top.prevDepth
  /\ callTasks' = IF callTasks = <<>> THEN <<>>
                  ELSE SubSeq(callTasks, 1, Len(callTasks) - 1)
  /\ taskDepths' = [taskDepths EXCEPT ![Top.owner] = Top.taskDepth]

IsFork(rec) == rec.op \in {"fork", "vfork"}
RetriesFork(rec) ==
  /\ IsFork(rec)
  /\ control.n = Restart
  /\ pending = rec.resume.task
  /\ rec.resume.n < ForkRestarts

AfterCallForkAgain(rec) == rec.resume                              \* mutant
AfterCall(rec) ==
  IF RetriesFork(rec) THEN [rec.resume EXCEPT !.n = @ + 1]
  ELSE IF IsFork(rec) THEN UserCode(rec.resume.task)
  ELSE rec.resume

PendingAfterCallKept(rec) == pending                               \* mutant
PendingAfterCall(rec) ==
  IF /\ IsFork(rec) /\ ~RetriesFork(rec)
     /\ control.n # Succeeded
     /\ pending = rec.resume.task
  THEN NoTask ELSE pending

FinishReturn ==
  /\ halted /\ calls # <<>> /\ ~InTransfer
  /\ PopCall
  /\ control' = AfterCall(Top)
  /\ pending' = PendingAfterCall(Top)
  /\ halted' = FALSE
  /\ kernelCurrent' = IF Top.preserve THEN kernelCurrent ELSE Top.current
  /\ contexts' = IF Top.preserve THEN contexts ELSE Top.contexts
  /\ activeUser' = Top.active
  /\ UNCHANGED <<transferVars, linuxCurrent, forkConts, kernelVars>>

\* At the boundary of a transfer the flag is dropped and the machine goes on
\* in the run of the activation below; above it the unwinding continues.
FinishTransfer ==
  /\ halted /\ calls # <<>> /\ InTransfer
  /\ PopCall
  /\ stopDepth' = IF Top.prevDepth = stopDepth THEN NoStop ELSE stopDepth
  /\ halted' = (Top.prevDepth # stopDepth)
  /\ UNCHANGED <<control, exitTask, contexts, linuxCurrent, activeUser,
                 forkVars, kernelCurrent, kernelVars>>
-----------------------------------------------------------------------------
(***************************************************************************)
(* _arm_preserved_task_transfer: a task that execs or exits unwinds the    *)
(* suffix of activations it owns, down to the first one owned by another.  *)
(***************************************************************************)
IsStopDepthAll(d, t) == d = 0                                      \* mutant
IsStopDepth(d, t) ==
  /\ \A i \in d + 1 .. callDepth : callTasks[i] = t
  /\ d > 0 => callTasks[d] # t

ArmTransferNever(t) == stopDepth' = stopDepth /\ halted' = FALSE    \* mutant
ArmTransfer(t) ==
  \/ /\ callDepth > 0 => callTasks[callDepth] # t
     /\ stopDepth' = stopDepth
     /\ halted' = FALSE
  \/ \E d \in 0 .. callDepth - 1 :
        /\ IsStopDepth(d, t)
        /\ stopDepth' = d
        /\ halted' = TRUE

(***************************************************************************)
(* Service 2.  The scheduler has picked next; __switch_to has written the  *)
(* current-task cell; the host records where the previous task continues   *)
(* and either resumes the next one or enters minimachine_ret_from_fork on  *)
(* the next task's shadow stack.  The first run of a user task takes the   *)
(* pending fork continuation, whichever task that is.                      *)
(***************************************************************************)
TakesContinuation(next) ==
  contexts[next] = NoContext /\ next \in UserTasks /\ pending # NoTask

SwitchTo(next, states, op) ==
  /\ next # rqCurr /\ states[next] \in {"new", "ready"}
  /\ contexts' = [contexts EXCEPT ![rqCurr] = [stack |-> control.stack, op |-> op]]
  /\ control' = IF contexts[next] # NoContext
                THEN Place("kernel", next, contexts[next].stack, contexts[next].op, 0)
                ELSE Place("kernel", next, ShadowStack(next),
                           IF next \in KThreads THEN "kthread" ELSE "ret_from_fork", 0)
  /\ forkConts' = IF TakesContinuation(next)
                  THEN [forkConts EXCEPT ![next] = pending] ELSE forkConts
  /\ pending' = IF TakesContinuation(next) THEN NoTask ELSE pending
  /\ IF exitTask # NoTask /\ exitTask = rqCurr
     THEN ArmTransfer(rqCurr) /\ exitTask' = NoTask
     ELSE halted' = FALSE /\ UNCHANGED transferVars
  /\ linuxCurrent' = next
  /\ activeUser' = next
  /\ kernelCurrent' = next
  /\ rqCurr' = next
  /\ taskState' = [states EXCEPT ![next] = "ready"]
  /\ UNCHANGED hostVars

(***************************************************************************)
(* Service 3.  A first-run user child resumes the continuation it was      *)
(* given, with fork returning zero; any other task starts the image that   *)
(* exec installed, and its own activations are unwound.                    *)
(***************************************************************************)
InKernel(ops) == control.at = "kernel" /\ ~halted /\ control.op \in ops

ForkChildReturn ==
  /\ InKernel({"ret_from_fork", "exec"})
  /\ forkConts[linuxCurrent] # NoTask
  /\ forkConts' = [forkConts EXCEPT ![linuxCurrent] = NoTask]
  /\ control' = UserCode(linuxCurrent)
  /\ activeUser' = linuxCurrent
  /\ kernelCurrent' = linuxCurrent
  /\ UNCHANGED <<halted, hostVars, transferVars, contexts, linuxCurrent,
                 pending, kernelVars>>

\* mm_release(): an exec or exit lets a parent held in vfork run again.
ReleaseVfork(states, t) ==
  [u \in Tasks |-> IF t \in vforkDone /\ u = parent[t] /\ states[u] = "vfork"
                   THEN "ready" ELSE states[u]]

ExecHandoff ==
  /\ InKernel({"ret_from_fork", "exec"})
  /\ forkConts[linuxCurrent] = NoTask
  /\ taskState' = ReleaseVfork(taskState, kernelCurrent)
  /\ vforkDone' = vforkDone \ {kernelCurrent}
  /\ control' = UserCode(linuxCurrent)
  /\ activeUser' = linuxCurrent
  /\ kernelCurrent' = linuxCurrent
  /\ ArmTransfer(linuxCurrent)
  /\ UNCHANGED <<hostVars, exitTask, contexts, linuxCurrent, forkVars,
                 rqCurr, parent>>
-----------------------------------------------------------------------------
(***************************************************************************)
(* Linux underneath the calls: external to the repository, reduced to what *)
(* the runner's bookkeeping depends on.                                    *)
(***************************************************************************)
Return(outcome) ==
  /\ control' = [control EXCEPT !.at = "returned", !.n = outcome]
  /\ halted' = TRUE
  /\ UNCHANGED <<hostVars, transferVars, contexts, linuxCurrent, activeUser,
                 forkVars, kernelCurrent, rqCurr, parent, vforkDone>>

KernelReturn(outcome) ==
  /\ \/ InKernel({"io", "schedule", "cloned", "wait4"}) /\ outcome = Succeeded
     \/ InKernel({"exec", "trap"}) /\ outcome = Failed
     \/ InKernel({"fork", "vfork"}) /\ outcome \in {Failed, Restart}
  /\ Return(outcome)
  /\ UNCHANGED taskState

ComparatorReturn ==
  /\ InUserCode /\ control.op = "compare"
  /\ Return(Succeeded)
  /\ UNCHANGED taskState

Allocatable(c) ==
  /\ c \in UserTasks
  /\ taskState[c] = "none" \/ (RecycleTasks /\ taskState[c] = "dead")

KernelFork(child) ==
  /\ InKernel({"fork"})
  /\ Allocatable(child)
  /\ taskState' = [taskState EXCEPT ![child] = "new"]
  /\ parent' = [parent EXCEPT ![child] = kernelCurrent]
  /\ control' = [control EXCEPT !.op = "cloned"]
  /\ UNCHANGED <<halted, hostVars, transferVars, contexts, linuxCurrent,
                 activeUser, forkVars, kernelCurrent, rqCurr, vforkDone>>

KernelVfork(child, next) ==
  /\ InKernel({"vfork"})
  /\ Allocatable(child)
  /\ parent' = [parent EXCEPT ![child] = kernelCurrent]
  /\ vforkDone' = vforkDone \cup {child}
  /\ SwitchTo(next, [taskState EXCEPT ![child] = "new", ![kernelCurrent] = "vfork"],
              "cloned")

Children(t, states) == {c \in UserTasks : parent[c] = t /\ taskState[c] \in states}

KernelReap(child) ==
  /\ InKernel({"wait4"})
  /\ child \in Children(kernelCurrent, {"zombie"})
  /\ taskState' = [taskState EXCEPT ![child] = "dead"]
  /\ Return(Succeeded)

KernelWaitBlock(next) ==
  /\ InKernel({"wait4"})
  /\ Children(kernelCurrent, {"zombie"}) = {}
  /\ Children(kernelCurrent, {"new", "ready", "wait", "vfork"}) # {}
  /\ SwitchTo(next, [taskState EXCEPT ![kernelCurrent] = "wait"], "wait4")
  /\ UNCHANGED <<parent, vforkDone>>

KernelYield(next) ==
  /\ InKernel({"schedule", "kthread"} \cup (IF IoYields THEN {"io", "trap"} ELSE {}))
  /\ SwitchTo(next, taskState, control.op)
  /\ UNCHANGED <<parent, vforkDone>>

\* exit_notify() wakes a parent in wait4, mm_release() one in vfork.
KernelExit(next) ==
  /\ InKernel({"exit"}) /\ kernelCurrent # Shell   \* init's exit is a panic
  /\ LET dying == [ReleaseVfork(taskState, kernelCurrent) EXCEPT ![kernelCurrent] = "zombie"]
         p == parent[kernelCurrent]
         woken == [u \in Tasks |-> IF u = p /\ dying[u] = "wait" THEN "ready"
                                   ELSE dying[u]]
     IN  SwitchTo(next, woken, "exit")
  /\ vforkDone' = vforkDone \ {kernelCurrent}
  /\ UNCHANGED parent
-----------------------------------------------------------------------------
\* The state in which init's shell runs its first user instruction: kernel
\* threads exist, some of them already parked by the scheduler.
Init ==
  /\ control = UserCode(Shell)
  /\ halted = FALSE
  /\ calls = <<>>
  /\ callDepth = 0
  /\ callTasks = <<>>
  /\ taskDepths = [t \in Tasks |-> 0]
  /\ stopDepth = NoStop
  /\ exitTask = NoTask
  /\ linuxCurrent = Shell
  /\ activeUser = Shell
  /\ kernelCurrent = Shell
  /\ rqCurr = Shell
  /\ pending = NoTask
  /\ forkConts = [t \in Tasks |-> NoTask]
  /\ parent = [t \in Tasks |-> NoTask]
  /\ vforkDone = {}
  /\ \E started \in SUBSET KThreads :
       /\ taskState = [t \in Tasks |-> IF t = Shell \/ t \in started THEN "ready"
                                       ELSE IF t \in KThreads THEN "new" ELSE "none"]
       /\ contexts = [t \in Tasks |-> IF t \in started
                                      THEN [stack |-> ShadowStack(t), op |-> "kthread"]
                                      ELSE NoContext]

Next ==
  \/ \E op \in {"io", "exec", "exit"} : SystemCall(op)
  \/ QsortCompare
  \/ \E op \in {"fork", "vfork"} : UserFork(op)
  \/ UserWaitpid
  \/ ForkRetry
  \/ WaitpidSchedule
  \/ WaitpidTrap
  \/ WaitpidWait4
  \/ FinishReturn
  \/ FinishTransfer
  \/ ForkChildReturn
  \/ ExecHandoff
  \/ \E outcome \in {Succeeded, Failed, Restart} : KernelReturn(outcome)
  \/ ComparatorReturn
  \/ \E child \in UserTasks : KernelFork(child) \/ KernelReap(child)
  \/ \E child \in UserTasks, next \in Tasks : KernelVfork(child, next)
  \/ \E next \in Tasks : KernelWaitBlock(next) \/ KernelYield(next) \/ KernelExit(next)

\* Host Python is deterministic: an activation whose run has halted finishes.
HostFairness == WF_vars(FinishReturn) /\ WF_vars(FinishTransfer)

Spec == Init /\ [][Next]_vars /\ HostFairness
-----------------------------------------------------------------------------
(***************************************************************************)
(* Properties that hold whatever the scheduler and the programs do.        *)
(***************************************************************************)

CallRecord ==
  [op : Ops, owner : Tasks, stack : Stacks, preserve : BOOLEAN, prevDepth : Nat,
   taskDepth : Nat, resume : Control, current : Tasks,
   contexts : [Tasks -> Context], active : Tasks]

\* The type of every variable.
TypeOK ==
  /\ control \in Control
  /\ halted \in BOOLEAN
  /\ calls \in Seq(CallRecord)
  /\ callDepth \in Nat
  /\ callTasks \in Seq(Tasks)
  /\ taskDepths \in [Tasks -> Nat]
  /\ stopDepth \in Nat \cup {NoStop}
  /\ exitTask \in Tasks \cup {NoTask}
  /\ contexts \in [Tasks -> Context]
  /\ linuxCurrent \in Tasks
  /\ activeUser \in Tasks
  /\ pending \in Tasks \cup {NoTask}
  /\ forkConts \in [Tasks -> Tasks \cup {NoTask}]
  /\ kernelCurrent \in Tasks
  /\ rqCurr \in Tasks
  /\ taskState \in [Tasks -> TaskStates]
  /\ parent \in [Tasks -> Tasks \cup {NoTask}]
  /\ vforkDone \subseteq Tasks

\* How many of the n oldest activations belong to t.
OwnedBelow(n, t) == Cardinality({i \in 1..n : calls[i].owner = t})

\* The three tables that _call_linux_function_preserving_control keeps beside
\* the Python stack (depth, owner list, per-task depth) describe that stack at
\* every moment: normal returns, transfers and nested calls of several tasks
\* included.  The per-task depth selects the arena and the owner list decides
\* how far exec and exit unwind.
Bookkeeping ==
  /\ callDepth = Len(calls)
  /\ Len(callTasks) = Len(calls)
  /\ \A i \in 1..Len(calls) : /\ callTasks[i] = calls[i].owner
                              /\ calls[i].prevDepth = i - 1
                              /\ calls[i].taskDepth = OwnedBelow(i - 1, calls[i].owner)
  /\ \A t \in Tasks : taskDepths[t] = OwnedBelow(Len(calls), t)

\* _arm_preserved_task_transfer: an armed transfer unwinds only activations of
\* the task that execs or exits, and stops exactly at the first activation
\* below that belongs to another task; it is never left armed on a machine
\* that runs or under a host callback, where it would swallow the return of an
\* unrelated call.
TransferScoped ==
  stopDepth # NoStop =>
    /\ halted
    /\ control.at \in {"user", "kernel"}
    /\ stopDepth < callDepth
    /\ \A i \in stopDepth + 1 .. callDepth : callTasks[i] = callTasks[callDepth]
    /\ stopDepth > 0 => callTasks[stopDepth] # callTasks[callDepth]

(***************************************************************************)
(* Properties of the environment the release gates exercise: children run  *)
(* to completion once scheduled, and do not fork.                          *)
(***************************************************************************)

\* The vm.run() that a halt ends is the run of the call whose guest function
\* returned: Python's stack of activations and the guest's chains of frames
\* are unwound in the same order.
HaltDelivered ==
  control.at = "returned" => calls # <<>> /\ Top.stack = control.stack

\* Userspace code always runs as the task whose program it is, and the four
\* notions of the current task (active_user_task, linux_current_task, the
\* guest's minimachine_current_task and the runqueue's curr) agree where the
\* code relies on them.
IdentitiesAgree ==
  /\ control.at = "user" => activeUser = control.task /\ rqCurr = control.task
  /\ control.at = "kernel" => /\ control.task = rqCurr
                              /\ kernelCurrent = rqCurr
                              /\ linuxCurrent = rqCurr

\* Every task the scheduler may pick again can be resumed: the host still
\* holds its continuation, and when that lies in an arena the activation
\* whose run must see its return is still on the Python stack.
ContinuationsLive ==
  \A t \in Tasks :
    t # rqCurr /\ taskState[t] \in {"ready", "wait", "vfork"} =>
      /\ contexts[t] # NoContext
      /\ contexts[t].stack.level >= 0 =>
           \E i \in 1..Len(calls) : calls[i].stack = contexts[t].stack

\* A fork continuation reaches exactly the child it was made for: while a
\* child has not run its parent's continuation is the pending one, the child's
\* first run takes it, and a clone that made no child leaves none behind.
ForkContinuationsMatched ==
  /\ \A c \in UserTasks : taskState[c] = "new" => pending = parent[c]
  /\ \A c \in UserTasks : forkConts[c] # NoTask => forkConts[c] = parent[c]
  /\ control.op = "ret_from_fork" => forkConts[control.task] # NoTask
  /\ pending # NoTask =>
       \/ \E c \in UserTasks : taskState[c] = "new" /\ parent[c] = pending
       \/ \E i \in 1..Len(calls) : IsFork(calls[i]) /\ calls[i].owner = pending
       \/ InHostCallback({"fork", "vfork"})

\* "If this task is running inside another task's blocking wait/vfork call,
\* unwind only the current-task suffix; keep the outer waiter alive": a
\* transfer never pops an activation of a task that is blocked in the kernel.
WaitersSurviveTransfers ==
  [][(stopDepth # NoStop /\ Len(calls') < Len(calls))
       => taskState[Top.owner] \notin {"wait", "vfork"}]_vars

\* An armed transfer is carried out: the unwinding reaches its boundary.
TransfersComplete == stopDepth # NoStop ~> stopDepth = NoStop
-----------------------------------------------------------------------------
(***************************************************************************)
(* The refinement: which phase of UnixProcesses each task is in.           *)
(***************************************************************************)
Phase(t) ==
  LET inUserCode == control.at = "user" /\ control.task = t /\ control.stack = UserStack
      completed == control.at = "returned" /\ control.task = t /\ control.op # "compare"
  IN  CASE taskState[t] = "none" -> "absent"
        [] taskState[t] = "new" \/ forkConts[t] # NoTask -> "unstarted"
        [] taskState[t] = "zombie" -> "zombie"
        [] taskState[t] = "dead" -> "reaped"
        [] OTHER -> IF inUserCode THEN "running"
                    ELSE IF completed THEN "completed" ELSE "calling"

Unix == INSTANCE UnixProcesses WITH
          Processes <- UserTasks,
          phase <- [t \in UserTasks |-> Phase(t)]

\* The runner's process surface keeps the promise of UnixProcesses: what a
\* task's fork, exec, wait or other call did in the kernel is what its own
\* program sees, whichever activations its run was nested under.
ImplementsUnixProcesses == Unix!UpSpec
=============================================================================
