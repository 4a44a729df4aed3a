------------------------------ MODULE ForkWait ------------------------------
(***************************************************************************)
(* fork, vfork, waitpid and exit of userspace programs, as the boot runner *)
(* provides them on a kernel without memory protection.                    *)
(*                                                                         *)
(* A child starts on the P3 frames of its parent: it continues where fork  *)
(* was called, in the same memory.  The runner copies the frames of a      *)
(* parent before it enters the kernel and puts them back afterwards.  It   *)
(* also keeps a record of every exit of a task whose pid it has seen, for  *)
(* a waitpid that the kernel cannot answer.                                *)
(*                                                                         *)
(* The frames are those of the function that forks (`program`, of which we *)
(* keep the local values and the slot for the result of fork) and of the   *)
(* library call it makes (`call`).  A child leaves them by exec.  Tasks    *)
(* change only when the running task is in the kernel.  The pid of a child *)
(* is the child itself; no task address is used twice.                     *)
(***************************************************************************)
EXTENDS Naturals, SequencesExt

CONSTANTS Parent,          \* the task that forks and waits
          Children,        \* the tasks that it may create
          Statuses,        \* exit statuses
          NoChild,         \* no pid: the answer of an error, and waitpid(-1)
          ForkRestarts,    \* how often an interrupted clone is tried again
          ScheduleRounds   \* how often waitpid drives the scheduler

ASSUME TasksDiffer == Parent \notin Children /\ NoChild \notin Children

VARIABLES
  frames,     \* the frames on which the parent forks
  expects,    \* what a task finds in `program` if nobody interferes
  running,    \* the task that has the machine
  mode,       \* what each task is doing
  kind,       \* the call that created each child
  shares,     \* the children that run on `frames`
  pending,    \* pending_user_fork_continuation is set
  armed,      \* the tasks in linux_user_fork_continuations
  call,       \* the local variables of the parent's fork or waitpid
  known,      \* the tasks in user_task_pids
  exits,      \* user_wait_exits
  status,     \* the status with which each child has exited
  reported,   \* the children that a waitpid has returned
  kernel      \* what the kernel does for a waitpid

forkVars == <<kind, pending, armed>>
exitVars == <<known, exits, status, reported>>
vars == <<frames, expects, running, mode, shares, call, kernel, forkVars, exitVars>>

Tasks == {Parent} \cup Children
InUser(t) == running = t /\ mode[t] = "user"
InKernel(t, m) == running = t /\ mode[t] = m
Become(t, m) == mode' = [mode EXCEPT ![t] = m]

-----------------------------------------------------------------------------
(* Frames.                                                                 *)

OnFrames(t) == t = Parent \/ t \in shares

\* The values of a program that has done nothing yet.
Unset == [locals |-> <<Parent, 0>>, result |-> "none"]

\* A task calls the library: the frame of the call is laid below its own.
Laid(t, name) ==
  IF OnFrames(t) THEN [frames EXCEPT !.call = <<t, name>>] ELSE frames

\* _restore_p3_call_chain: every frame of the chain is written back.
RestoredCall(now, saved) == [now EXCEPT !.call = saved.call] \* mutant
Restored(now, saved) == saved

\* The program of a task changes one of its values.
Store(t) ==
  /\ InUser(t) /\ OnFrames(t)
  /\ LET value == <<t, IF expects[t].locals = <<t, 0>> THEN 1 ELSE 0>>
     IN /\ frames' = [frames EXCEPT !.program.locals = value]
        /\ expects' = [expects EXCEPT ![t].locals = value]
  /\ UNCHANGED <<running, mode, shares, call, kernel, forkVars, exitVars>>

-----------------------------------------------------------------------------
(* fork and vfork.                                                         *)

NotCalled == [name |-> "none", saved |-> << >>, count |-> 0, pid |-> NoChild,
              nohang |-> FALSE, error |-> "none", status |-> 0]

\* A fork whose predecessor has not started yet stops the machine.
Fork(k) ==
  /\ InUser(Parent) /\ ~pending
  /\ pending' = TRUE
  /\ frames' = Laid(Parent, "fork")
  /\ call' = [NotCalled EXCEPT !.name = k, !.saved = frames']
  /\ Become(Parent, "clone")
  /\ UNCHANGED <<expects, running, kind, shares, armed, kernel, exitVars>>

\* Outside the repository: the kernel has made a task.
CloneCreate(c) ==
  /\ InKernel(Parent, "clone") /\ mode[c] = "none"
  /\ mode' = [mode EXCEPT ![Parent] = "cloned", ![c] = "new"]
  /\ kind' = [kind EXCEPT ![c] = [name |-> call.name, alone |-> shares = {}]]
  /\ expects' = [expects EXCEPT ![c] = [frames.program EXCEPT !.result = "child"]]
  /\ shares' = shares \cup {c}
  /\ call' = [call EXCEPT !.pid = c]
  /\ UNCHANGED <<frames, running, pending, armed, kernel, exitVars>>

\* CLONE_VFORK is among the flags of vfork only: its caller is held in the
\* kernel while the child runs on its frames.
Unheld(name, child) == TRUE \* mutant
Released(name, child) ==
  name = "vfork" => mode[child] \in {"zombie", "gone"} \/ child \notin shares

CloneReturn ==
  /\ InKernel(Parent, "cloned") /\ Released(call.name, call.pid)
  /\ frames' = Restored(frames, call.saved)
  /\ Become(Parent, "return")
  /\ UNCHANGED <<expects, running, shares, call, kernel, forkVars, exitVars>>

\* An interrupted clone is tried again, unless a child has taken the
\* continuation; a clone that fails drops it.
CloneRestart ==
  /\ InKernel(Parent, "clone") /\ call.count < ForkRestarts
  /\ frames' = Restored(frames, call.saved)
  /\ call' = [call EXCEPT !.saved = frames', !.count = @ + 1]
  /\ UNCHANGED <<expects, running, mode, shares, kernel, forkVars, exitVars>>

CloneFail ==
  /\ InKernel(Parent, "clone")
  /\ frames' = Restored(frames, call.saved)
  /\ call' = [call EXCEPT !.error = "failed"]
  /\ pending' = FALSE
  /\ Become(Parent, "return")
  /\ UNCHANGED <<expects, running, kind, shares, armed, kernel, exitVars>>

\* The callback is over: the machine writes the result where the frame of the
\* call says and goes on in the program.
Return ==
  /\ InKernel(Parent, "return")
  /\ frames' = [frames EXCEPT !.program.result = "parent"]
  /\ expects' = [expects EXCEPT ![Parent].result = "parent"]
  /\ call' = NotCalled
  /\ Become(Parent, "user")
  /\ UNCHANGED <<running, shares, kernel, forkVars, exitVars>>

-----------------------------------------------------------------------------
(* Task switches.                                                          *)

Children4(pid) == {c \in Children : /\ mode[c] \notin {"none", "gone"}
                                    /\ pid \in {c, NoChild}}
Zombies(pid) == {c \in Children4(pid) : mode[c] = "zombie"}
Blocked == /\ mode[Parent] = "wait4" /\ ~call.nohang /\ kernel.wait4
           /\ Children4(call.pid) # {} /\ Zombies(call.pid) = {}

\* A task leaves the machine in schedule(): on the way out of a call, in a
\* call that waits, or because it is dead.
MayLeave(t) ==
  \/ mode[t] \in {"cloned", "drive", "sys", "zombie", "gone"}
  \/ t = Parent /\ Blocked
MayResume(t) ==
  \/ mode[t] \in {"drive", "sys", "started"}
  \/ t = Parent /\ mode[t] = "cloned" /\ Released(call.name, call.pid)
  \/ t = Parent /\ mode[t] = "wait4" /\ ~Blocked

SwitchTo(t) ==
  /\ t # running /\ MayLeave(running) /\ MayResume(t)
  /\ running' = t
  /\ UNCHANGED <<frames, expects, mode, shares, call, kernel, forkVars, exitVars>>

\* The first switch to a child: it takes the pending continuation.
FirstRun(c) ==
  /\ c # running /\ MayLeave(running) /\ mode[c] = "new"
  /\ running' = c
  /\ armed' = IF pending THEN armed \cup {c} ELSE armed
  /\ pending' = FALSE
  /\ Become(c, "started")
  /\ UNCHANGED <<frames, expects, kind, shares, call, kernel, exitVars>>

\* The return of the child to userspace, in the frame that called fork.
ChildReturn(c) ==
  /\ InKernel(c, "started") /\ c \in armed
  /\ armed' = armed \ {c}
  /\ frames' = [frames EXCEPT !.program.result = "child"]
  /\ Become(c, "user")
  /\ UNCHANGED <<expects, running, kind, shares, pending, call, kernel, exitVars>>

-----------------------------------------------------------------------------
(* What a child does.                                                      *)

\* The runner learns the pid of a task from its own getpid.
GetPid(c) ==
  /\ InUser(c) /\ c \notin known
  /\ known' = known \cup {c}
  /\ frames' = Laid(c, "getpid")
  /\ UNCHANGED <<expects, running, mode, shares, call, kernel, forkVars,
                 exits, status, reported>>

\* A call in which other tasks may run.
BlockingCall(c) ==
  /\ InUser(c)
  /\ frames' = Laid(c, "sys")
  /\ Become(c, "sys")
  /\ UNCHANGED <<expects, running, shares, call, kernel, forkVars, exitVars>>

BlockingReturn(c) ==
  /\ InKernel(c, "sys")
  /\ Become(c, "user")
  /\ UNCHANGED <<frames, expects, running, shares, call, kernel, forkVars, exitVars>>

\* The child no longer runs on the frames.
Leave(c) ==
  /\ shares' = shares \ {c}
  /\ expects' = [expects EXCEPT ![c] = Unset]

\* exec enters the new program on a stack of its own.
Exec(c) ==
  /\ InUser(c) /\ c \in shares
  /\ frames' = Laid(c, "execve")
  /\ Leave(c)
  /\ UNCHANGED <<running, mode, call, kernel, forkVars, exitVars>>

Record(c, s) == [pid |-> c, status |-> s, task |-> c]

RecordedFirst(c, s) == IF c \in known /\ exits = << >> THEN <<Record(c, s)>> ELSE exits \* mutant
Recorded(c, s) ==
  IF c \in known /\ \A i \in DOMAIN exits : exits[i].task # c
  THEN Append(exits, Record(c, s))
  ELSE exits

Exit(c, s) ==
  /\ InUser(c)
  /\ frames' = Laid(c, "exit")
  /\ exits' = Recorded(c, s)
  /\ status' = [status EXCEPT ![c] = s]
  /\ Become(c, IF kernel.autoreap THEN "gone" ELSE "zombie")
  /\ Leave(c)
  /\ UNCHANGED <<running, call, kernel, forkVars, known, reported>>

-----------------------------------------------------------------------------
(* waitpid.                                                                *)

Waitpid(pid, nohang) ==
  /\ InUser(Parent)
  /\ frames' = Laid(Parent, "waitpid")
  /\ call' = [NotCalled EXCEPT !.name = "waitpid", !.saved = frames',
                                !.pid = pid, !.nohang = nohang]
  /\ Become(Parent, IF pending THEN "drive" ELSE "wait4")
  /\ UNCHANGED <<expects, running, shares, kernel, forkVars, exitVars>>

\* schedule() has returned to the waiter.
DriveReturn ==
  /\ InKernel(Parent, "drive")
  /\ call' = [call EXCEPT !.count = @ + 1]
  /\ IF pending /\ call'.count < ScheduleRounds
     THEN UNCHANGED <<frames, mode>>
     ELSE frames' = Restored(frames, call.saved) /\ Become(Parent, "wait4")
  /\ UNCHANGED <<expects, running, shares, kernel, forkVars, exitVars>>

\* The callback goes on when wait4 has returned: the frames are put back.
Answer(pid, s, error) ==
  /\ frames' = Restored(frames, call.saved)
  /\ call' = [call EXCEPT !.pid = pid, !.status = s, !.error = error]
  /\ reported' = IF pid = NoChild THEN reported ELSE reported \cup {pid}

Wait4Reaps(c) ==
  /\ InKernel(Parent, "wait4") /\ kernel.wait4 /\ c \in Zombies(call.pid)
  /\ mode' = [mode EXCEPT ![Parent] = "return", ![c] = "gone"]
  /\ Answer(c, status[c], "none")
  /\ UNCHANGED <<expects, running, shares, kernel, forkVars, known, exits, status>>

Wait4FindsNone ==
  /\ InKernel(Parent, "wait4") /\ kernel.wait4 /\ call.nohang
  /\ Children4(call.pid) # {} /\ Zombies(call.pid) = {}
  /\ Become(Parent, "return")
  /\ Answer(NoChild, 0, "none")
  /\ UNCHANGED <<expects, running, shares, kernel, forkVars, known, exits, status>>

\* ECHILD, or ENOSYS from an image without the system call: the first record
\* that fits is returned instead.
ReplayedErrors == {"ENOSYS", "ECHILD"}
FitsAny(record, pid) == TRUE \* mutant
Fits(record, pid) == pid \in {record.pid, NoChild}

Replay(error) ==
  LET Fitting(record) == Fits(record, call.pid)
      i == IF error \in ReplayedErrors THEN SelectInSeq(exits, Fitting) ELSE 0
  IN IF i = 0
     THEN Answer(NoChild, 0, error) /\ UNCHANGED exits
     ELSE /\ Answer(exits[i].pid, exits[i].status, "none")
          /\ exits' = RemoveAt(exits, i)

Wait4Fails ==
  /\ InKernel(Parent, "wait4")
  /\ \/ ~kernel.wait4 /\ Replay("ENOSYS")
     \/ kernel.wait4 /\ Children4(call.pid) = {} /\ Replay("ECHILD")
  /\ Become(Parent, "return")
  /\ UNCHANGED <<expects, running, shares, kernel, forkVars, known, status>>

-----------------------------------------------------------------------------
Init ==
  /\ frames = [program |-> Unset, call |-> <<Parent, "none">>]
  /\ expects = [t \in Tasks |-> Unset]
  /\ running = Parent
  /\ mode = [t \in Tasks |-> IF t = Parent THEN "user" ELSE "none"]
  /\ kind = [c \in Children |-> [name |-> "none", alone |-> FALSE]]
  /\ shares = {} /\ pending = FALSE /\ armed = {}
  /\ call = NotCalled
  /\ known = {} /\ exits = << >> /\ reported = {}
  /\ status = [c \in Children |-> 0]
  /\ kernel \in [wait4 : BOOLEAN, autoreap : BOOLEAN]

ParentStep ==
  \/ \E k \in {"fork", "vfork"} : Fork(k)
  \/ \E c \in Children : CloneCreate(c) \/ Wait4Reaps(c)
  \/ CloneReturn \/ CloneRestart \/ CloneFail \/ Return
  \/ \E pid \in Children \cup {NoChild}, nohang \in BOOLEAN : Waitpid(pid, nohang)
  \/ DriveReturn \/ Wait4FindsNone \/ Wait4Fails

ChildStep(c) ==
  \/ ChildReturn(c) \/ GetPid(c) \/ BlockingCall(c) \/ BlockingReturn(c)
  \/ Exec(c) \/ \E s \in Statuses : Exit(c, s)

Next ==
  \/ ParentStep
  \/ \E c \in Children : ChildStep(c) \/ FirstRun(c)
  \/ \E t \in Tasks : Store(t) \/ SwitchTo(t)

Spec == Init /\ [][Next]_vars

-----------------------------------------------------------------------------
(* Properties.                                                             *)

\* Whatever children have done on its frames, a parent whose fork or waitpid
\* is over returns through the frame of its own call and finds its own values
\* in its program's frame: the snapshots of user_fork and user_waitpid cover
\* every window in which a child can run, and are taken before it.
ParentFramesKept ==
  /\ mode[Parent] \in {"user", "return"} => frames.program = expects[Parent]
  /\ mode[Parent] = "return" => frames.call[1] = Parent

\* A child of vfork, created while no other child runs on the frames, starts
\* with the values its parent had and keeps them for itself until it calls
\* exec or exit: neither a restored snapshot nor its parent disturbs it, also
\* when it waits in the kernel meanwhile.
VforkChildOwnsFrames ==
  \A c \in shares : /\ kind[c] = [name |-> "vfork", alone |-> TRUE]
                    /\ mode[c] \in {"user", "sys"}
                    => frames.program = expects[c]

Exited(c) == mode[c] \in {"zombie", "gone"}
AfterWaitpid == mode[Parent] = "return" /\ call.name = "waitpid"

\* A waitpid fails with ECHILD or ENOSYS only if every child it may wait for
\* and whose exit was recorded has been reported, by this waitpid or earlier.
NoExitLost ==
  [][Wait4Fails /\ call'.error # "none" =>
       \A c \in known : Exited(c) /\ call.pid \in {c, NoChild} => c \in reported]_vars

\* A child that waitpid returns is one it was called for, has exited, and the
\* status is that of its exit.
WaitTruthful ==
  [][AfterWaitpid' /\ ~AfterWaitpid /\ call'.pid # NoChild =>
       /\ call.pid \in {NoChild, call'.pid}
       /\ Exited(call'.pid) /\ call'.status = status[call'.pid]]_vars
=============================================================================
