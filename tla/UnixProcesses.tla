--------------------------- MODULE UnixProcesses ---------------------------
(***************************************************************************)
(* What a userspace program is promised about processes, without the       *)
(* machine that provides it: a process issues one system call at a time,   *)
(* the call comes back to the process that issued it, after the kernel has *)
(* completed that call and not before; a successful exec replaces the      *)
(* program instead of coming back; a child starts once, after its parent   *)
(* created it; an exited process runs no more and is reaped by its parent. *)
(***************************************************************************)
CONSTANTS Processes, Shell, NoTask

VARIABLES phase, parent

upVars == <<phase, parent>>

Phases == {"absent", "unstarted", "running", "calling", "completed",
           "zombie", "reaped"}

UpInit ==
  /\ phase = [p \in Processes |-> IF p = Shell THEN "running" ELSE "absent"]
  /\ \A p \in Processes : parent[p] = NoTask

Move(p, from, to) ==
  /\ phase[p] \in from
  /\ phase' = [phase EXCEPT ![p] = to]

Call(p) == Move(p, {"running"}, "calling") /\ UNCHANGED parent

Complete(p) == Move(p, {"calling"}, "completed") /\ UNCHANGED parent

\* The library returns to the program, or issues a further system call.
ReturnToUser(p) == Move(p, {"completed"}, "running") /\ UNCHANGED parent
CallAgain(p) == Move(p, {"completed"}, "calling") /\ UNCHANGED parent

Exec(p) == Move(p, {"calling"}, "running") /\ UNCHANGED parent

Spawn(p, c) ==
  /\ phase[p] = "calling" /\ phase[c] = "absent"
  /\ phase' = [phase EXCEPT ![c] = "unstarted"]
  /\ parent' = [parent EXCEPT ![c] = p]

Start(c) == Move(c, {"unstarted"}, "running") /\ UNCHANGED parent

Exit(p) == Move(p, {"calling"}, "zombie") /\ UNCHANGED parent

\* Reaping completes the wait4 of the parent.
Reap(p, c) ==
  /\ phase[p] = "calling" /\ phase[c] = "zombie" /\ parent[c] = p
  /\ phase' = [phase EXCEPT ![c] = "reaped", ![p] = "completed"]
  /\ UNCHANGED parent

UpNext ==
  \/ \E p \in Processes : \/ Call(p) \/ Complete(p) \/ ReturnToUser(p)
                          \/ CallAgain(p) \/ Exec(p) \/ Start(p) \/ Exit(p)
  \/ \E p, c \in Processes : Spawn(p, c) \/ Reap(p, c)

UpSpec == UpInit /\ [][UpNext]_upVars
=============================================================================
