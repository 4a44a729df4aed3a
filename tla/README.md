# MiniMachine: a TLA+ development

MiniMachine compiles the Linux kernel and userspace programs from LLVM IR to
P3, a machine with three instructions (`MOV`, `SUB`, `BR`), and runs them on a
virtual machine. A runner, `scripts/run-minimachine-linux.py`, gives the guest
what the three instructions cannot: task switches, the return to userspace, and
the libc of userspace programs, whose system calls enter guest Linux functions
on the same machine. This directory models that system as TLA+ modules, checks
them with TLC and proves theorems about them with TLAPS.

`R` stands for `scripts/run-minimachine-linux.py` below; other paths are
relative to `src/minimachine/` unless they say otherwise. `PROJECT.json` maps
every definition to its lines.

Contents: [inventory](#inventory), [plan](#plan), [modules](#modules),
[runs](#runs), [findings and deviations](#findings-and-deviations),
[theorems](#theorems), [what is not modelled](#what-is-not-modelled).

## Inventory

| Component | State | Operations | What makes it hard |
|---|---|---|---|
| Semantic-call engine (R; `linux-overlay/.../bootstrap.c`) | Python's stack of activations; `_preserved_call_depth`, `_preserved_call_tasks`, `_preserved_task_depths`; the armed transfer; `linux_task_contexts`; four notions of the current task | begin and end a semantic call; service 2 (task switch); service 3 (return to userspace); exec, exit, fork, vfork, waitpid | one Python stack carries the calls of all tasks, and the guest scheduler decides which of them goes on |
| Fork/wait stack sharing (R) | snapshots of the P3 call chain of a parent, `user_wait_exits`, `user_task_pids` | snapshot and restore around clone, schedule and wait4; record and replay exits | parent and child run on the same frames; an exit may be reaped before its waitpid |
| Guest heap and layout (`vm.py`, R) | `heap_next`, `_next_data`, shadow and semantic stack pointers and tables, allocation table, exec instances | malloc/free/realloc, host buffers, setjmp/longjmp, exec, first switch, semantic call | regions grow towards each other without protection; pointers are saved and put back |
| P3 machine and calling convention (`vm.py`, `abi.py`) | memory, `sp`, program counter, `halted`, jump buffers | call and return sequences, host services, nested runs, replaced functions, setjmp/longjmp | calls are spelled out as moves; a wrong offset corrupts a live frame far away |
| LLVM to muIR lowering: phis and edges (`legalize.py`) | blocks under construction, pending phi copies | phi copies, edge splitting | simultaneous assignment by single moves; edges rewritten while they are visited |
| LLVM to muIR lowering: instructions, and the runtime helpers (`legalize.py`, `runtime.py`, `p3vm.c`) | none; a value is a slot whose upper bits may be anything | arithmetic, casts, comparisons, branches, memory, aggregates, intrinsics | odd widths, `i1`, poison, two engines that must agree, numeric edges |
| muIR to P3, linking, images (`lower_p3.py`, `linker.py`, `layout.py`, `image.py`) | symbol tables, descriptors, data addresses | lower, install an image, resolve relocations | late definitions, aliases, addresses that move |
| User images (R `user_exec`, `user_image.py`, `user_bundle.py`) | `user_exec_instances`, arenas, namespaces | link a payload into the running machine, exec it again | the tables of a running program change; two tasks may run one payload |
| Native engine (`native_vm.py`, `native/p3vm.c`) | a packed copy of code and memory, `_shape`, `_synced_data_end` | compile, notice new code, copy appended data | a cached copy of tables that Python still changes |
| Checkpoint (`checkpoint.py`) | a pickled machine and six of the runner's tables | save, restore into this runner or a newer one | the tables that are not saved describe memory that is; descriptors of a newer runner |
| String and number routines (`runtime.py`, R) | none but the memory; `strtok_r`'s `*saveptr`, `getopt`'s host-side record | copies, comparisons, searches, tokens, `fnmatch`, the `strtol` family, `getopt` | bounds, overlaps, two implementations of one routine, state kept outside the program |
| Streams (R) | `user_stdio_streams`: `[fd, eof, error, ungetc]` of every FILE | `fopen` to `fclose`, reads, `ungetc`, seek and tell, `getline`, writes | several system calls per call, partial results, other writers in between |
| Linux port (`linux-overlay/`) | the current-task cell, user-mode handoff | `__switch_to`, `copy_thread`, `ret_from_fork` | it is the caller of services 2 and 3 |
| Program cache, kallsyms; build, corpus and analysis scripts | none beyond files | packaging, renaming, statistics | formats only |

How they interact. The compiler produces P3 text whose calls follow the calling
convention; the machine executes it; a branch to a host function runs a Python
callback. A callback of the libc surface may enter a guest Linux function and
run the machine again (a *semantic call*), and that guest function may call
service 2, which swaps the machine's `sp` and `pc` underneath the callback. All
of it lives in one memory: the calling convention works on stacks that the
layout component hands out, one per task and nesting level. Exec links new code
and data into the program while it runs; the native engine and checkpoints copy
the state of the others.

Everything runs in one OS thread. The concurrency is that of coroutines: guest
tasks interleave at switches, Python activations nest in the order in which
they were begun, and the two orders need not agree.

What each component must guarantee:

* semantic calls: the run that a halt ends is the run of the call that
  returned; a transfer of exec or exit unwinds its own task's activations only
  and is always carried out; a runnable task can be resumed; the result of a
  system call reaches the program that made it, once;
* fork and wait: a child starts where its own parent forked, with its values; a
  parent's frames are its own when it resumes; every exit is reported, to its
  parent, with its status;
* layout: nothing is handed out twice while it is in use;
* machine: calls, host services, nested runs and long jumps behave as a stack
  of activations with variables of their own;
* lowering: phis are simultaneous; the lowered function takes the same path
  with the same values; every value LLVM defines is what its slot holds;
* linking, native engine and checkpoint: a call by symbol reaches what the
  symbol names, in every engine and after every exec and restart; a task's data
  is its own;
* libc routines: the result is the one C and POSIX define, for either engine.

## Plan

Written, in this order, the most important behaviour first:

1. `SemanticCalls` with the abstract `UnixProcesses` and its proofs;
2. `ParallelCopies` and `PhiEdges`, which composes it, with their proofs: the
   copies of an edge are one assignment there, which is what
   `CopiesSimultaneous` proves of the moves they become;
3. `GuestMemory` with its proofs;
4. `P3Machine` with the abstract `Activations`, and the proofs that its frames
   stay apart and that it implements `Activations`;
5. `ForkWait` with its proofs;
6. `Words`, `Services`, `LlvmSemantics` and their composition `Lowering`;
7. `ProgramTables`, `NativeEngine` and their composition `UserImages`, with
   checkpoints and the abstract `PrivateImages`, and the proofs of its three
   properties;
8. `DirectRuntime`, `Fnmatch`, `Strto`, `Getopt`, composed in `LibcCalls`, with
   the proofs about copies, comparisons and searches; `Stdio` with the abstract
   `CInput` and its proofs.

Left:

9. Theorems: `BooleansMaterialised` and `SlotsRefine` of `Lowering`, of which the
   arithmetic of helpers is the hard part.
10. `Linking` in detail: aliases, relocation arithmetic and boundary symbols of
    `image.py` and `linker.py`; block order and labels of `lower_p3.py`.
11. The remaining callbacks of the libc surface that keep state: directories,
    `printf` conversions, terminal settings.
12. The composition of `ForkWait` with the activations of `SemanticCalls`, for
    parents that wait in other calls than fork and waitpid.

No module uses `RECURSIVE`: recursion is written as recursive functions and
folds, so that every module can be proved about.

## Modules

### SemanticCalls and UnixProcesses

The boot runner executes a userspace system call as a Python activation of
`_call_linux_function_preserving_control` (R 5216–5459). It saves the control
state, chooses a stack (an *arena*) by task and nesting level, enters a guest
function and calls `vm.run()` until the machine halts. Below that run the guest
scheduler may switch to another task, whose calls nest further activations on
the same Python stack.

* `calls` is Python's stack with what each activation saved; `callDepth`,
  `callTasks` and `taskDepths` are the three tables kept beside it.
* `control` names where the machine executes by its chain of frames (the user
  stack, a task's shadow stack or an arena) instead of by `(sp, pc)`. Two chains
  are different exactly if their `stack` fields are.
* `BeginCall` is the entry of an activation. `FinishReturn` and `FinishTransfer`
  are its two ends; what the callback does after the call, such as retrying an
  interrupted clone or dropping the pending continuation, is part of
  `FinishReturn`.
* `SwitchTo` is service 2 with the writes of `__switch_to`, `ForkChildReturn`
  and `ExecHandoff` are service 3, `ArmTransfer` is
  `_arm_preserved_task_transfer`.
* `ForkRetry`, `WaitpidSchedule`, `WaitpidTrap` and `WaitpidWait4` are the later
  steps of the callbacks of fork and waitpid. Each ends at a semantic call,
  under which anything may happen.
* `Kernel...` and `Return` stand for Linux, which is not part of the repository:
  which task may run next and which task waits for what.

`ArmTransfer` leaves out a branch of the code for tables that disagree with each
other; `BookkeepingHolds` proves that it is never taken.

`UnixProcesses` is the promise to programs: one system call at a time, answered
after the kernel has completed it, to the process that made it; exec does not
come back; a child starts once; an exited process is reaped by its parent. The
refinement mapping is `Phase`.

The constants that select an environment:

| Constant | Meaning |
|---|---|
| `Forkers` | tasks whose program may fork; the release gates fork from the shell only |
| `IoYields` | whether the kernel may yield inside a call that does not preserve task state |
| `ComparatorCalls` | whether a comparator passed to `qsort` makes system calls |
| `RecycleTasks` | whether the address of a reaped task may be used again |
| `MaxDepth` | bound on nested activations (`Len(calls) < MaxDepth` in `BeginCall`) |
| `ScheduleRounds`, `ForkRestarts` | 8 and 3 in the code |

### ForkWait

`SemanticCalls` has the control of fork and waitpid; `ForkWait` has the memory:
the frames parent and children share, and the exits. `frames` are the frame of
the program that forks and that of its library call; `expects` is what a task
finds in its program's frame if nobody interferes, so that "a task finds its
own values" is `frames.program = expects[t]`. `Laid` is what every call does to
the frames of whoever runs on them, `Restored` is `_restore_p3_call_chain`.

`Fork` to `Return` is the callback of fork in the order of its effects: the
snapshot, clone, the restore after it, the retry with a fresh snapshot, and the
machine's write of the result after the callback. `Waitpid` to `Wait4Fails` is
`user_waitpid`: drive the scheduler while a continuation is pending, wait4, put
the frames back, and on ECHILD or ENOSYS look for a record. A child stores to
the frames, calls the kernel, learns its pid, execs or exits.

Clone, wait4 and do_exit are Linux: the model says which child wait4 can reap,
when a caller blocks, and that clone with CLONE_VFORK holds its caller
(`Released`). A task switches only when the running task is in the kernel. The
constant `kernel` says whether the image has wait4 and whether SIGCHLD is
ignored, in which case children are reaped without a waitpid.

### ParallelCopies and PhiEdges

`ParallelCopies` is `_parallel_copies` of `legalize.py`: `EmitSafe` emits the
first pending move whose destination nobody reads, `BreakCycle` saves a
destination in a temporary and redirects its readers. The frame is symbolic:
`store` says which initial value a slot holds. Widths are left out, since a copy
is as wide as its destination's type. `CopyLists` may hold repeated entries,
which a switch with two cases on one block produces.

`PhiEdges` is the part of `legalize_function` that places the copies:
`EdgePredecessors` finds the blocks that carry an edge, `PlaceEdge` puts the
copies before an unconditional terminator or splits the edge. After that
`Execute` runs the lowered function and the original side by side. Edges are
placed in every order, although a Python dictionary has one. A split block has a
label that extends the label of its predecessor; `ProgramsAssumption` says that
no block is called like the marks of a switch's edges, which in the code is the
work of `fresh_block_label`.

### Words, Services, LlvmSemantics and Lowering

`Lowering` is instruction selection for integers. Two values are live at a time;
every action is one LLVM instruction that makes a new value from them or from
constants. A value carries what LLVM says it is (`val`, from `LlvmSemantics`,
written from the language reference) and what the machine holds for it (`raw`):
a frame slot, whose bits above the width of the type may be anything, the bytes
of memory, or the bytes of an aggregate `{iN, i1}`. The raw side follows the
lowering: which instruction becomes a `MOV`, a `SUB` or a `BR` and which a call
of a helper, in which width, with which immediates; `Services` has the helpers
of `runtime.py`. Where `vm.py` and `p3vm.c` implement an operation differently
(sign extension), the action is taken with each engine.

A word has `WordBits` bits and a byte `ByteBits`. The widths 8, 16, 32 and 64 of
the code become the widths of a byte and a word; everything else is an odd
width, as i3 or i24 is in the code, and what is wider than a word is passed by
address (*wide*). The shapes of the formulas do not depend on the numbers.

`Forms` switches on constructs whose lowering is known to deviate; see
[deviations](#findings-and-deviations).

### ProgramTables, NativeEngine, UserImages and PrivateImages

`ProgramTables` is `vm.Program`: functions, blocks, host services, symbols and
the initial memory with a descriptor for every function. A function keeps the
symbols it uses, a name is a namespace and a word. `NativeEngine` is the copy
the compiled interpreter works on: blocks packed with addresses, the host table,
and the shape by which it notices that there is something to copy
(`_ensure_program_current`).

`UserImages` composes them with the runner. `Boot` links the kernel the way
`main` does, by an old or a newer runner. `ExecFresh` is the first exec of a
payload by a task: choice of a namespace, arena, services, helpers, functions
and module image, with exactly the ranges that are written to the live memory;
`ExecAgain` resets the instance. A payload of several functions moves to a
namespace of its own if any of its names is taken (`Moves`); a *probe*, a payload
of one function, stays in the base namespace and only its function takes another
name (`CodeSpace`). A later exec enters the name the payload gives its entry
(`EntryAgain`), not the one its instance was installed with. `Resume` is the run loop, where the engine
becomes current; then the guest calls through descriptors, stores, switches and
allocates. `Save` and `Restart` are checkpoints: pages, or the difference to the
initial memory; a restart by the same or a newer runner and either engine, with
`Refreshed` as `refresh_host_service_descriptors`.

`PrivateImages` is the promise: every task has an image of its own that starts
as the payload says and changes only when the task stores.

`KernelAssumption` and `PayloadAssumption` say what a kernel and a payload may
be. A function, an external and an object of one payload have different names,
because `add_function`, `register_service` and `define_data_symbol` raise on a
symbol that is linked already (`vm.py` 116, 140, 176). Only functions of the
kernel are accelerated: others are passed over (`runtime.py` 2086–2087). A
pointer in an object names a symbol that is linked, or its relocation would fail
(`image.py` 584). `environ` and `errno` belong to the libc surface of the
image (R 3862–3875), `jiffies` and the system call to the runner, so that neither
is a symbol of the payload or the kernel.

`LooseProbes` says whether probes are taken as the code takes them. If it is
FALSE, a probe has no module image (`ProbesAssumption`) and a task does not
execute one again that had to take another name (the guard of `ExecAgain`).
Outside this, tasks do not have images of their own: a probe executed again may
enter the function of another payload, and probes with a module image share
`environ`, `errno` and their externals in the base namespace (R 3875–3900).

### DirectRuntime, Fnmatch, Strto, Getopt and LibcCalls

Routines that a program calls and the host serves. `DirectRuntime` has the
memory and string routines twice: the Python loops over bytes and the bulk
operations of the compiled engine, which work page by page; each call runs on a
memory of `Top` bytes, with pointers that may overlap. `strtok_r` is a sequence
of calls that changes the memory. `Fnmatch` is the backtracking matcher; the
reference does not parse patterns, but gives each piece of a pattern its
meaning. `Strto` is the scanner of the `strtol` family with the bases and
prefixes of C23, on words of `Width` bits. `Getopt` is a state machine: a loop
of `getopt`, `getopt_long` or `getopt_long_only` calls that a program may break
off to parse other arguments. `Served` says which calls a record serves.
`LibcCalls` joins them.

### Stdio and CInput

`Stdio` is the host-side stream table over `openat`, `read`, `write` and
`lseek`. `Getline` and `Fwrite` are the first steps of calls that need several
system calls, `GetlineByte` and `FwriteStep` one system call each, between which
another process may append to the file (`Appends`). Reads and writes may fail,
writes may be partial. `line` is the growing buffer of `getline` with the bytes
nobody has written as `Garbage`.

`CInput` is input as C has it: a position, one pushed-back byte, bytes in the
order of the file. The mapping `Input` combines the descriptor's offset with the
entry; while a `getline` is in progress it is the stream as it was before.

### GuestMemory

Addresses are numbers and regions are blocks. `Malloc`, `Realloc`, `HostAlloc`
and `ExecInstall` take from the heap, which grows up; `FirstSwitch` and
`SemanticStack` take stacks from above, downwards. `Setjmp` and `Longjmp` save
and restore the heap pointer. `BeginCall` and `EndCall` are the save and restore
of the shadow-stack table by a semantic call; `EndCall` may also leave the table,
which is what a transfer does. A failed check ends the run (`error`), as a
`VMError` does, after the assignments that precede it in the code.

Two history variables say what jumps do to the heap: `known` has, for each jump
buffer, what was in use at its `setjmp`, and `taken` what a `longjmp` took back
although it was in use. `Kept` is what is in use and was not taken back.
`MaxBlocks` bounds how many allocations, and how many buffers, there are at a
time (`RoomIn`). `calloc` and `strdup` are `malloc` followed by writes, `realloc` with size 0 or a null
pointer is `free` or `malloc`. Pages and widths do not matter here.

### P3Machine and Activations

Memory counts words: header, arguments and results are all words of one size in
`abi.py`. `Call` is the whole call sequence (`Called`), `Return` the return
sequence with its order of writes, `Enter` the prologue and `Resume` the
continuation block. `CallService` is `_invoke_host`; `CallNested` and
`FinishNested` are a service that uses `enter_function` and `run`;
`Setjmp`/`Longjmp` are the callbacks of R. Functions may be replaced by host code
before the machine starts, as `replace_function_with_service` does; their
descriptor then leads to the host while their text stays.

`Forget` and `MayJump` are not code: they are C's rule that `longjmp` may only
use a buffer whose activation is live. The stack check in `MayCall` is not code
either: the machine does not check for overflow, and the model says nothing of a
program that does. `MachineAssumption` has the descriptors and the stacks of
nested runs disjoint, as the runner lays them out; `RoomAssumption` lets each
stack hold the first frame of its run.

`Activations` is a stack of activations with variables. The mapping
`ActivationStack` reads it off the memory by following `CALLER_SP`, in which the
variables of suspended callers are read where the convention keeps them. What
`Activations` promises: a callee's first variable is the second one of its
caller, a return gives the caller the value of a variable of the callee if its
site wants one and leaves the caller's other variables and all activations below
as they were, and `setjmp` answers 0 once and never again.

### Names marked as mutants

Some definitions are marked `\* mutant`. They are altered forms of the
definition that follows them and are used by no specification. Substituting
one for the original has to break the property that `PROJECT.json` names with
it; they document what each property notices.

## Runs

| Run | Properties | States | What it shows |
|---|---|---|---|
| `scheduled` | `HaltDelivered`, `IdentitiesAgree`, `ContinuationsLive`, `ForkContinuationsMatched`, `WaitersSurviveTransfers`, `ImplementsUnixProcesses` | 56,117 | in the environment of the release gates the engine keeps the process promise |
| `free` | `TypeOK`, `Bookkeeping`, `TransferScoped`, `TransfersComplete` | 37,936 | what holds in every environment |
| `forkwait` | `ParentFramesKept`, `VforkChildOwnsFrames`, `NoExitLost`, `WaitTruthful` | 1,994,468 | sharing frames with children is invisible to a waiting parent and to a lone child of vfork; exits are neither lost nor made up |
| `copies` | `SourcesKept`, `Simultaneous`, `Terminates` | 195,985 | every copy list of up to four entries |
| `edges` | `SameBehaviour`, `EdgesFound` | 198,572 | small functions, every order of edges |
| `lowering` | `SlotsRefine`, `BooleansMaterialised`, `SameControl` | 55,514 | any sequence of integer instructions means what LLVM says, on both engines |
| `memory` | `HeapExclusive`, `StacksExclusive` | 4,938,097 | nothing is handed out twice while it is in use, but for what a jump has taken back |
| `p3` | `FramesApart`, `ImplementsActivations` | 64,350 | the convention implements activations |
| `images` | `CallsLand`, `RestartContinues`, `ImplementsPrivateImages` | 394,644 | linking at run time, the engine's copy and checkpoints are invisible to programs |
| `strings` | `CopiesAsC`, `ComparesAsC`, `SearchesAsC`, `NumbersAsC`, `TokensAsC`, `MatchesAsPosix`, `OptionsParsed` | 1,895,308 | string, number and option routines against C and POSIX |
| `stdio` | `LineTerminated`, `FwriteTruthful`, `ReadsAsC` | 293,930 | streams against C, with failing and partial system calls and another writer |
| `probes` | `EntersOwn` | | [a finding](#findings-and-deviations) |

Bounds, and why they are enough:

* `scheduled`: a shell, three children and two kernel threads, `MaxDepth` 6,
  `ScheduleRounds` 8 and `ForkRestarts` 3 as in the code. Three children are one
  more than is needed for a waiter, a running child and a new child. No more
  than two activations nest in this environment (`ScheduledInv` proves it), so
  `MaxDepth` never disables a step and deadlock is checked. Children and kernel
  threads are interchangeable, hence the symmetry; the run has no liveness
  property.
* `free`: one child that forks too, one kernel thread, yields, comparators and
  reused tasks. Here `MaxDepth` 4 cuts behaviours, which can leave the model
  without a step: deadlock is not checked. The invariants are proved for every
  bound.
* `forkwait`: two children, so that one can run on the frames while the other is
  created, waited for or reaped; one retry (`ForkRestarts`) and two turns of the
  scheduler (`ScheduleRounds`), of which the code has three and eight: more of
  them repeat a step. Every state has a successor, and all four properties are
  proved for any number of children and retries.
* `copies`: four slots and an immediate allow the swap, rotations, two
  independent cycles, fans and chains into cycles. Two temporaries are one for
  each of the at most two cycles. The model stops when the loop is done.
* `edges`: two blocks and two slots contain loops on either block, double edges
  and switches whose two edges meet. The entry has up to two phis, so a loop on
  it can carry a swap.
* `lowering`: bytes of 2 bits and words of 4, so that there are an odd width below
  a byte and one between byte and word, and one that is wide (`Widths` 1 to 5), and
  all values of each. Two live values are the operands of every instruction but
  `select` and the funnel shifts, whose third is a constant or one of the two.
  Immediates are -1 and the most negative number; the others are computed.
  The length of a sequence is not bounded: the search ends by itself. A helper
  that raises an error ends the machine, so deadlock is not checked.
* `memory`: an address space of 12 units in which all regions can meet, odd and
  zero sizes with alignment 2, one allocation and one buffer at a time
  (`MaxBlocks`) beside the arenas of two tasks, one jump buffer, one nested save.
  Two blocks in use are enough to overlap. A run ends with an error or out of
  space, so deadlock is not checked.
* `p3`: two functions with different frames, two stacks, one jump buffer, three
  calls or assignments (`MaxWork`) besides the boot frame. The depth of frames
  is at most four; a jump can cross two. The machine halts at the end.
* `images`: two tasks and two payloads, one with a module image, data and a table
  of pointers, and one of a single function. Three execs (`MaxExecs`) let a
  payload be installed by both tasks and again by one of them; one allocation
  (`MaxAllocs`) misaligns the heap; one restart (`MaxRestarts`) by the same or a
  newer runner; two frames per task (`MaxFrames`), since calls are looked up one
  at a time. A checkpoint stops the run and an exec may be refused, so deadlock
  is not checked. `probes` is the same instance with `LooseProbes`.
* `strings`: every memory of six bytes over NUL, a small and a capital letter,
  with pages of two bytes, so that every copy crosses pages; patterns of up to
  three pieces, subjects of up to three characters and eleven sets of flags; texts of up to four
  characters in six bases, words of 4 bits so that they overflow; argument
  vectors of two words, and a second loop. A behaviour is one call, or one
  tokenisation or loop, and ends.
* `stdio`: two streams on one file of at most two bytes (`MaxFile`), two bytes of
  which one is the newline, `MinCapacity` 1 instead of 128, so that the buffer
  grows twice within a line. A full file stops writers: deadlock is not checked.
  The program frees the buffer of `getline` before another call.

Fairness. `SemanticCalls` assumes weak fairness of `FinishReturn` and
`FinishTransfer`: they are deterministic Python code after `vm.run()` has
returned, which nothing can hold up. Nothing is assumed of the scheduler or of
programs. `ParallelCopies` assumes that its loop goes on, `WF_copiesVars(CopiesNext)`. The
other modules state safety only.

The environments of `scheduled`, `forkwait` (a parent waits in fork and waitpid
only), `lowering` (`Forms` without three constructs), `images` (`LooseProbes =
FALSE`), `strings` (a loop of `getopt` is not started over while the record is
inside the first word of the same arguments) and `stdio` (no seek from the current
position over a pushed-back byte) are real restrictions: the next section says
what happens outside them.

## Findings and deviations

`probes` is a run in which TLC finds the code at odds with a comment in it
(`EntersOwn`). R 4397–4399 lets a later exec of the same payload by the same task
use its instance again. The first exec of a probe gives its function another name
if its own is taken (R 4484–4500) and notes that name in the instance (R 4556),
but the later exec enters `user_image.entry` (R 4374, 4583), the name before. A
task that executes a program, a probe whose function has the name of the
program's entry, and the probe again, runs the program's entry.

The following deviations were met while the models were written. They are
outside the environments of the runs or, where they say so, modelled as they
are. None of the semantic-call deviations is met by the release gates.

Semantic calls and layout:

* An activation ends when `vm.run()` halts, whoever returned to `halt_code`
  (R 5293–5305). When a child forks in turn, the scheduler can finish the outer
  task in the run of the inner activation, and the wrong Python call returns:
  `HaltDelivered` is about environments in which only the shell forks.
* A call that does not preserve task state puts back the copy of
  `linux_task_contexts` made at entry; a kernel thread that was switched away
  from meanwhile loses its continuation (R 5446; `IoYields`).
* The level of an arena is the count of live calls plus one if a recorded
  continuation lies there; the record outlives the resumption, so a nested call
  of a comparator can arrive at the level in use (R 5255; `ComparatorCalls`).
* Shadow stacks are compared with the heap only; the 64th is laid over the first
  semantic-call stack (R 4137). `StacksExclusive` has the condition that none
  has.
* `longjmp` puts the heap pointer back to where it was at `setjmp` (R 449): what
  was allocated since is handed out again although the program may still use it.
  Modelled; `HeapExclusive` says that no more than that is lost. Only arenas of
  exec stay apart in any case, since an arena must lie above `_next_data` (R 4436).
* `alloc_bytes` compares the heap with the stack top only (`vm.py` 264); a heap
  of gigabytes would grow into the semantic-call and shadow stacks. The runs'
  stacks lie above the heap because `FirstSwitch` compares.

Fork and wait (R 3295–3680):

* A record is not removed when wait4 succeeds, so a child can be reported a
  second time by a later waitpid (3529–3567; `docs/real-software-ladder.md`
  170–173 describes the replay). `ForkWait` models it; `WaitTruthful` does not
  forbid it.
* A parent that blocks in another call than fork and waitpid has no snapshot
  (3437–3459); a child of fork, which is not held, starts on frames that its
  parent may have changed since (3606–3609), and siblings overwrite each other's
  values. `VforkChildOwnsFrames` is about the case that is safe.
* A fork while the continuation of another is pending stops the machine (3580).
  waitpid does not retry an interrupted wait4, as fork does with clone (3519).
  Addresses of tasks that are used again keep old records (3320), and a record
  is replayed to a waitpid whose own pid is not known (3541).

Exec and checkpoints:

* exec refuses an arena whose base equals `_next_data`, as for a program whose
  data end on a boundary (R 4436); modelled as `Refuse`.
* Under the Python engine the live memory has no descriptors for the functions
  and helpers an exec links (R 4513–4532; `vm.py` 82–85): `CallsLand` stops
  short of them there.
* Probes executed again, and probes with a module image: see `LooseProbes` under
  [modules](#modules).
* A checkpoint holds six of the runner's tables. A restart after an exec has no
  code for the frames it restores: `RestartContinues` is about checkpoints
  before the first exec.

Lowering and helpers (`legalize.py` unless said otherwise), behind `Forms` or
left out of `Lowering`:

* `trunc` to `i1` keeps more than one bit (2609–2647).
* Signed comparisons of `i1` that a branch uses are made at the width of a byte
  (275–304, 342).
* Negative cases of a switch on an odd width are compared as they stand, with
  upper bits (351–387, 2480–2490).
* `cttz`, `ctlz` and `abs` with poison flagged raise an error even if the result
  is never used (`runtime.py` about 717 and 775), although shifts and divisions
  make poison concrete instead (`runtime.py` 67–71). Modelled as the end of the
  machine, without a property.
* A division that LLVM leaves undefined (`Undefined`) is not made, and a value LLVM
  calls poison is compared with nothing.
* Aliases of constant `getelementptr` follow textual order (2031–2041); phis of
  struct type (630–645), 32-bit indices that are not extended (693–757) and
  constants wider than a word as arguments of calls (758–794: passed as
  they are and taken for an address, `runtime.py` 214–221) are not handled; `stackrestore` puts
  `heap_next` back over allocations made since (`runtime.py` 267–317).

String, number and option routines:

* `stpncpy` does not pad (`runtime.py` 1877–1886); the model leaves it out.
* `fnmatch`: a star that matches nothing may stand before the period that opens
  a name under `FNM_PERIOD`; a trailing backslash is literal; there are no
  character classes; a bracket may contain a slash under `FNM_PATHNAME`; the ends
  of a range are folded one by one under `FNM_CASEFOLD`. The first is what
  `MatchesAsPosix` says, the others are not among the patterns.
* `strtol` drops bytes outside ASCII (R about 2332) and takes a few more control
  characters for white space.
* The place of `getopt` is kept by the machine, not by the process
  (R 2511–2520, 2745–2752): `optind = 0` does not reset it inside the first word,
  where a loop over the same arguments goes on; `getopt` also goes on with a record of
  `getopt_long` for the same vector and letters (`Served`), and arguments are the
  same if their addresses are. The run has programs that do not start over there,
  and one address for each vector; and `getopt_long_only`
  does not fall back for an unmatched word of several letters.

Streams (R 498–1436):

* A seek from the current position with a byte pushed back is off by one
  (981–1000): the model's program does not do it.
* A short `fread` on a pipe marks the end of the file (about 912): the model has
  regular files only.
* `fputs`, `putc` and `printf` make a single write and set no error flag
  (686–704, 1416–1436), as modelled: only `fwrite` has a property.
* stdin, stdout and stderr have no entry, so `getc(stdin)` answers EBADF
  (505–514), and the table belongs to the machine: `fclose` in a child of fork
  closes its parent's FILE (498–503). Modes with `+` are left out.

## Theorems

Everything is proved for all values of the constants under the named assumptions
of the modules: disjoint sets of names, natural bounds, in `GuestMemory` an
address space in which heap, gap and stack top come in this order, and in
`P3Machine` stacks that are apart and hold a first frame.

`SemanticCalls_proofs`:

* `TypeCorrect`: `Spec => []TypeOK`.
* `BookkeepingHolds`: the three tables describe the activations. `Bookkeeping`
  is inductive together with `TypeOK`. `StackSteps` splits the actions by their
  effect on the stack, so that only a push (`BeginBookkeeping`) and a pop
  (`PopBookkeeping`) remain; the `Count...` lemmas say how the number of a
  task's activations changes with them.
* `TransferScopedHolds`: an armed transfer covers a suffix owned by one task,
  with another task's activation below it, and the machine is halted while it is
  armed. The inductive invariant is `TransferInv`, `TransferScoped` with
  `Bookkeeping`: the boundary is compared with `callTasks` and the end of an
  activation with the depth it saved, and only `Bookkeeping` ties the two.

`ForkWait_proofs`, from the assumption that the parent is not among the children
and that "no child" is not one:

* `TypeCorrect`.
* `ParentFramesKeptHolds`. The invariant `ParentInv` adds two facts: other tasks
  run only while the parent is inside the kernel (`Scheduled`), and the snapshot of a
  call in progress holds what the parent must find (`SnapshotKept`). Steps are
  split into those that end a waitpid, the other steps of the parent, and the steps of
  others, which change neither snapshot nor expectation.
* `WaitTruthfulHolds` and `NoExitLostHolds`, both about steps. `ExitsInv` says
  that a record is that of an exit (`RecordsTrue`) and that the exit of a task
  whose pid is known has been reported or is on record (`ExitsKept`).
* `VforkChildOwnsFramesHolds`. `VforkInv` says that the parent is held while a
  child of vfork shares its frames (`Held`) and that a child that was alone stays
  alone and finds what it must, but for the result of vfork before it has
  returned (`OwnFrames`).

Also in `SemanticCalls_proofs`, under the hypothesis `ReleaseGates`: the
environment of the run `scheduled`, with any number of children, kernel threads,
scheduler rounds and retries. The hypothesis is needed: `HaltDelivered` fails
for a child that forks in turn.

* `Nesting`: the inductive invariant `ScheduledInv`. Next to `TransferInv` it
  says that at most one child executes at a time, above a shell that is parked in
  fork, waitpid or wait4, so that Python's stack holds one activation of the
  shell and at most one of that child (`CallsShape`). `Frames` says on which
  chain of frames the machine is for each number of activations, an armed
  transfer taken into account. `TasksOK` and `ForksOK` say which continuation
  goes with each state of a task and when a fork continuation is pending.
* `HaltDeliveredHolds`, `IdentitiesAgreeHolds`, `ContinuationsLiveHolds` and
  `ForkContinuationsMatchedHolds` are consequences of it. None of them is
  inductive alone: a halt reaches the right run because the machine is in the
  arena of the innermost activation, and it is there because the scheduler has
  nobody to choose whose activation lies deeper.
* `WaitersSurviveTransfersHolds`, about steps: what an armed transfer pops
  belongs to the task that left, and that task does not wait.
* `Refinement`: `SemanticCalls` implements `UnixProcesses`, action by action.
  `ScheduledInv` is needed where a `Phase` is read off the stack: an activation
  that ends was the only one of its owner.

`PhiEdges_proofs`, about `ParallelCopies` too:

* `SourcesAlwaysKept` and `CopiesSimultaneous`, from the invariant `CopiesInv`:
  every pending copy finds the value its phi wants at the place it reads now.
  `TempsUsed` is needed in addition: a temporary that is taken afresh is read by
  no pending copy.
* `EdgesFoundHolds`: for every function, every phi and every order of the edges.
  `Shaped`, which is inductive together with `EdgesFound`, says that an edge
  still to be placed starts at a block of the function or at the edge block of a
  switch, never at a block that splits another edge: a split rewrites one
  predecessor, and no other edge of that predecessor has the same target.
* `SameBehaviourHolds`: the lowered function executes like the original.
  `LoweringInv` says what has become of each block of the original in the middle
  of the processing (`BranchPlaced`): an edge with a block of its own `Carries`
  its copies once it is placed, an edge of a conditional branch `Leads` to its
  target or to the split that holds its copies. `Together` relates the two
  executions.

`Stdio_proofs`:

* `FwriteTruthfulHolds`: for any data and any sequence of full, partial, empty and
  failing writes. The invariant `Taking` says that in the middle of an fwrite the
  kernel has a prefix of the data, as long as `done`.
* `StdioInvariant`: the inductive invariant `StdioInv`. `StreamsOK` relates an
  entry of the table to its descriptor (a pushed-back byte never goes with the
  mark of the end), `LineOK` and `WriterOK` say what a `getline` and an `fwrite` in progress
  have done so far.
* `LineTerminatedHolds`: the line, its NUL and the capacity that the program is
  told, for buffers of any size. The new capacity is the least power of two with
  room for the line (`PowerOfTwo`). That there is one, and that the power found
  has room, is induction over numbers, which is done by a fact about sets of
  numbers instead of the library's theorem (`NatSets`, `Powers`).
* `ReadsAsCHolds`: `Stdio` implements `CInput`. Each call is a step of the
  stream; the middle of a `getline` is a stutter, of which the last step has to
  produce the whole line at once, so `LineOK` keeps the line as it is in the file
  from where the call began.

`P3Machine_proofs`, from `MachineAssumption` and `RoomAssumption`, for any
functions, frame sizes, stacks and depth of nested runs:

* `FramesStacked`: `FramesInv`, the inductive invariant. Unless the machine has
  finished, there is a table `S` of the frames of each run with which the memory
  agrees (`Stacked`). `Placed` puts the frames on their stacks, each below those
  laid before it, with room for its header and variables; `LinkedIn` gives the
  words that lead from a frame to its caller, its result area and its return
  address; `DescribedIn` gives the descriptors; `JumpsLive` says that a jump
  buffer in use names a frame of `S`. `FramesApart` speaks of two words of each
  frame, and the invariant is needed because a store through a result pointer,
  into the caller's `RESUME_PC` or into a variable could hit any of them: the
  `Vital` words are those that no step may write, and `CalledKeeps`, `ResultWord`
  and `OwnWords` show that none does. Steps that lay a frame go through
  `OldFrames`, steps that drop some through `Cut`; `longjmp` drops any number.
* `FramesApartHolds`: the frames that `FramesApart` finds by following
  `CALLER_SP` are those of `S` (`ChainFound`), and frames placed as in `S` share
  no word (`StackedApart`).
* `RefinesActivations`: the machine implements `Activations`; that is, the memory
  is at every step that of a stack of activations, and every step is one of that
  stack or a stutter (the prologue, a continuation, the halt of a nested run).
  Where `FramesInv` says how frames are linked, `ActivationsInv` says what they
  hold (`Detailed`): the entry of a guest function, a result area known to the
  call site that awaits it, in the service's frame whether a result is wanted
  (`Held`), where the running frame is in its text (`Running`), and where the
  results of nested runs and of `setjmp` will be (`Remembered`). `StackFound`
  turns the recursive `ActivationStack` into the rows of `S` laid end to end
  (`Flat`); a step that leaves the `Inner` words of all frames but the running one
  (`Undisturbed`) leaves the activations under it (`UnderSame`), and one that lays
  or drops frames adds or takes theirs (`UnderGrown`, `UnderNested`, `UnderCut`).

`GuestMemory_proofs`:

* `TypeCorrect`: every variable keeps its type, also the snapshots of the
  shadow-stack table.
* `StacksExclusiveHolds`: any number of tasks and nested calls. `StackInv` says
  that every shadow stack lies above the current pointer and every semantic-call
  stack above its own; `SavedInv` says the first of each snapshot too, which is
  needed because a call may put any of them back. The condition
  `shadowNext >= StackTop - Gap` in the property is necessary.
* `HeapExclusiveHolds`: for any layout and however programs jump. `HeapInv` is
  inductive. `KeptInv` is the property itself for what is kept, with what is to be
  handed out above it; a jump needs `KnownInv`: what was in use at the `setjmp` of
  a buffer lies below the heap pointer the buffer has, unless it has been given
  back since, and the rest is what the jump takes back. `ArenaInv` puts every
  arena below `_next_data`, which jumps leave alone.

`UserImages_proofs`, about `ProgramTables` and `NativeEngine` too, from
`LayoutAssumption`, `UserAssumption`, `KernelAssumption`, `PayloadAssumption` and
`ProbesAssumption`, for any kernel and payloads, tasks, arenas, and sequences of
execs, saves and restarts, under the hypothesis `~LooseProbes`, without which
`ImplementsPrivateImages` fails as the run `probes` shows:

* `Sound` is what a linked program has to be: code addresses and words of data
  belong to one symbol each, every service has its host, every function its block,
  and what a descriptor of the initial memory leads to is what the symbol means
  (`CallsLead`), also if it is a function that a service has replaced. `Grows` is
  what linking may do to it: the tables are extended, what is new lies behind
  `nextData`, and nothing that could be called means something else. One lemma per
  operation of `vm.Program` (`AddFunctionSound`, `RegisterServiceSound`, ...) has
  this for one symbol, one per list of them (`AddFunctionsTo`, ...) for an image.
  The lists are recursive functions over an interval; that such a function has the
  values its definition gives (`TablesExist`), and that what holds of each step
  holds at the end, is induction over numbers, by the fact about sets (`NatSets`)
  that `Stdio_proofs` and `P3Machine_proofs` use.
* `EntersOwnHolds`: a task that has executed a payload has the entry of its instance
  at the bottom of its stack, which is where the hypothesis is needed.
* `ImagesInvariant`: `ImagesInv`. `ProgramGrown` says that the program is sound and
  has grown from the one the runner started with; `InstancesLaid` that instances
  have ranges of their own, in which the data and pointers of their namespaces lie; `EngineFollows` that the engine's copy is that of the program as it is
  or, while the host is in a service, as it was before an exec that added a
  function (`Outgrown`). The last is why the shape of the tables is enough to
  notice new code: nothing is ever replaced in a program that runs, and every exec
  adds a block. `Memory` is what the guest finds when it runs next, the live memory
  with what the engine has yet to copy; `CallsInMemory` and `DataInMemory` are
  about it, and the live memory alone would not do, because between an exec and the
  next `Resume` it has no descriptors. `SavedHolds` says what a checkpoint has in
  common with the runner that wrote it.
* `CallsLandHolds` follows: what the descriptor in `Memory` leads to in the
  engine's copy is what it leads to in the program.
* `RestartContinuesHolds`: a newer runner's kernel extends the older one's
  (`BootNewer`), a memory saved as a difference is the saved one after it is laid
  over the initial memory again, and `Refreshed` writes descriptors of services
  only.
* `ImplementsPrivateImagesHolds`: each step maps to a step of one task's image or
  a stutter. `Resume` stutters by `DataInMemory`, an exec changes no other
  instance by `InstancesLaid`, and `Store` writes one cell by `DataApart`.

`LibcCalls_proofs`, about `DirectRuntime` in its composition, from
`MemoryAssumption`, for memories and pages of any size, any bytes, and any call
that C allows:

* `StringsInvariant`: `StringsInv`. Next to the three properties below it says
  that a call was legal on the memory it was made on and that nothing but
  `strtok_r` and a copy that is done has written to it (`CallInv`).
* `CopiesAsCHolds`. A copy is a list of chunks, one byte or one page each.
  `FollowingCopies` and `RetreatingCopies` say when such a list copies everything:
  upward if no chunk is read after it has been overwritten, downward if the
  destination lies above the source. `ChunksFollow` and `ChunksRetreat` say that
  the pages of the compiled engine are such lists whatever the size, the last of
  them cut (`PageCount`, `PageParts`). What the list leaves is known from what
  each chunk leaves (`InChunksIs`).
* `ComparesAsCHolds`: `CompareIs` finds the order of two buffers at the first
  place where they differ or both end; `Compares` says what ends each of them, the
  limit or a NUL before it.
* `SearchesAsCHolds`: `ReachedIs` and `PlacesAre` relate the addresses at which a
  routine stops to places in the string with its NUL, `OccursAt` the bytes that
  `strstr` compares to a prefix of a suffix.

Only model-checked:

* Liveness (`TransfersComplete`, `Terminates`), which is beyond the prover under
  fairness.
* `Lowering`, whose three properties relate the bit-wise arithmetic of `Services`
  to LLVM's, and `NumbersAsC`: both need powers of two as functions of a width.
* `MatchesAsPosix`, `TokensAsC` and `OptionsParsed`: what a backtracking matcher, a
  sequence of tokens and the arguments of a command mean is defined by recursion
  over them. Induction over data with the library's theorems, which take an
  operator as a parameter, is not available. Over numbers a fact about sets takes
  its place (`NatSets`, in four of the proof modules); here each lemma would need
  it with a generalisation of its own.

## What is not modelled

* Linux itself: it is compiled from its own sources. What the runner relies on
  is in the actions marked as outside the repository.
* Parsing of LLVM text; the forms of `lower_p3.py`, the encoding of initialisers and
  the boundary symbols of `linker.py`: tables from one syntax to another, without
  state.
* Floating point, vectors, atomics, varargs and `stackrestore` in the lowering.
* The formats of user images, bundles, checkpoints, the program cache and
  kallsyms: encodings to files, read and written in one go. Their effect on the
  running machine is in `UserImages`.
* Of the libc surface, the callbacks that pass their arguments to one system
  call, each a semantic call like `SystemCall("io")`; `printf`, directories,
  time, locale and terminal settings.
* Console, clock and interrupt flags of the Linux port.
* Build, corpus and analysis scripts: no state is shared with the system.
