---------------------------- MODULE UserImages ----------------------------
(***************************************************************************)
(* Programs at run time: the kernel image linked at start-up, user images  *)
(* that exec links into the running machine, the engine's copy of the      *)
(* tables, and checkpoints that a later runner continues from.             *)
(*                                                                         *)
(* exec runs on the host, inside a service call of the guest: it changes   *)
(* the program and some of the live memory.  The engine takes notice when  *)
(* the run loop resumes.  Then the guest calls functions and services      *)
(* through their descriptors in the live memory, and stores to its data.   *)
(***************************************************************************)
EXTENDS NativeEngine

CONSTANTS
  Tasks, NoTask,
  Payloads,          \* user payloads; a task's payload is NoTask before exec
  Functions(_), Externals(_), Helpers(_), Objects(_), Pointers(_),
  HasImage(_),       \* FALSE: a payload without module image
  LooseProbes,       \* TRUE: payloads of one function as the code takes them
  KernelFunctions, KernelFast, KernelHelpers,
  Words,
  Engines,           \* subset of {"native", "python"}
  HeapBase, StackTop,
  MaxExecs, MaxAllocs, MaxFrames, MaxRestarts      \* bounds of the model

ASSUME UserAssumption ==
  /\ NoTask \notin Payloads
  /\ Engines \subseteq {"native", "python"}
  /\ {HeapBase, StackTop, MaxExecs, MaxAllocs, MaxFrames, MaxRestarts} \subseteq Nat

Elements(list) == {list[i] : i \in DOMAIN list}
IsList(list) == list \in Seq(Elements(list))
Distinct(list) == \A i, j \in DOMAIN list : list[i] = list[j] => i = j
DataNames == <<"environ", "errno">>      \* of the libc surface of an image

(* The kernel has a first function, the one that starts; no two functions  *)
(* have one name, and the data and the service of the runner have others.  *)
ASSUME KernelAssumption ==
  /\ IsList(KernelFunctions) /\ IsList(KernelFast) /\ IsList(KernelHelpers)
  /\ KernelFunctions # <<>> /\ Distinct(KernelFunctions)
  /\ Elements(KernelFast) \subseteq Elements(KernelFunctions)
  /\ Elements(KernelFunctions) \cap {"jiffies", "user_syscall"} = {}

(* A symbol of a payload is a function, an external or an object of it,    *)
(* once; pointers lead from objects to symbols of the payload.  A payload  *)
(* without module image has functions and helpers only.                    *)
ASSUME PayloadAssumption ==
  \A p \in Payloads :
    /\ IsList(Functions(p)) /\ IsList(Externals(p)) /\ IsList(Helpers(p)) /\ IsList(Objects(p))
    /\ Functions(p) # <<>> /\ Distinct(Functions(p)) /\ Distinct(Objects(p))
    /\ Elements(Functions(p)) \cap Elements(Objects(p)) = {}
    /\ Elements(Externals(p)) \cap (Elements(Functions(p)) \cup Elements(Objects(p))) = {}
    /\ Elements(DataNames) \cap
         (Elements(Functions(p)) \cup Elements(Externals(p)) \cup Elements(Objects(p))) = {}
    /\ DOMAIN Pointers(p) \subseteq Elements(Objects(p))
    /\ \A o \in DOMAIN Pointers(p) : Pointers(p)[o] \in
         Elements(Functions(p)) \cup Elements(Externals(p)) \cup Elements(Objects(p))
    /\ ~HasImage(p) => Externals(p) = <<>> /\ Objects(p) = <<>>

(* A payload of one function, a probe, never gets a namespace: only its    *)
(* function is given a free name.  Unless LooseProbes holds, probes are    *)
(* those of build_bflt, which have no module image, and one that took a    *)
(* new name is not executed again by its task.                             *)
IsProbe(p) == Len(Functions(p)) = 1
ASSUME ProbesAssumption ==
  /\ LooseProbes \in BOOLEAN
  /\ ~LooseProbes => \A p \in Payloads : IsProbe(p) => ~HasImage(p)

VARIABLES
  program,    \* the linked program
  runner,     \* generation of the runner: 1, or 2 with more host services
  backend,    \* the engine of this process
  engine,     \* the native engine's copy
  live,       \* memory of the machine
  heap,       \* heap_next
  instances,  \* user_exec_instances: <<task, payload>> -> arena, namespace, entry
  current,    \* the task that runs
  running,    \* task -> payload it has executed
  env,        \* task -> environment its last exec was given
  frames,     \* task -> code addresses on its P3 stack, innermost last
  phase,      \* "host", "guest" or "stopped"
  saved,      \* the checkpoint file, <<>> if there is none
  execs, allocs, restarts

vars == <<program, runner, backend, engine, live, heap, instances, current, running, env,
          frames, phase, saved, execs, allocs, restarts>>
machine == <<program, runner, backend, engine>>
counters == <<execs, allocs, restarts>>

-----------------------------------------------------------------------------
(* Start-up: functions, runtime services, accelerated functions, module    *)
(* image, and services a newer runner has added at the end.                *)
KernelName(n) == <<<<"kernel">>, n>>
Named(ns, list) == [i \in DOMAIN list |-> <<ns, list[i]>>]
Syscall == KernelName("user_syscall")
Jiffies == KernelName("jiffies")

(* Every function of an image uses all its symbols but the entry.          *)
KernelUses ==
  Elements(Named(<<"kernel">>, Tail(KernelFunctions))) \cup Elements(Named(<<"helper">>, KernelHelpers))
    \cup {Syscall}

Boot(generation) ==
  LET linked == AddFunctions(EmptyProgram, Named(<<"kernel">>, KernelFunctions), KernelUses)
      served == RegisterServices(linked, Named(<<"helper">>, KernelHelpers))
      fast   == IF generation = 1 THEN served
                ELSE Accelerate(served, Named(<<"kernel">>, KernelFast))
      laid   == DefineData(fast, Jiffies, 1)
  IN IF generation = 1 THEN laid ELSE RegisterService(laid, Syscall)

Booted == [generation \in {1, 2} |-> Boot(generation)]

EntryCode(p, s) == CHOOSE c \in DOMAIN p.blocks : p.blocks[c] = s

Init ==
  /\ runner \in {1, 2} /\ backend \in Engines
  /\ program = Booted[runner]
  /\ engine = NewEngine(program)
  /\ live = program.initial
  /\ heap = HeapBase
  /\ instances = <<>>
  /\ current \in Tasks
  /\ running = [t \in Tasks |-> NoTask]
  /\ env = [t \in Tasks |-> 0]
  /\ frames = [t \in Tasks |-> <<EntryCode(program, KernelName(KernelFunctions[1]))>>]
  /\ phase = "host"
  /\ saved = <<>>
  /\ execs = 0 /\ allocs = 0 /\ restarts = 0

-----------------------------------------------------------------------------
(* exec.  Each one is given an environment of its own, e.                  *)
Base == <<"user">>
Own(t, p) == <<"exec", t, p>>

(* A program of several functions moves to a namespace of its own if any   *)
(* of its names is taken; errno's cell is not looked at.  A probe stays    *)
(* in the base namespace.                                                  *)
Candidates(p) ==
  Elements(Named(Base, Functions(p) \o Objects(p) \o Externals(p)))
    \cup (IF HasImage(p) THEN {<<Base, "environ">>} ELSE {})
Collides(p) == \E s \in Candidates(p) : Linked(program, s)
Moves(p) == ~IsProbe(p) /\ Collides(p)
Namespace(t, p) == IF Moves(p) THEN Own(t, p) ELSE Base

(* Where its functions are named: for a probe, the first name that is free.*)
Suffixed(n) == Base \o [i \in 1..n |-> "again"]
FreeSuffix(f) ==
  CHOOSE n \in 0..Cardinality(DOMAIN program.symbols) :
    /\ ~Linked(program, <<Suffixed(n), f>>)
    /\ \A k \in 0..(n - 1) : Linked(program, <<Suffixed(k), f>>)
CodeSpace(t, p) ==
  IF IsProbe(p) THEN Suffixed(FreeSuffix(Functions(p)[1])) ELSE Namespace(t, p)

Uses(ns, cs, p) ==
  Elements(Named(cs, Tail(Functions(p)))) \cup Elements(Named(ns, Externals(p)))
    \cup Elements(Named(<<"helper">>, Helpers(p)))

AlignUp(x) == 2 * ((x + 1) \div 2)
ArenaBase == AlignUp(heap)

(* The tables after each stage of the installation: surface, helpers and   *)
(* functions, module image.  Data of the surface that are linked already   *)
(* are kept as they are.                                                   *)
WithSurface(p, ns, e) ==
  LET based == [program EXCEPT !.nextData = ArenaBase]
      datas == DefineMissing(DefineMissing(based, <<ns, "environ">>, e), <<ns, "errno">>, 0)
  IN IF HasImage(p) THEN RegisterServices(datas, Named(ns, Externals(p))) ELSE based

WithFunctions(surface, p, ns, cs) ==
  AddFunctions(RegisterServices(surface, Named(<<"helper">>, Helpers(p))),
               Named(cs, Functions(p)), Uses(ns, cs, p))

WithImage(code, p, ns) ==
  IF HasImage(p)
    THEN InstallImage(code, Named(ns, Objects(p)),
           [s \in {<<ns, o>> : o \in DOMAIN Pointers(p)} |-> <<ns, Pointers(p)[s[2]]>>])
    ELSE code

(* What the installation itself writes to the live memory: the external    *)
(* data and service descriptors, and the range of the module image.        *)
WrittenLive(surface, code, final) ==
  [a \in (ArenaBase..(surface.nextData - 1)) \cup (code.nextData..(final.nextData - 1)) |->
     At(final.initial, a, 0)]

Enter(t, p, e, tables, entry) ==
  /\ frames' = [frames EXCEPT ![t] = <<EntryCode(tables, entry)>>]
  /\ running' = [running EXCEPT ![t] = p]
  /\ env' = [env EXCEPT ![t] = e]
  /\ phase' = "host" /\ execs' = execs + 1
  /\ UNCHANGED <<runner, backend, engine, current, saved, allocs, restarts>>

Refuse == phase' = "stopped" /\ UNCHANGED <<machine, live, heap, instances, current, running,
                                            env, frames, saved, counters>>

(* A program without module image cannot move, and no object of an image   *)
(* may be linked already.                                                  *)
ExecFresh(t, p, e) ==
  /\ phase = "guest" /\ current = t /\ execs < MaxExecs /\ <<t, p>> \notin DOMAIN instances
  /\ LET ns      == Namespace(t, p)
         cs      == CodeSpace(t, p)
         surface == WithSurface(p, ns, e)
         code    == WithFunctions(surface, p, ns, cs)
         final   == WithImage(code, p, ns)
         entry   == <<cs, Functions(p)[1]>>
     IN IF \/ Moves(p) /\ ~HasImage(p)
           \/ ArenaBase <= program.nextData \/ ArenaBase >= StackTop
           \/ \E o \in Elements(Objects(p)) : Linked(code, <<ns, o>>)
           \/ final.nextData >= StackTop
          THEN Refuse
          ELSE /\ program' = final
               /\ live' = Over(WrittenLive(surface, code, final), live)
               /\ heap' = AlignUp(final.nextData)
               /\ instances' = Put(instances, <<t, p>>, [namespace |-> ns, base |-> ArenaBase,
                                                      end |-> final.nextData, entry |-> entry])
               /\ Enter(t, p, e, final, entry)

(* The task's own instance is used again: its arena goes back to the       *)
(* initial memory and its environment is set.  The entry is the one the    *)
(* payload names in the namespace of the instance; the entry the instance  *)
(* was installed with is not looked at.                                    *)
EntryAgain(t, p) == <<instances[<<t, p>>].namespace, Functions(p)[1]>>

ExecAgain(t, p, e) ==
  LET i == instances[<<t, p>>]
      reset == [a \in i.base..(i.end - 1) |-> At(program.initial, a, 0)]
      image == Over(reset, live)
  IN /\ phase = "guest" /\ current = t /\ execs < MaxExecs /\ <<t, p>> \in DOMAIN instances
     /\ LooseProbes \/ EntryAgain(t, p) = i.entry
     /\ IF EntryAgain(t, p) \notin DOMAIN program.functions
          THEN Refuse
          ELSE /\ live' = IF HasImage(p) THEN Put(image, program.symbols[<<i.namespace, "environ">>], e)
                          ELSE image
               /\ Enter(t, p, e, program, EntryAgain(t, p))
               /\ UNCHANGED <<program, heap, instances>>

-----------------------------------------------------------------------------
(* The run loop: the engine becomes current and the current block must be  *)
(* linked; then the guest runs.                                            *)
Top(t) == frames[t][Len(frames[t])]

Resume ==
  /\ phase = "host"
  /\ phase' = IF Top(current) \in DOMAIN program.blocks THEN "guest" ELSE "stopped"
  /\ IF backend = "native"
       THEN engine' = CurrentEngine(program, engine) /\ live' = CurrentMemory(program, engine, live)
       ELSE UNCHANGED <<engine, live>>
  /\ UNCHANGED <<program, runner, backend, heap, instances, current, running, env, frames,
                 saved, counters>>

(* Where a call of a symbol leads from a block: the packed block, or, in   *)
(* Python, the tables as they are now.                                     *)
Leads(code, s) ==
  IF backend = "native" THEN Reached(program, engine, live, code, s)
  ELSE LET target == At(live, At(program.symbols, s, 0), 0) IN
       CASE target \in DOMAIN program.hosts  -> <<"service", program.hosts[target]>>
         [] target \in DOMAIN program.blocks -> <<"block", program.blocks[target]>>
         [] OTHER -> <<"error", target>>

GuestStep == phase = "guest" /\ UNCHANGED <<machine, instances, running, env, phase, saved, execs,
                                           restarts>>

Call(s) ==
  /\ GuestStep /\ Len(frames[current]) < MaxFrames
  /\ Top(current) \in DOMAIN program.blocks
  /\ s \in program.functions[program.blocks[Top(current)]]
  /\ Leads(Top(current), s)[1] = "block"
  /\ frames' = [frames EXCEPT ![current] =
                  Append(@, EntryCode(program, Leads(Top(current), s)[2]))]
  /\ UNCHANGED <<live, heap, current, allocs>>

Return ==
  /\ GuestStep /\ Len(frames[current]) > 1
  /\ frames' = [frames EXCEPT ![current] = SubSeq(@, 1, Len(@) - 1)]
  /\ UNCHANGED <<live, heap, current, allocs>>

Switch(t) ==
  /\ GuestStep /\ t # current /\ Top(t) \in DOMAIN program.blocks
  /\ current' = t
  /\ UNCHANGED <<live, heap, frames, allocs>>

Malloc ==
  /\ GuestStep /\ allocs < MaxAllocs /\ heap + 1 < StackTop
  /\ heap' = heap + 1 /\ allocs' = allocs + 1
  /\ UNCHANGED <<live, current, frames>>

(* A program writes the cells of its instance, the kernel its own data.    *)
Cells(p) == IF HasImage(p) THEN Elements(DataNames) \cup (Elements(Objects(p)) \ DOMAIN Pointers(p))
            ELSE {}
Installed(t) == <<t, running[t]>> \in DOMAIN instances
CellAt(t, c) == program.symbols[<<instances[<<t, running[t]>>].namespace, c>>]

Store(c, w) ==
  /\ GuestStep /\ Installed(current) /\ c \in Cells(running[current])
  /\ live' = Put(live, CellAt(current, c), w)
  /\ UNCHANGED <<heap, current, frames, allocs>>

KernelStore ==
  /\ GuestStep /\ running[current] = NoTask
  /\ live' = Put(live, program.symbols[Jiffies], 0)
  /\ UNCHANGED <<heap, current, frames, allocs>>

-----------------------------------------------------------------------------
(* Checkpoints.  The native engine saves its pages; Python saves the words *)
(* that differ from the initial memory.  What the model keeps of the       *)
(* program is not in the file; properties compare with it.  The runner     *)
(* stops after the checkpoint, as with --stop-after-checkpoint: what it    *)
(* would do next does not change the file.                                 *)
\* mutant
DeltaNonZero(memory, baseline) ==
  LET changed == {a \in DOMAIN memory : memory[a] # 0 /\ At(baseline, a, 0) # memory[a]} IN
  [a \in changed |-> memory[a]]

Delta(memory, baseline) ==
  LET changed == {a \in DOMAIN memory : At(baseline, a, 0) # memory[a]} IN
  [a \in changed |-> memory[a]]

Save ==
  /\ phase = "guest" /\ saved = <<>> /\ restarts < MaxRestarts
  /\ saved' = [format  |-> IF backend = "native" THEN "pages" ELSE "delta",
               memory  |-> IF backend = "native" THEN live ELSE Delta(live, program.initial),
               heap    |-> heap, frames |-> frames, current |-> current, running |-> running,
               env     |-> env, runner |-> runner,
               program |-> program, live |-> live]
  /\ phase' = "stopped"
  /\ UNCHANGED <<machine, live, heap, instances, current, running, env, frames, counters>>

(* refresh_host_service_descriptors                                        *)
ServiceDescriptors(p) ==
  LET own == {p.hosts[c] : c \in DOMAIN p.hosts} IN
  {p.symbols[s] : s \in {x \in DOMAIN p.symbols : x \in own \/ FastName(x) \in own}}

RestoredMemory(p) ==
  IF saved.format = "pages" THEN saved.memory ELSE Over(saved.memory, p.initial)

\* mutant
RefreshedNamed(p, memory) ==
  Over([a \in {p.symbols[s] :
                 s \in {x \in DOMAIN p.symbols : \E c \in DOMAIN p.hosts : p.hosts[c] = x}}
          |-> p.initial[a]], memory)

Refreshed(p, memory) == Over([a \in ServiceDescriptors(p) |-> p.initial[a]], memory)

Restart(generation, b) ==
  LET fresh == Booted[generation] IN
  /\ saved # <<>> /\ restarts < MaxRestarts /\ generation >= saved.runner
  /\ program' = fresh /\ runner' = generation /\ backend' = b
  /\ engine' = NewEngine(fresh)
  /\ live' = Refreshed(fresh, RestoredMemory(fresh))
  /\ heap' = saved.heap
  /\ frames' = saved.frames /\ current' = saved.current
  /\ running' = saved.running /\ env' = saved.env
  /\ instances' = <<>>
  /\ phase' = "host" /\ restarts' = restarts + 1
  /\ saved' = <<>>
  /\ UNCHANGED <<execs, allocs>>

Next ==
  \/ \E t \in Tasks, p \in Payloads : ExecFresh(t, p, execs + 1) \/ ExecAgain(t, p, execs + 1)
  \/ Resume
  \/ \E s \in UNION {program.functions[f] : f \in DOMAIN program.functions} : Call(s)
  \/ Return
  \/ \E t \in Tasks : Switch(t)
  \/ Malloc
  \/ \E c \in UNION {Cells(p) : p \in Payloads}, w \in Words : Store(c, w)
  \/ KernelStore
  \/ Save
  \/ \E g \in {1, 2}, b \in Engines : Restart(g, b)

Spec == Init /\ [][Next]_vars

-----------------------------------------------------------------------------
(* A call by symbol, or through a pointer table of an image, reaches what  *)
(* the symbol names, whenever the guest runs: descriptors are in the live  *)
(* memory, addresses packed into blocks are right, and code addresses are  *)
(* in the engine's tables (vm.py:138-165, native_vm.py:415-447, 673-784,   *)
(* and the descriptor copies of exec and restore in the runner).  The      *)
(* Python engine never copies the descriptors of the functions and helpers *)
(* an exec links, so for it the promise stops short of them.               *)
LinkedByExec(s) ==
  /\ ~Linked(Booted[runner], s)
  /\ s \in DOMAIN program.functions \/ s[1] = <<"helper">>

Lands(f, s) == Linked(program, s) => Leads(EntryCode(program, f), s) = Meant(program, s)

PointerLeads(t, p) ==
  LET ns == instances[<<t, p>>].namespace IN
  \A o \in DOMAIN Pointers(p) :
    live[program.symbols[<<ns, o>>]] = program.symbols[<<ns, Pointers(p)[o]>>]

CallsLand ==
  phase = "guest" =>
    /\ \A f \in DOMAIN program.functions : \A s \in program.functions[f] :
         backend = "native" \/ ~LinkedByExec(s) => Lands(f, s)
    /\ \A i \in DOMAIN instances : PointerLeads(i[1], i[2])

(* A restart from a checkpoint that was saved before any exec continues    *)
(* the saved run: every code address on a stack names the same function,   *)
(* and the memory is the saved one but for the descriptors of functions    *)
(* and services, across engines and for a runner with more services        *)
(* (checkpoint.py:27-219).                                                 *)
SavedBeforeExec == DOMAIN saved.program.functions = DOMAIN Booted[saved.runner].functions
CodesKept(old) == \A t \in Tasks : \A i \in DOMAIN frames[t] :
  At(program.blocks, frames[t][i], Halt) = At(old.program.blocks, frames[t][i], Halt)
MemoryKept(old) == \A a \in DOMAIN live \cup DOMAIN old.live :
  a \in ServiceDescriptors(program) \/ At(live, a, 0) = At(old.live, a, 0)

RestartContinues ==
  [][restarts' # restarts /\ SavedBeforeExec =>
       \E old \in {saved} : CodesKept(old)' /\ MemoryKept(old)']_vars

(* A task that has executed a payload runs the code that was linked for    *)
(* it: the function at the bottom of its stack is the entry of its         *)
(* instance (R:4397-4399: a same-task exec can reuse its instance).  It    *)
(* does not hold of probes as the code takes them.                         *)
RunsOwn(t) ==
  Installed(t) /\ At(program.blocks, frames[t][1], Halt) = instances[<<t, running[t]>>].entry

EntersOwn == \A t \in Tasks : Installed(t) => RunsOwn(t)

(* Every task runs an image of its own (the comment at R:4397-4399: tasks  *)
(* need independent instances, a same-task exec restores the initial       *)
(* bytes): what the engine and exec copy, and when, is invisible.  A task  *)
(* that runs other code than its image's is seen to run none.              *)
ImageOf == [t \in Tasks |-> IF RunsOwn(t) THEN running[t] ELSE NoTask]
DataOf == [t \in Tasks |-> IF RunsOwn(t) THEN [c \in Cells(running[t]) |-> live[CellAt(t, c)]]
                           ELSE NoWords]
EnvOf == [t \in Tasks |-> IF RunsOwn(t) THEN env[t] ELSE 0]

Private == INSTANCE PrivateImages
  WITH image <- ImageOf, data <- DataOf, env <- EnvOf, NoImage <- NoTask, Environ <- "environ",
       Envs <- 1..MaxExecs
ImplementsPrivateImages == Private!Spec
=============================================================================
