------------------------------ MODULE GuestMemory ------------------------------
(***************************************************************************)
(* The part of the guest's address space that the host hands out.  Between *)
(* HEAP_BASE and the stack top of the machine lie, without any protection: *)
(*                                                                         *)
(*   the VM heap, growing up: libc allocations, buffers of host callbacks, *)
(*     and the data arenas of the user programs exec has installed;        *)
(*   the semantic-call stacks, handed out downwards from a fixed distance  *)
(*     (the gap) below the stack top, one per task and nesting level;      *)
(*   the shadow stacks, handed out downwards from just below the boot      *)
(*     stack at the stack top, one per task that is switched to.           *)
(*                                                                         *)
(* Nothing is given back, except that longjmp restores the heap pointer    *)
(* that setjmp saw, and that a semantic call which does not preserve task  *)
(* state puts back the table of the shadow stacks and their pointer.       *)
(***************************************************************************)
EXTENDS Integers, Sequences, FiniteSets

CONSTANTS
  Tasks,        \* tasks in the order in which they are first switched to: 1, 2, ...
  Callers,      \* the tasks that make semantic calls
  Levels,       \* nesting levels of their calls
  Payloads,     \* user program images
  ImageSize,    \* bytes of metadata and data of each image
  Sizes,        \* sizes that programs and callbacks ask for
  MaxBlocks,    \* bound on the allocations, and on the buffers, there are at a time
  MaxCalls,     \* bound on nested calls that do not preserve task state
  JmpBufs,      \* jump buffers
  HeapBase,     \* HEAP_BASE
  ProgramData,  \* _next_data of the program once boot has started the shell
  StackTop,     \* the machine's stack top
  Region,       \* _LINUX_SEMANTIC_STACK_BYTES, also the step of the shadow stacks
  Gap,          \* _LINUX_SEMANTIC_STACK_START_GAP
  Align         \* 16: alignment of malloc and of arenas

ASSUME LayoutAssumption ==
  /\ HeapBase \in Nat /\ ProgramData \in Nat /\ StackTop \in Nat
  /\ Region \in Nat \ {0} /\ Gap \in Nat /\ Align \in Nat \ {0}
  /\ ProgramData < HeapBase /\ HeapBase < StackTop - Gap /\ Region <= Gap
ASSUME RequestsAssumption ==
  /\ Tasks \subseteq Nat /\ Callers \subseteq Tasks
  /\ Sizes \subseteq Nat
  /\ MaxBlocks \in Nat /\ MaxCalls \in Nat
  /\ ImageSize \in [Payloads -> Nat \ {0}]

VARIABLES
  heapNext,      \* vm.heap_next
  dataNext,      \* vm.program._next_data
  shadowNext,    \* vm.linux_shadow_stack_next
  semanticNext,  \* vm.linux_semantic_stack_next
  shadow,        \* vm.linux_task_shadow_stacks: task -> top
  saved,         \* saved_shadow_stacks and saved_shadow_next of the live calls
  semantic,      \* vm.linux_task_semantic_stacks: (task, level) -> top
  allocations,   \* vm.user_allocations, as blocks
  buffers,       \* blocks that host callbacks keep using (FILEs, scratch words)
  instances,     \* vm.user_exec_instances: (task, payload) -> arena
  jmpHeap,       \* the heap pointer of each state of vm.user_setjmp_states
  known,         \* history: what was handed out when that state was saved
  taken,         \* history: what a jump took back while it was in use
  error          \* the VMError that ended the run

heapVars  == <<heapNext, dataNext, allocations, buffers, instances, taken>>
stackVars == <<shadowNext, semanticNext, shadow, semantic, saved>>
jmpVars   == <<jmpHeap, known>>
vars == <<heapVars, stackVars, jmpVars, error>>
-----------------------------------------------------------------------------
NoStack == -1
NoHeap == -1
NoError == "none"
Running == error = NoError

Block == [base : Nat, end : Nat]
NoBlock == [base |-> 0, end |-> 0]
Apart(b, c) == b.end <= c.base \/ c.end <= b.base

AlignUp(x, a) == x + ((0 - x) % a)

\* An allocation of zero bytes takes one, so that pointers are distinct.
AtLeastOne(size) == IF size = 0 THEN 1 ELSE size

NewBlock(size, align) ==
  LET base == AlignUp(heapNext, align)
  IN  [base |-> base, end |-> base + AtLeastOne(size)]

Arenas == {instances[k] : k \in Tasks \X Payloads} \ {NoBlock}

\* What is in use, with who uses it; what of it no jump has taken back.
Uses == {"malloc", "host", "exec"}
Live == ({"malloc"} \X allocations) \cup ({"host"} \X buffers) \cup ({"exec"} \X Arenas)
Kept == Live \ taken

RoomIn(blocks) == Cardinality(blocks) < MaxBlocks

\* alloc_bytes: the pointer moves first; then the collision is noticed.
Allocate(block) ==
  /\ heapNext' = block.end
  /\ error' = IF block.end >= StackTop THEN "heap" ELSE NoError
-----------------------------------------------------------------------------
(***************************************************************************)
(* The heap of the libc surface.                                           *)
(***************************************************************************)

\* A table entry is replaced when the same pointer is handed out again.
Recorded(block) == {b \in allocations : b.base # block.base} \cup {block}

Forgotten(block) == [env \in JmpBufs |-> known[env] \ {<<"malloc", block>>}]

Malloc(size) ==
  LET block == NewBlock(size, Align)
  IN  /\ Running /\ RoomIn(allocations)
      /\ Allocate(block)
      /\ IF block.end >= StackTop THEN UNCHANGED <<allocations, taken>>
         ELSE /\ allocations' = Recorded(block)
              /\ taken' = taken \ {<<"malloc", block>>}
      /\ UNCHANGED <<dataNext, buffers, instances, stackVars, jmpVars>>

Free(block) ==
  /\ Running
  /\ block \in allocations
  /\ allocations' = allocations \ {block}
  /\ taken' = taken \ {<<"malloc", block>>}
  /\ known' = Forgotten(block)
  /\ UNCHANGED <<heapNext, dataNext, buffers, instances, stackVars, jmpHeap, error>>

\* realloc always moves; of size zero it frees, of a null pointer it allocates.
Realloc(old, size) ==
  LET block == NewBlock(size, Align)
  IN  /\ Running
      /\ old \in allocations /\ size > 0
      /\ Allocate(block)
      /\ IF block.end >= StackTop THEN UNCHANGED <<allocations, taken, known>>
         ELSE /\ allocations' = (Recorded(block) \ {old}) \cup {block}
              /\ taken' = taken \ {<<"malloc", old>>, <<"malloc", block>>}
              /\ known' = Forgotten(old)
      /\ UNCHANGED <<dataNext, buffers, instances, stackVars, jmpHeap>>

HostAlloc(size) ==
  LET block == NewBlock(size, 1)
  IN  /\ Running /\ RoomIn(buffers)
      /\ Allocate(block)
      /\ IF block.end >= StackTop THEN UNCHANGED <<buffers, taken>>
         ELSE /\ buffers' = buffers \cup {block}
              /\ taken' = taken \ {<<"host", block>>}
      /\ UNCHANGED <<dataNext, allocations, instances, stackVars, jmpVars>>

SavedOnce(env) == IF jmpHeap[env] = NoHeap THEN heapNext ELSE jmpHeap[env]  \* mutant
SavedHeap(env) == heapNext

Setjmp(env) ==
  /\ Running
  /\ jmpHeap' = [jmpHeap EXCEPT ![env] = SavedHeap(env)]
  /\ known' = [known EXCEPT ![env] = Kept]
  /\ UNCHANGED <<heapVars, stackVars, error>>

\* The pointer goes back whatever has been handed out since and is still in use.
Longjmp(env) ==
  /\ Running
  /\ jmpHeap[env] # NoHeap
  /\ heapNext' = jmpHeap[env]
  /\ taken' = taken \cup (Live \ known[env])
  /\ UNCHANGED <<dataNext, allocations, buffers, instances, stackVars, jmpVars, error>>
-----------------------------------------------------------------------------
(***************************************************************************)
(* The data arena of a program that exec installs for a task.  A second    *)
(* exec of the same image by the same task resets its arena in place.      *)
(***************************************************************************)
HeapAfterExec(end) == AlignUp(end, Align)

ExecInstall(t, p) ==
  LET base == AlignUp(heapNext, Align)
      end  == base + ImageSize[p]
  IN  /\ Running
      /\ instances[<<t, p>>] = NoBlock
      /\ IF base <= dataNext \/ base >= StackTop
         THEN error' = "arena" /\ UNCHANGED heapVars
         ELSE /\ dataNext' = end
              /\ IF end >= StackTop
                 THEN error' = "arena" /\ UNCHANGED <<heapNext, instances, taken>>
                 ELSE /\ heapNext' = HeapAfterExec(end)
                      /\ instances' = [instances EXCEPT ![<<t, p>>] = [base |-> base, end |-> end]]
                      /\ taken' = taken \ {<<"exec", [base |-> base, end |-> end]>>}
                      /\ UNCHANGED error
              /\ UNCHANGED <<allocations, buffers>>
      /\ UNCHANGED <<stackVars, jmpVars>>
-----------------------------------------------------------------------------
(***************************************************************************)
(* Stacks.                                                                 *)
(***************************************************************************)
StackAt(top) == [base |-> top - Region, end |-> top]

\* Service 2, the first time it switches to a task.
ShadowKept == shadowNext                                           \* mutant
ShadowBelow == shadowNext - Region

FirstSwitch(t) ==
  /\ Running
  /\ shadow[t] = NoStack
  /\ \A u \in Tasks : u < t => shadow[u] # NoStack
  /\ shadowNext' = ShadowBelow
  /\ IF shadowNext' <= heapNext
     THEN error' = "shadow" /\ UNCHANGED shadow
     ELSE shadow' = [shadow EXCEPT ![t] = shadowNext] /\ UNCHANGED error
  /\ UNCHANGED <<heapVars, semanticNext, semantic, saved, jmpVars>>

\* _linux_semantic_call_stack_top, the first time for a task and level.
SemanticStack(t, level) ==
  LET lower == semanticNext - Region
  IN  /\ Running
      /\ semantic[<<t, level>>] = NoStack
      /\ IF lower <= heapNext
         THEN error' = "semantic" /\ UNCHANGED <<semantic, semanticNext>>
         ELSE /\ semantic' = [semantic EXCEPT ![<<t, level>>] = semanticNext]
              /\ semanticNext' = lower
              /\ UNCHANGED error
      /\ UNCHANGED <<heapVars, shadowNext, shadow, saved, jmpVars>>

\* _call_linux_function_preserving_control without preserve_linux_task_state:
\* its entry, its return, and its end when an exec or exit transfer unwinds it.
BeginCall ==
  /\ Running
  /\ Len(saved) < MaxCalls
  /\ saved' = Append(saved, [shadow |-> shadow, next |-> shadowNext])
  /\ UNCHANGED <<heapVars, shadowNext, semanticNext, shadow, semantic, jmpVars, error>>

LastSaved == saved[Len(saved)]
AllButLast == SubSeq(saved, 1, Len(saved) - 1)

EndCall ==
  /\ Running
  /\ saved # <<>>
  /\ saved' = AllButLast
  /\ \/ shadow' = LastSaved.shadow /\ shadowNext' = LastSaved.next
     \/ UNCHANGED <<shadow, shadowNext>>
  /\ UNCHANGED <<heapVars, semanticNext, semantic, jmpVars, error>>
-----------------------------------------------------------------------------
Init ==
  /\ heapNext = HeapBase
  /\ dataNext = ProgramData
  /\ shadowNext = StackTop - Region
  /\ semanticNext = StackTop - Gap
  /\ shadow = [t \in Tasks |-> NoStack]
  /\ semantic = [k \in Callers \X Levels |-> NoStack]
  /\ saved = <<>>
  /\ allocations = {}
  /\ buffers = {}
  /\ instances = [k \in Tasks \X Payloads |-> NoBlock]
  /\ jmpHeap = [env \in JmpBufs |-> NoHeap]
  /\ known = [env \in JmpBufs |-> {}]
  /\ taken = {}
  /\ error = NoError

Next ==
  \/ \E size \in Sizes : Malloc(size) \/ HostAlloc(size)
  \/ \E block \in allocations : \/ Free(block)
                                \/ \E size \in Sizes : Realloc(block, size)
  \/ \E env \in JmpBufs : Setjmp(env) \/ Longjmp(env)
  \/ \E t \in Tasks, p \in Payloads : ExecInstall(t, p)
  \/ \E t \in Tasks : FirstSwitch(t)
  \/ \E t \in Callers, level \in Levels : SemanticStack(t, level)
  \/ BeginCall \/ EndCall

Spec == Init /\ [][Next]_vars
-----------------------------------------------------------------------------
SavedTables == [shadow : [Tasks -> Int], next : Int]
SavedTyped == saved \in Seq(SavedTables)
HistoryTyped ==
  known \in [JmpBufs -> SUBSET (Uses \X Block)] /\ taken \in SUBSET (Uses \X Block)

\* The type of every variable.
TypeOK ==
  /\ heapNext \in Nat /\ dataNext \in Nat
  /\ shadowNext \in Int /\ semanticNext \in Int
  /\ shadow \in [Tasks -> Int]
  /\ semantic \in [Callers \X Levels -> Int]
  /\ SavedTyped
  /\ allocations \subseteq Block
  /\ buffers \subseteq Block
  /\ instances \in [Tasks \X Payloads -> Block]
  /\ jmpHeap \in [JmpBufs -> Nat \cup {NoHeap}]
  /\ HistoryTyped

StartedTasks == {t \in Tasks : shadow[t] # NoStack}
UsedLevels == {k \in Callers \X Levels : semantic[k] # NoStack}

StacksApart ==
  /\ \A t, u \in StartedTasks : t # u => Apart(StackAt(shadow[t]), StackAt(shadow[u]))
  /\ \A k, l \in UsedLevels : k # l => Apart(StackAt(semantic[k]), StackAt(semantic[l]))
  /\ \A t \in StartedTasks, k \in UsedLevels :
       Apart(StackAt(shadow[t]), StackAt(semantic[k]))
  /\ \A t \in StartedTasks : Apart(StackAt(shadow[t]), StackAt(StackTop))
  /\ \A k \in UsedLevels : Apart(StackAt(semantic[k]), StackAt(StackTop))

\* What malloc, realloc, the host callbacks and exec hand out is not handed out
\* again while it is in use: it overlaps neither what else is in use nor what the
\* heap will hand out next.  longjmp takes back what was handed out since its
\* setjmp, in use or not, and nothing that was in use before.  Arenas never overlap
\* each other, not even after a jump.
HeapExclusive ==
  /\ \A x, y \in Kept : x # y => Apart(x[2], y[2])
  /\ \A x \in Kept : x[2].end <= heapNext
  /\ \A k, l \in Tasks \X Payloads :
       k # l /\ instances[k] # NoBlock /\ instances[l] # NoBlock
         => Apart(instances[k], instances[l])

\* Every task has its own shadow stack, every task and nesting level its own
\* semantic-call stack, and none of them meets another or the boot stack, as
\* long as the shadow stacks have not used up the gap.
StacksExclusive ==
  shadowNext >= StackTop - Gap => StacksApart
=============================================================================
