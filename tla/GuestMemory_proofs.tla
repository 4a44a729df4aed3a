-------------------------- MODULE GuestMemory_proofs --------------------------
(***************************************************************************)
(* The heap never hands out memory that is in use, but for what longjmp    *)
(* has taken back; stacks are separate until the shadow stacks reach the   *)
(* end of the gap.  Both for every layout and every number of tasks.       *)
(***************************************************************************)
EXTENDS GuestMemory, TLAPS

\* Aligning never moves a block down.
LEMMA AlignUpBounds ==
  ASSUME NEW x \in Nat, NEW a \in Nat \ {0}
  PROVE  AlignUp(x, a) \in Nat /\ AlignUp(x, a) >= x
<1>1. (0 - x) % a \in Nat
  OBVIOUS
<1> QED
  BY <1>1 DEF AlignUp

\* A new block lies at or above the heap pointer, which moves to its end.
LEMMA NewBlockAbove ==
  ASSUME heapNext \in Nat, NEW size \in Nat, NEW a \in Nat \ {0}
  PROVE  /\ NewBlock(size, a) \in Block
         /\ NewBlock(size, a).base >= heapNext
         /\ NewBlock(size, a).end > NewBlock(size, a).base
<1>1. AlignUp(heapNext, a) \in Nat /\ AlignUp(heapNext, a) >= heapNext
  BY AlignUpBounds
<1> QED
  BY <1>1 DEF NewBlock, Block, AtLeastOne

-----------------------------------------------------------------------------
(***************************************************************************)
(* Types.                                                                  *)
(***************************************************************************)
LEMMA InitTyped == Init => TypeOK
<1>1. Init => SavedTyped
  BY DEF Init, SavedTyped
<1>2. Init => HistoryTyped
  BY DEF Init, HistoryTyped
<1> QED
  BY <1>1, <1>2, LayoutAssumption DEF Init, TypeOK, NoStack, NoHeap, NoBlock, Block

\* Taking the last saved table off leaves the others as they are.
LEMMA LastSavedTyped ==
  ASSUME NEW S, saved \in Seq(S), saved # <<>>
  PROVE  /\ LastSaved \in S
         /\ AllButLast \in Seq(S)
         /\ \A i \in 1..Len(AllButLast) : i \in 1..Len(saved) /\ AllButLast[i] = saved[i]
<1>1. Len(saved) \in Nat \ {0} /\ Len(saved) \in 1..Len(saved)
  OBVIOUS
<1> QED
  BY <1>1 DEF LastSaved, AllButLast

\* A call saves the table as it is typed; every other step saves nothing.
LEMMA NextSavedTyped == TypeOK /\ [Next]_vars => SavedTyped'
<1> SUFFICES ASSUME TypeOK, [Next]_vars PROVE SavedTyped'
  OBVIOUS
<1>0. SavedTyped
  BY DEF TypeOK
<1>1. CASE UNCHANGED saved
  BY <1>0, <1>1 DEF SavedTyped
<1>2. CASE BeginCall
  <2>1. [shadow |-> shadow, next |-> shadowNext] \in SavedTables
    BY DEF TypeOK, SavedTables
  <2> QED
    BY <1>0, <1>2, <2>1 DEF BeginCall, SavedTyped
<1>3. CASE EndCall
  BY <1>0, <1>3, LastSavedTyped DEF EndCall, SavedTyped
<1> QED
  BY <1>1, <1>2, <1>3
  DEF Next, Malloc, HostAlloc, Free, Realloc, Setjmp, Longjmp, ExecInstall, FirstSwitch,
      SemanticStack, vars, stackVars

\* What is in use is a block.
LEMMA KeptTyped == TypeOK => Live \subseteq Uses \X Block /\ Kept \subseteq Uses \X Block
<1> SUFFICES ASSUME TypeOK PROVE Live \subseteq Uses \X Block
  BY DEF Kept
<1>1. Arenas \subseteq Block
  BY DEF TypeOK, Arenas
<1>2. allocations \subseteq Block /\ buffers \subseteq Block
  BY DEF TypeOK
<1> QED
  BY <1>1, <1>2 DEF Live, Uses

\* Histories hold blocks with their uses.
LEMMA NextHistoryTyped == TypeOK /\ [Next]_vars => HistoryTyped'
<1> SUFFICES ASSUME TypeOK, [Next]_vars PROVE HistoryTyped'
  OBVIOUS
<1>0. /\ known \in [JmpBufs -> SUBSET (Uses \X Block)] /\ taken \in SUBSET (Uses \X Block)
      /\ Live \in SUBSET (Uses \X Block) /\ Kept \in SUBSET (Uses \X Block)
  BY KeptTyped DEF TypeOK, HistoryTyped
<1> SUFFICES known' \in [JmpBufs -> SUBSET (Uses \X Block)] /\ taken' \in SUBSET (Uses \X Block)
  BY DEF HistoryTyped
<1>1. taken' \in SUBSET (Uses \X Block)
  <2>1. \/ taken' = taken
        \/ \E b, c : taken' = taken \ {b} \/ taken' = taken \ {b, c}
        \/ \E env \in JmpBufs : taken' = taken \cup (Live \ known[env])
    BY DEF Next, Malloc, HostAlloc, Free, Realloc, Setjmp, Longjmp, ExecInstall, FirstSwitch,
       SemanticStack, BeginCall, EndCall, vars, heapVars
  <2> QED
    BY <1>0, <2>1
<1>2. known' \in [JmpBufs -> SUBSET (Uses \X Block)]
  <2>1. CASE UNCHANGED known
    BY <1>0, <2>1
  <2>2. ASSUME NEW env \in JmpBufs, Setjmp(env)
        PROVE  known' \in [JmpBufs -> SUBSET (Uses \X Block)]
    BY <1>0, <2>2 DEF Setjmp
  <2>3. ASSUME NEW b, known' = Forgotten(b)
        PROVE  known' \in [JmpBufs -> SUBSET (Uses \X Block)]
    BY <1>0, <2>3 DEF Forgotten
  <2> QED
    BY <2>1, <2>2, <2>3
    DEF Next, Malloc, HostAlloc, Free, Realloc, Longjmp, ExecInstall, FirstSwitch,
        SemanticStack, BeginCall, EndCall, vars, jmpVars
<1> QED
  BY <1>1, <1>2

\* No operation leaves the types, wherever it fails.
LEMMA NextTyped == TypeOK /\ [Next]_vars => TypeOK'
<1> SUFFICES ASSUME TypeOK, [Next]_vars PROVE TypeOK'
  OBVIOUS
<1>0. SavedTyped' /\ HistoryTyped'
  BY NextSavedTyped, NextHistoryTyped
<1> USE <1>0
<1> USE LayoutAssumption, RequestsAssumption DEF TypeOK, jmpVars
<1>1. ASSUME NEW size \in Sizes, Malloc(size) PROVE TypeOK'
  <2>1. NewBlock(size, Align) \in Block
    BY NewBlockAbove
  <2> QED
    BY <1>1, <2>1 DEF Malloc, Allocate, Recorded, stackVars, Block
<1>2. ASSUME NEW size \in Sizes, HostAlloc(size) PROVE TypeOK'
  <2>1. NewBlock(size, 1) \in Block
    BY NewBlockAbove
  <2> QED
    BY <1>2, <2>1 DEF HostAlloc, Allocate, stackVars, Block
<1>3. ASSUME NEW block \in allocations, Free(block) PROVE TypeOK'
  BY <1>3 DEF Free, stackVars
<1>4. ASSUME NEW block \in allocations, NEW size \in Sizes, Realloc(block, size)
      PROVE  TypeOK'
  <2>1. NewBlock(size, Align) \in Block
    BY NewBlockAbove
  <2> QED
    BY <1>4, <2>1 DEF Realloc, Allocate, Recorded, stackVars, Block
<1>5. ASSUME NEW env \in JmpBufs, Setjmp(env) PROVE TypeOK'
  BY <1>5 DEF Setjmp, SavedHeap, heapVars, stackVars
<1>6. ASSUME NEW env \in JmpBufs, Longjmp(env) PROVE TypeOK'
  BY <1>6 DEF Longjmp, stackVars, NoHeap
<1>7. ASSUME NEW t \in Tasks, NEW p \in Payloads, ExecInstall(t, p) PROVE TypeOK'
  <2> DEFINE base == AlignUp(heapNext, Align)
             end == base + ImageSize[p]
  <2>1. base \in Nat /\ end \in Nat /\ AlignUp(end, Align) \in Nat
    BY AlignUpBounds
  <2>2. UNCHANGED <<stackVars, allocations, buffers, jmpHeap>>
    BY <1>7 DEF ExecInstall, heapVars
  <2>3. dataNext' \in Nat /\ heapNext' \in Nat
    BY <1>7, <2>1 DEF ExecInstall, heapVars, HeapAfterExec
  <2>4. instances' \in [Tasks \X Payloads -> Block]
    <3>1. [base |-> base, end |-> end] \in Block
      BY <2>1 DEF Block
    <3> QED
      BY <1>7, <3>1 DEF ExecInstall, heapVars
  <2> QED
    BY <2>2, <2>3, <2>4 DEF stackVars
<1>8. ASSUME NEW t \in Tasks, FirstSwitch(t) PROVE TypeOK'
  BY <1>8 DEF FirstSwitch, ShadowBelow, heapVars
<1>9. ASSUME NEW t \in Callers, NEW level \in Levels, SemanticStack(t, level)
      PROVE  TypeOK'
  <2>1. UNCHANGED <<heapVars, shadowNext, shadow, jmpHeap>>
    BY <1>9 DEF SemanticStack
  <2>2. \/ UNCHANGED <<semantic, semanticNext>>
        \/ /\ semantic' = [semantic EXCEPT ![<<t, level>>] = semanticNext]
           /\ semanticNext' = semanticNext - Region
    BY <1>9 DEF SemanticStack
  <2> QED
    BY <2>1, <2>2 DEF heapVars
<1>10. CASE BeginCall
  BY <1>10 DEF BeginCall, heapVars
<1>11. CASE EndCall
  <2>1. LastSaved \in SavedTables
    BY <1>11, LastSavedTyped DEF EndCall, SavedTyped
  <2> QED
    BY <1>11, <2>1 DEF EndCall, heapVars, SavedTables
<1>12. CASE UNCHANGED vars
  BY <1>12 DEF vars, heapVars, stackVars
<1> QED
  BY <1>1, <1>2, <1>3, <1>4, <1>5, <1>6, <1>7, <1>8, <1>9, <1>10, <1>11, <1>12 DEF Next

\* Every variable keeps its type.
THEOREM TypeCorrect == Spec => []TypeOK
  BY InitTyped, NextTyped, PTL DEF Spec
-----------------------------------------------------------------------------
(***************************************************************************)
(* Stacks.                                                                 *)
(***************************************************************************)

\* The shadow stacks of a table, with the pointer that goes with it: those handed
\* out lie above the next one and apart from each other.
ShadowsBelowTop(table, next) ==
  /\ next <= StackTop - Region
  /\ \A t \in Tasks : table[t] # NoStack =>
       next + Region <= table[t] /\ table[t] <= StackTop - Region
  /\ \A t, u \in Tasks : t # u /\ table[t] # NoStack /\ table[u] # NoStack
       => Apart(StackAt(table[t]), StackAt(table[u]))

\* Every table that a live call may put back is in order with its own pointer.
SavedInv == \A i \in 1..Len(saved) : ShadowsBelowTop(saved[i].shadow, saved[i].next)

\* The same of the current table, the semantic-call stacks lie below the gap, and
\* no two of a kind overlap.
StackInv ==
  /\ shadowNext <= StackTop - Region /\ semanticNext <= StackTop - Gap
  /\ \A t \in StartedTasks :
       shadowNext + Region <= shadow[t] /\ shadow[t] <= StackTop - Region
  /\ \A k \in UsedLevels :
       semanticNext + Region <= semantic[k] /\ semantic[k] <= StackTop - Gap
  /\ \A t, u \in StartedTasks : t # u => Apart(StackAt(shadow[t]), StackAt(shadow[u]))
  /\ \A k, l \in UsedLevels : k # l => Apart(StackAt(semantic[k]), StackAt(semantic[l]))

\* No stack has been handed out at the start.
LEMMA InitStackInv == Init => StackInv
  BY LayoutAssumption DEF Init, StackInv, StartedTasks, UsedLevels

\* Steps that hand out no stack.
LEMMA KeepStackInv ==
  StackInv /\ UNCHANGED <<shadowNext, semanticNext, shadow, semantic>> => StackInv'
  BY DEF StackInv, StartedTasks, UsedLevels, StackAt

\* A shadow stack is cut off below all the others.
LEMMA FirstSwitchStackInv ==
  ASSUME TypeOK, StackInv, NEW t \in Tasks, FirstSwitch(t)
  PROVE  StackInv'
<1> USE LayoutAssumption
<1>1. shadowNext' = shadowNext - Region /\ UNCHANGED <<semanticNext, semantic>>
  BY DEF FirstSwitch, ShadowBelow
<1>2. CASE UNCHANGED shadow
  BY <1>1, <1>2 DEF StackInv, TypeOK, StartedTasks, UsedLevels, StackAt
<1>3. CASE shadow' = [shadow EXCEPT ![t] = shadowNext] /\ ~(shadowNext' <= heapNext)
  <2>1. shadow[t] = NoStack /\ t \notin StartedTasks
    BY DEF FirstSwitch, StartedTasks
  <2>2. StartedTasks' = StartedTasks \cup {t}
    BY <1>1, <1>3, <2>1 DEF StartedTasks, TypeOK, NoStack
  <2>3. shadow'[t] = shadowNext /\ \A u \in StartedTasks : shadow'[u] = shadow[u]
    BY <1>3, <2>1 DEF StartedTasks, TypeOK
  <2>4. \A u \in StartedTasks' :
          shadowNext' + Region <= shadow'[u] /\ shadow'[u] <= StackTop - Region
    BY <1>1, <2>2, <2>3 DEF StackInv, TypeOK, StartedTasks
  <2>5. \A u, v \in StartedTasks' : u # v => Apart(StackAt(shadow[u])', StackAt(shadow[v])')
    <3> SUFFICES ASSUME NEW u \in StartedTasks', NEW v \in StartedTasks', u # v
                 PROVE  Apart(StackAt(shadow'[u]), StackAt(shadow'[v]))
      BY DEF StackAt
    <3>1. CASE u = t
      BY <1>1, <2>2, <2>3, <3>1 DEF StackInv, StackAt, Apart, TypeOK, StartedTasks
    <3>2. CASE v = t
      BY <1>1, <2>2, <2>3, <3>2 DEF StackInv, StackAt, Apart, TypeOK, StartedTasks
    <3>3. CASE u # t /\ v # t
      BY <2>2, <2>3, <3>3 DEF StackInv
    <3> QED
      BY <3>1, <3>2, <3>3
  <2> QED
    BY <1>1, <2>4, <2>5 DEF StackInv, TypeOK, UsedLevels, StackAt, Apart
<1> QED
  BY <1>2, <1>3 DEF FirstSwitch

\* The stack of a semantic call is cut off below all the others.
LEMMA SemanticStackStackInv ==
  ASSUME TypeOK, StackInv, NEW t \in Callers, NEW level \in Levels, SemanticStack(t, level)
  PROVE  StackInv'
<1> USE LayoutAssumption
<1> DEFINE key == <<t, level>>
<1>1. UNCHANGED <<shadowNext, shadow>>
  BY DEF SemanticStack
<1>2. CASE UNCHANGED <<semantic, semanticNext>>
  BY <1>1, <1>2, KeepStackInv
<1>3. CASE /\ semantic' = [semantic EXCEPT ![key] = semanticNext]
           /\ semanticNext' = semanticNext - Region
           /\ ~(semanticNext - Region <= heapNext)
  <2>1. key \in Callers \X Levels /\ key \notin UsedLevels
    BY DEF SemanticStack, UsedLevels
  <2> HIDE DEF key
  <2>2. UsedLevels' = UsedLevels \cup {key}
    BY <1>3, <2>1 DEF UsedLevels, TypeOK, NoStack
  <2>3. semantic'[key] = semanticNext /\ \A k \in UsedLevels : semantic'[k] = semantic[k]
    BY <1>3, <2>1 DEF UsedLevels, TypeOK
  <2>4. \A k \in UsedLevels' :
          semanticNext' + Region <= semantic'[k] /\ semantic'[k] <= StackTop - Gap
    BY <1>3, <2>2, <2>3 DEF StackInv, TypeOK, UsedLevels
  <2>5. \A k, l \in UsedLevels' :
          k # l => Apart(StackAt(semantic[k])', StackAt(semantic[l])')
    <3> SUFFICES ASSUME NEW k \in UsedLevels', NEW l \in UsedLevels', k # l
                 PROVE  Apart(StackAt(semantic'[k]), StackAt(semantic'[l]))
      BY DEF StackAt
    <3>1. CASE k = key
      BY <1>3, <2>2, <2>3, <3>1 DEF StackInv, StackAt, Apart, TypeOK, UsedLevels
    <3>2. CASE l = key
      BY <1>3, <2>2, <2>3, <3>2 DEF StackInv, StackAt, Apart, TypeOK, UsedLevels
    <3>3. CASE k # key /\ l # key
      BY <2>2, <2>3, <3>3 DEF StackInv
    <3> QED
      BY <3>1, <3>2, <3>3
  <2> QED
    BY <1>1, <1>3, <2>4, <2>5 DEF StackInv, TypeOK, StartedTasks, StackAt, Apart
<1> QED
  BY <1>2, <1>3 DEF SemanticStack

\* The table that a call saves is in order.
LEMMA CurrentShadows ==
  ASSUME TypeOK, StackInv PROVE ShadowsBelowTop(shadow, shadowNext)
  BY DEF StackInv, ShadowsBelowTop, StartedTasks, TypeOK

\* A call that begins saves tables in order, one that ends puts them back.
LEMMA InitSavedInv == Init => SavedInv
  BY DEF Init, SavedInv

\* Every saved table stays in order.
LEMMA NextSavedInv == TypeOK /\ StackInv /\ SavedInv /\ [Next]_vars => SavedInv'
<1> SUFFICES ASSUME TypeOK, StackInv, SavedInv, [Next]_vars PROVE SavedInv'
  OBVIOUS
<1>1. CASE UNCHANGED saved
  BY <1>1 DEF SavedInv
<1>2. CASE BeginCall
  <2> DEFINE entry == [shadow |-> shadow, next |-> shadowNext]
  <2>1. saved' = Append(saved, entry) /\ Len(saved) \in Nat
    BY <1>2 DEF BeginCall, TypeOK, SavedTyped
  <2>2. ShadowsBelowTop(entry.shadow, entry.next)
    BY CurrentShadows
  <2>3. ASSUME NEW i \in 1..Len(saved')
        PROVE  saved'[i] = entry \/ (i \in 1..Len(saved) /\ saved'[i] = saved[i])
    BY <2>1 DEF TypeOK, SavedTyped
  <2> QED
    BY <2>2, <2>3 DEF SavedInv
<1>3. CASE EndCall
  BY <1>3, LastSavedTyped DEF EndCall, SavedInv, TypeOK, SavedTyped
<1> QED
  BY <1>1, <1>2, <1>3
  DEF Next, Malloc, HostAlloc, Free, Realloc, Setjmp, Longjmp, ExecInstall, FirstSwitch,
      SemanticStack, vars, stackVars

\* Putting a saved table back gives no stack away twice.
LEMMA EndCallStackInv ==
  ASSUME TypeOK, StackInv, SavedInv, EndCall
  PROVE  StackInv'
<1>1. UNCHANGED <<semanticNext, semantic>>
  BY DEF EndCall
<1>2. CASE UNCHANGED <<shadow, shadowNext>>
  BY <1>1, <1>2 DEF StackInv, StartedTasks, UsedLevels, StackAt
<1>3. CASE shadow' = LastSaved.shadow /\ shadowNext' = LastSaved.next
  <2>1. saved # <<>> /\ Len(saved) \in 1..Len(saved)
    BY DEF EndCall, TypeOK, SavedTyped
  <2>2. ShadowsBelowTop(shadow', shadowNext')
    BY <1>3, <2>1 DEF SavedInv, LastSaved
  <2>3. UsedLevels' = UsedLevels /\ StartedTasks' = {t \in Tasks : shadow'[t] # NoStack}
    BY <1>1 DEF UsedLevels, StartedTasks
  <2>4. /\ \A k \in UsedLevels' :
             semanticNext' + Region <= semantic'[k] /\ semantic'[k] <= StackTop - Gap
        /\ \A k, l \in UsedLevels' : k # l => Apart(StackAt(semantic[k])', StackAt(semantic[l])')
        /\ semanticNext' <= StackTop - Gap
    BY <1>1, <2>3 DEF StackInv, StackAt
  <2> QED
    BY <2>2, <2>3, <2>4 DEF StackInv, ShadowsBelowTop, StackAt
<1> QED
  BY <1>2, <1>3 DEF EndCall

\* No step lets two stacks of a kind overlap.
LEMMA NextStackInv == TypeOK /\ StackInv /\ SavedInv /\ [Next]_vars => StackInv'
<1> SUFFICES ASSUME TypeOK, StackInv, SavedInv, [Next]_vars PROVE StackInv'
  OBVIOUS
<1>1. CASE UNCHANGED <<shadowNext, semanticNext, shadow, semantic>>
  BY <1>1, KeepStackInv
<1>2. CASE \E t \in Tasks : FirstSwitch(t)
  BY <1>2, FirstSwitchStackInv
<1>3. CASE \E t \in Callers, level \in Levels : SemanticStack(t, level)
  BY <1>3, SemanticStackStackInv
<1>4. CASE EndCall
  BY <1>4, EndCallStackInv
<1> QED
  BY <1>1, <1>2, <1>3, <1>4
  DEF Next, Malloc, HostAlloc, Free, Realloc, Setjmp, Longjmp, ExecInstall, BeginCall, vars,
      stackVars

\* Until the shadow stacks reach the end of the gap no stack meets another.
THEOREM StacksExclusiveHolds == Spec => []StacksExclusive
<1>1. TypeOK /\ StackInv => StacksExclusive
  <2> SUFFICES ASSUME TypeOK, StackInv, shadowNext >= StackTop - Gap PROVE StacksApart
    BY DEF StacksExclusive
  <2>1. \A t \in StartedTasks, k \in UsedLevels :
          Apart(StackAt(shadow[t]), StackAt(semantic[k]))
    BY LayoutAssumption DEF StackInv, TypeOK, StackAt, Apart, StartedTasks, UsedLevels
  <2>2. \A t \in StartedTasks : Apart(StackAt(shadow[t]), StackAt(StackTop))
    BY LayoutAssumption DEF StackInv, TypeOK, StackAt, Apart, StartedTasks
  <2>3. \A k \in UsedLevels : Apart(StackAt(semantic[k]), StackAt(StackTop))
    BY LayoutAssumption DEF StackInv, TypeOK, StackAt, Apart, UsedLevels
  <2> QED
    BY <2>1, <2>2, <2>3 DEF StackInv, StacksApart
<1> QED
  BY <1>1, InitTyped, NextTyped, InitStackInv, NextStackInv, InitSavedInv, NextSavedInv, PTL DEF Spec
-----------------------------------------------------------------------------
(***************************************************************************)
(* The heap.                                                               *)
(***************************************************************************)
Installed == {k \in Tasks \X Payloads : instances[k] # NoBlock}

\* What is kept lies below the heap pointer, and apart.
KeptInv ==
  /\ \A x, y \in Kept : x # y => Apart(x[2], y[2])
  /\ \A x \in Kept : x[2].end <= heapNext

\* What was in use at a setjmp lies below the pointer it saved.
KnownInv ==
  \A env \in JmpBufs : jmpHeap[env] # NoHeap =>
    \A x \in known[env] : x[2].end <= jmpHeap[env]

\* Arenas lie below the end of the program's data, which never goes back.
ArenaInv ==
  /\ \A k, l \in Installed : k # l => Apart(instances[k], instances[l])
  /\ \A k \in Installed : instances[k].end <= dataNext

HeapInv == KeptInv /\ KnownInv /\ ArenaInv

\* Nothing has been handed out at the start.
LEMMA InitHeapInv == Init => HeapInv
<1> SUFFICES ASSUME Init PROVE HeapInv
  OBVIOUS
<1>1. Installed = {} /\ Arenas = {}
  BY DEF Init, Installed, Arenas
<1>2. Kept = {}
  BY <1>1 DEF Init, Kept, Live
<1> QED
  BY <1>1, <1>2 DEF Init, HeapInv, KeptInv, KnownInv, ArenaInv

\* The three parts are enough.
LEMMA HeapInvSuffices == HeapInv => HeapExclusive
  BY DEF HeapInv, KeptInv, ArenaInv, HeapExclusive, Installed

\* The heap pointer may move up over blocks that stay as they are.
LEMMA KeptGrows ==
  ASSUME TypeOK, KeptInv, heapNext' \in Nat, heapNext' >= heapNext, Kept' \subseteq Kept
  PROVE  KeptInv'
<1>1. \A x \in Kept : x[2].end \in Nat
  BY KeptTyped DEF Block
<1> QED
  BY <1>1 DEF KeptInv, TypeOK

\* A block at or above the heap pointer meets nothing that is kept.
LEMMA KeptAdded ==
  ASSUME TypeOK, KeptInv, NEW use \in Uses, NEW block \in Block,
         block.base >= heapNext, block.end >= block.base,
         heapNext' \in Nat, heapNext' >= block.end,
         Kept' \subseteq Kept \cup {<<use, block>>}
  PROVE  KeptInv'
<1>1. \A x \in Kept : x[2] \in Block
  BY KeptTyped
<1>2. block.base \in Nat /\ block.end \in Nat /\ heapNext \in Nat
  BY DEF Block, TypeOK
<1>3. \A x \in Kept : Apart(x[2], block) /\ Apart(block, x[2])
  BY <1>1, <1>2 DEF KeptInv, Apart, Block
<1>4. \A x \in Kept' : x \in Kept \/ (x = <<use, block>> /\ x[2] = block)
  OBVIOUS
<1>5. ASSUME NEW x \in Kept', NEW y \in Kept', x # y PROVE Apart(x[2], y[2])
  BY <1>3, <1>4, <1>5 DEF KeptInv
<1>6. ASSUME NEW x \in Kept' PROVE x[2].end <= heapNext'
  <2>1. CASE x \in Kept
    BY <1>1, <1>2, <2>1 DEF KeptInv, Block
  <2> QED
    BY <1>4, <2>1
<1> QED
  BY <1>5, <1>6 DEF KeptInv

\* A jump keeps what was in use at its setjmp, and that lies below the saved pointer.
LEMMA KeptByJump ==
  ASSUME TypeOK, HeapInv, NEW env \in JmpBufs, Longjmp(env)
  PROVE  KeptInv'
<1>1. /\ heapNext' = jmpHeap[env] /\ jmpHeap[env] # NoHeap
      /\ taken' = taken \cup (Live \ known[env])
      /\ UNCHANGED <<allocations, buffers, instances>>
  BY DEF Longjmp
<1>2. Live' = Live
  BY <1>1 DEF Live, Arenas
<1>3. Kept' \subseteq Kept \cap known[env]
  BY <1>1, <1>2 DEF Kept
<1> QED
  BY <1>1, <1>3 DEF HeapInv, KeptInv, KnownInv

\* The arena that exec installs lies above the end of the program's data.
LEMMA ArenaAdded ==
  ASSUME TypeOK, HeapInv, NEW t \in Tasks, NEW p \in Payloads, ExecInstall(t, p)
  PROVE  KeptInv' /\ ArenaInv'
<1> USE LayoutAssumption, RequestsAssumption
<1> DEFINE base == AlignUp(heapNext, Align)
           end == base + ImageSize[p]
           key == <<t, p>>
           arena == [base |-> base, end |-> end]
<1>1. base \in Nat /\ base >= heapNext /\ end \in Nat /\ end > base
  BY AlignUpBounds DEF TypeOK
<1>2. AlignUp(end, Align) \in Nat /\ AlignUp(end, Align) >= end
  BY <1>1, AlignUpBounds
<1>3. UNCHANGED <<allocations, buffers>>
  BY DEF ExecInstall, heapVars
<1>4. CASE /\ UNCHANGED <<heapNext, instances, taken>>
           /\ dataNext' = dataNext \/ (dataNext' = end /\ base > dataNext)
  <2>1. Kept' = Kept /\ Installed' = Installed
    BY <1>3, <1>4 DEF Kept, Live, Arenas, Installed
  <2>2. KeptInv'
    BY <1>4, <2>1, KeptGrows DEF HeapInv, TypeOK
  <2>3. \A k \in Installed : instances[k].end \in Nat
    BY DEF Installed, TypeOK, Block
  <2>4. ArenaInv'
    BY <1>1, <1>4, <2>1, <2>3 DEF HeapInv, ArenaInv, TypeOK
  <2> QED
    BY <2>2, <2>4
<1>5. CASE /\ heapNext' = AlignUp(end, Align) /\ instances' = [instances EXCEPT ![key] = arena]
           /\ dataNext' = end /\ base > dataNext /\ taken' = taken \ {<<"exec", arena>>}
  <2>1. arena \in Block /\ arena.base = base /\ arena.end = end /\ arena # NoBlock
    BY <1>1 DEF Block, NoBlock
  <2>2. key \in Tasks \X Payloads /\ key \notin Installed
    BY DEF ExecInstall, Installed
  <2> HIDE DEF key, arena
  <2>3. Installed' = Installed \cup {key}
    BY <1>5, <2>1, <2>2 DEF Installed, TypeOK
  <2>4. instances'[key] = arena /\ \A k \in Installed : instances'[k] = instances[k]
    BY <1>5, <2>2 DEF Installed, TypeOK
  <2>5. Arenas' \subseteq Arenas \cup {arena}
    BY <1>5, <2>2 DEF Arenas, TypeOK
  <2>6. Kept' \subseteq Kept \cup {<<"exec", arena>>}
    BY <1>3, <1>5, <2>5 DEF Kept, Live
  <2>7. KeptInv'
    <3> HIDE DEF base, end
    <3>1. heapNext' \in Nat /\ heapNext' >= arena.end
      BY <1>2, <1>5, <2>1
    <3> QED
      BY <1>1, <2>1, <2>6, <3>1, KeptAdded DEF HeapInv, Uses
  <2>8. \A k \in Installed : instances[k] \in Block /\ instances[k].end <= dataNext
    BY DEF HeapInv, ArenaInv, TypeOK, Installed
  <2>9. \A k \in Installed : Apart(instances[k], arena) /\ Apart(arena, instances[k])
    BY <1>1, <1>5, <2>1, <2>8 DEF Apart, Block, TypeOK
  <2>10. \A k \in Installed' : instances'[k].end <= dataNext'
    BY <1>1, <1>5, <2>1, <2>3, <2>4, <2>8 DEF Block, TypeOK
  <2>11. \A k, l \in Installed' : k # l => Apart(instances'[k], instances'[l])
    BY <2>3, <2>4, <2>9 DEF HeapInv, ArenaInv
  <2> QED
    BY <2>7, <2>10, <2>11 DEF ArenaInv
<1> HIDE DEF base, end, arena, key
<1>6. CASE base <= dataNext \/ base >= StackTop
  BY <1>4, <1>6 DEF ExecInstall, heapVars, base
<1>7. CASE ~(base <= dataNext \/ base >= StackTop)
  <2>1. /\ dataNext' = end /\ base > dataNext
        /\ \/ UNCHANGED <<heapNext, instances, taken>>
           \/ /\ heapNext' = AlignUp(end, Align) /\ instances' = [instances EXCEPT ![key] = arena]
              /\ taken' = taken \ {<<"exec", arena>>}
    <3>1. base > dataNext
      BY <1>1, <1>7 DEF TypeOK
    <3> QED
      BY <1>7, <3>1 DEF ExecInstall, HeapAfterExec, base, end, arena, key
  <2>2. CASE UNCHANGED <<heapNext, instances, taken>>
    BY <1>4, <2>1, <2>2
  <2> QED
    BY <1>5, <2>1, <2>2
<1> QED
  BY <1>6, <1>7

\* No step but a jump takes back what is kept, and no step hands it out again.
LEMMA NextKeptInv == TypeOK /\ HeapInv /\ [Next]_vars => KeptInv'
<1> SUFFICES ASSUME TypeOK, HeapInv, [Next]_vars PROVE KeptInv'
  OBVIOUS
<1> USE LayoutAssumption, RequestsAssumption
<1>0. KeptInv /\ heapNext \in Nat
  BY DEF HeapInv, TypeOK
<1>1. ASSUME NEW size \in Sizes, Malloc(size) PROVE KeptInv'
  <2> DEFINE block == NewBlock(size, Align)
  <2>1. block \in Block /\ block.base >= heapNext /\ block.end > block.base
    BY <1>0, NewBlockAbove
  <2>2. heapNext' = block.end /\ UNCHANGED <<buffers, instances>>
    BY <1>1 DEF Malloc, Allocate
  <2>3. \/ UNCHANGED <<allocations, taken>>
        \/ allocations' \subseteq allocations \cup {block} /\ taken' = taken \ {<<"malloc", block>>}
    BY <1>1 DEF Malloc, Recorded
  <2> HIDE DEF block
  <2>4. Kept' \subseteq Kept \cup {<<"malloc", block>>}
    BY <2>2, <2>3 DEF Kept, Live, Arenas
  <2>5. heapNext' \in Nat /\ heapNext' >= block.end /\ block.end >= block.base
    BY <2>1, <2>2 DEF Block
  <2> QED
    BY <1>0, <2>1, <2>4, <2>5, KeptAdded DEF Uses
<1>2. ASSUME NEW size \in Sizes, HostAlloc(size) PROVE KeptInv'
  <2> DEFINE block == NewBlock(size, 1)
  <2>1. block \in Block /\ block.base >= heapNext /\ block.end > block.base
    BY <1>0, NewBlockAbove
  <2>2. heapNext' = block.end /\ UNCHANGED <<allocations, instances>>
    BY <1>2 DEF HostAlloc, Allocate
  <2>3. \/ UNCHANGED <<buffers, taken>>
        \/ buffers' = buffers \cup {block} /\ taken' = taken \ {<<"host", block>>}
    BY <1>2 DEF HostAlloc
  <2> HIDE DEF block
  <2>4. Kept' \subseteq Kept \cup {<<"host", block>>}
    BY <2>2, <2>3 DEF Kept, Live, Arenas
  <2>5. heapNext' \in Nat /\ heapNext' >= block.end /\ block.end >= block.base
    BY <2>1, <2>2 DEF Block
  <2> QED
    BY <1>0, <2>1, <2>4, <2>5, KeptAdded DEF Uses
<1>3. ASSUME NEW b \in allocations, Free(b) PROVE KeptInv'
  <2>1. Kept' \subseteq Kept /\ heapNext' = heapNext
    BY <1>3 DEF Free, Kept, Live, Arenas
  <2> QED
    BY <1>0, <2>1, KeptGrows
<1>4. ASSUME NEW b \in allocations, NEW size \in Sizes, Realloc(b, size) PROVE KeptInv'
  <2> DEFINE block == NewBlock(size, Align)
  <2>1. block \in Block /\ block.base >= heapNext /\ block.end > block.base
    BY <1>0, NewBlockAbove
  <2>2. heapNext' = block.end /\ UNCHANGED <<buffers, instances>>
    BY <1>4 DEF Realloc, Allocate
  <2>3. \/ UNCHANGED <<allocations, taken>>
        \/ /\ allocations' \subseteq (allocations \ {b}) \cup {block}
           /\ taken' = taken \ {<<"malloc", b>>, <<"malloc", block>>}
    BY <1>4 DEF Realloc, Recorded
  <2> HIDE DEF block
  <2>4. Kept' \subseteq Kept \cup {<<"malloc", block>>}
    BY <2>2, <2>3 DEF Kept, Live, Arenas
  <2>5. heapNext' \in Nat /\ heapNext' >= block.end /\ block.end >= block.base
    BY <2>1, <2>2 DEF Block
  <2> QED
    BY <1>0, <2>1, <2>4, <2>5, KeptAdded DEF Uses
<1>5. CASE UNCHANGED heapVars
  <2>1. Kept' = Kept /\ heapNext' = heapNext
    BY <1>5 DEF heapVars, Kept, Live, Arenas
  <2> QED
    BY <1>0, <2>1, KeptGrows
<1>6. ASSUME NEW env \in JmpBufs, Longjmp(env) PROVE KeptInv'
  BY <1>6, KeptByJump
<1>7. ASSUME NEW t \in Tasks, NEW p \in Payloads, ExecInstall(t, p) PROVE KeptInv'
  BY <1>7, ArenaAdded
<1> QED
  BY <1>1, <1>2, <1>3, <1>4, <1>5, <1>6, <1>7
  DEF Next, Setjmp, FirstSwitch, SemanticStack, BeginCall, EndCall, vars

\* A setjmp knows what is kept, all of it below the pointer; later it only forgets.
LEMMA NextKnownInv == TypeOK /\ HeapInv /\ [Next]_vars => KnownInv'
<1> SUFFICES ASSUME TypeOK, HeapInv, [Next]_vars PROVE KnownInv'
  OBVIOUS
<1>1. ASSUME UNCHANGED jmpHeap, \A env \in JmpBufs : known'[env] \subseteq known[env]
      PROVE  KnownInv'
  BY <1>1 DEF HeapInv, KnownInv
<1>2. ASSUME NEW env \in JmpBufs, Setjmp(env) PROVE KnownInv'
  <2>1. /\ jmpHeap' = [jmpHeap EXCEPT ![env] = heapNext]
        /\ known' = [known EXCEPT ![env] = Kept]
    BY <1>2 DEF Setjmp, SavedHeap
  <2>2. \A x \in Kept : x[2].end <= heapNext
    BY DEF HeapInv, KeptInv
  <2>3. ASSUME NEW e \in JmpBufs, jmpHeap'[e] # NoHeap, NEW x \in known'[e]
        PROVE  x[2].end <= jmpHeap'[e]
    <3>1. CASE e = env
      BY <2>1, <2>2, <2>3, <3>1 DEF TypeOK, HistoryTyped
    <3>2. CASE e # env
      BY <2>1, <2>3, <3>2 DEF HeapInv, KnownInv, TypeOK, HistoryTyped
    <3> QED
      BY <3>1, <3>2
  <2> QED
    BY <2>3 DEF KnownInv
<1>3. CASE UNCHANGED jmpVars
  BY <1>1, <1>3 DEF jmpVars
<1>4. ASSUME NEW b \in allocations, Free(b) PROVE KnownInv'
  BY <1>1, <1>4 DEF Free, Forgotten
<1>5. ASSUME NEW b \in allocations, NEW size \in Sizes, Realloc(b, size) PROVE KnownInv'
  BY <1>1, <1>5 DEF Realloc, Forgotten
<1> QED
  BY <1>2, <1>3, <1>4, <1>5
  DEF Next, Malloc, HostAlloc, Longjmp, ExecInstall, FirstSwitch, SemanticStack, BeginCall,
      EndCall, vars

\* Only exec makes arenas and moves the end of the program's data.
LEMMA NextArenaInv == TypeOK /\ HeapInv /\ [Next]_vars => ArenaInv'
<1> SUFFICES ASSUME TypeOK, HeapInv, [Next]_vars PROVE ArenaInv'
  OBVIOUS
<1>1. CASE UNCHANGED <<instances, dataNext>>
  BY <1>1 DEF HeapInv, ArenaInv, Installed
<1>2. ASSUME NEW t \in Tasks, NEW p \in Payloads, ExecInstall(t, p) PROVE ArenaInv'
  BY <1>2, ArenaAdded
<1> QED
  BY <1>1, <1>2
  DEF Next, Malloc, HostAlloc, Free, Realloc, Setjmp, Longjmp, FirstSwitch, SemanticStack,
      BeginCall, EndCall, vars, heapVars

\* What the heap handed out is never handed out again while it is in use, unless a
\* jump has taken it back, and a jump takes back only what was handed out since its
\* setjmp; however programs jump.
THEOREM HeapExclusiveHolds == Spec => []HeapExclusive
<1>1. TypeOK /\ HeapInv /\ [Next]_vars => HeapInv'
  BY NextKeptInv, NextKnownInv, NextArenaInv DEF HeapInv
<1> QED
  BY <1>1, InitTyped, NextTyped, InitHeapInv, HeapInvSuffices, PTL DEF Spec
=============================================================================
