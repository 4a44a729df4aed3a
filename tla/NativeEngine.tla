---------------------------- MODULE NativeEngine ----------------------------
(***************************************************************************)
(* The compiled interpreter's copy of the program (native_vm.NativeVM over *)
(* native/p3vm.c): blocks are packed with the addresses of the symbols     *)
(* they use, codes of host services are copied into a sorted table, and    *)
(* words appended to the initial memory are copied into the live memory.   *)
(* All of this happens when the run loop finds that the sizes of the       *)
(* program's tables have changed.                                          *)
(***************************************************************************)
EXTENDS ProgramTables, FiniteSets

Unresolved == 0          \* MM_V_INVALID, frozen in a packed block

Shape(p) == <<Cardinality(DOMAIN p.functions), Cardinality(DOMAIN p.blocks),
              Cardinality(DOMAIN p.hosts)>>

Packed(p, codes) ==
  [c \in codes |->
     [body    |-> p.blocks[c],
      address |-> [s \in p.functions[p.blocks[c]] |-> At(p.symbols, s, Unresolved)]]]

NewEngine(p) ==
  [packed    |-> Packed(p, DOMAIN p.blocks),
   functions |-> DOMAIN p.functions,
   hosts     |-> DOMAIN p.hosts,
   shape     |-> Shape(p),
   synced    |-> p.nextData]

(* _ensure_program_current: nothing, a longer host table, a new segment,   *)
(* or everything anew.                                                     *)
HostAppend(p, e) ==
  /\ DOMAIN p.blocks = DOMAIN e.packed /\ DOMAIN p.functions = e.functions
  /\ e.hosts \subseteq DOMAIN p.hosts /\ e.hosts # DOMAIN p.hosts

SegmentAppend(p, e) ==
  /\ DOMAIN e.packed \subseteq DOMAIN p.blocks /\ DOMAIN e.packed # DOMAIN p.blocks
  /\ e.functions \subseteq DOMAIN p.functions /\ e.functions # DOMAIN p.functions
  /\ e.hosts \subseteq DOMAIN p.hosts

Repacked(p, e) ==
  CASE HostAppend(p, e) -> e.packed
    [] SegmentAppend(p, e) -> Over(Packed(p, DOMAIN p.blocks \ DOMAIN e.packed), e.packed)
    [] OTHER -> Packed(p, DOMAIN p.blocks)

CurrentEngine(p, e) ==
  IF Shape(p) = e.shape THEN e
  ELSE [packed    |-> Repacked(p, e),
        functions |-> DOMAIN p.functions,
        hosts     |-> DOMAIN p.hosts,
        shape     |-> Shape(p),
        synced    |-> IF p.nextData > e.synced THEN p.nextData ELSE e.synced]

(* _sync_appended_initial_memory: the words of the initial memory between  *)
(* what has been synchronised and the end of the data.                     *)
\* mutant
AppendedAll(p, e) == {a \in DOMAIN p.initial : a < p.nextData}

Appended(p, e) == {a \in DOMAIN p.initial : e.synced <= a /\ a < p.nextData}

SyncAppended(p, e, memory) == Over([a \in Appended(p, e) |-> p.initial[a]], memory)

CurrentMemory(p, e, memory) ==
  IF Shape(p) = e.shape THEN memory ELSE SyncAppended(p, e, memory)

(* A branch of a packed block through the descriptor of a symbol.  Halt    *)
(* and host codes are looked up before blocks; a host code is resolved by  *)
(* the tables of the program, a block by the packed copy.                  *)
TargetCode(e, memory, code, s) ==
  LET address == e.packed[code].address[s] IN
  IF address = Unresolved THEN 0 ELSE At(memory, address, 0)

Reached(p, e, memory, code, s) ==
  LET target == TargetCode(e, memory, code, s) IN
  CASE target \in e.hosts -> <<"service", p.hosts[target]>>
    [] target \in DOMAIN e.packed \ e.hosts -> <<"block", e.packed[target].body>>
    [] OTHER -> <<"error", target>>
=============================================================================
