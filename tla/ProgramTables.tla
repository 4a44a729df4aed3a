--------------------------- MODULE ProgramTables ---------------------------
(***************************************************************************)
(* The linked program (vm.Program): tables from symbols to addresses and   *)
(* from code addresses to blocks and host services, and the initial memory *)
(* with a descriptor for every function and service.                       *)
(*                                                                         *)
(* Memory is counted in words of 8 bytes.  A descriptor takes two words,   *)
(* the entry code and the frame size; the model keeps the first and leaves *)
(* the second word empty.  A function has one block; what matters of its   *)
(* body is the set of symbols it uses.                                     *)
(***************************************************************************)
EXTENDS Naturals, Sequences

CONSTANTS CodeBase,   \* first code address, that of the halt code
          DataBase    \* first word of program data

ASSUME LayoutAssumption == {CodeBase, DataBase} \subseteq Nat \ {0}

NoWords == [a \in {} |-> 0]
At(table, key, default) == IF key \in DOMAIN table THEN table[key] ELSE default

(* An entry of a table set, and the entries of f laid over those of g.     *)
Put(table, key, value) ==
  [x \in DOMAIN table \cup {key} |-> IF x = key THEN value ELSE table[x]]
Over(f, g) == [x \in DOMAIN f \cup DOMAIN g |-> IF x \in DOMAIN f THEN f[x] ELSE g[x]]

(* A symbol is a name in a namespace, which is a sequence of words.        *)
Halt == <<<<"halt">>, "halt">>

EmptyProgram ==
  [functions |-> <<>>,                            \* symbol -> symbols it uses
   blocks    |-> <<>>,                            \* code -> symbol
   hosts     |-> [c \in {CodeBase} |-> Halt],   \* code -> symbol
   symbols   |-> <<>>,                            \* symbol -> address
   initial   |-> NoWords,                         \* address -> word
   nextCode  |-> CodeBase + 1,
   nextData  |-> DataBase]

Linked(p, s) == s \in DOMAIN p.symbols

(* A symbol gets a descriptor of two words that holds its entry code.      *)
Described(p, s) ==
  [p EXCEPT !.symbols  = Put(@, s, p.nextData),
            !.initial  = Put(@, p.nextData, p.nextCode),
            !.nextCode = @ + 1,
            !.nextData = @ + 2]

AddFunction(p, s, uses) ==
  [Described(p, s) EXCEPT !.functions = Put(@, s, uses),
                          !.blocks    = Put(@, p.nextCode, s)]

RegisterService(p, s) ==
  [Described(p, s) EXCEPT !.hosts = Put(@, p.nextCode, s)]

(* The function stays linked; its descriptor leads to a host service.      *)
FastName(s) == <<<<"fast">> \o s[1], s[2]>>
ReplaceWithService(p, s) ==
  [p EXCEPT !.hosts    = Put(@, p.nextCode, FastName(s)),
            !.initial  = Put(@, p.symbols[s], p.nextCode),
            !.nextCode = @ + 1]

DefineData(p, s, word) ==
  [p EXCEPT !.symbols  = Put(@, s, p.nextData),
            !.initial  = Put(@, p.nextData, word),
            !.nextData = @ + 1]

(* Several services, functions or objects in the order of the image.  A    *)
(* symbol that is linked already is skipped where the code skips it.       *)
RegisterMissing(p, s) == IF Linked(p, s) THEN p ELSE RegisterService(p, s)
DefineMissing(p, s, word) == IF Linked(p, s) THEN p ELSE DefineData(p, s, word)

RegisterServices(p, list) ==
  LET q[i \in 0..Len(list)] == IF i = 0 THEN p ELSE RegisterMissing(q[i - 1], list[i])
  IN q[Len(list)]

AddFunctions(p, list, uses) ==
  LET q[i \in 0..Len(list)] == IF i = 0 THEN p ELSE AddFunction(q[i - 1], list[i], uses)
  IN q[Len(list)]

Accelerate(p, list) ==
  LET q[i \in 0..Len(list)] == IF i = 0 THEN p ELSE ReplaceWithService(q[i - 1], list[i])
  IN q[Len(list)]

DefineObjects(p, list) ==
  LET q[i \in 0..Len(list)] == IF i = 0 THEN p ELSE DefineData(q[i - 1], list[i], 0)
  IN q[Len(list)]

(* The objects of a module image are laid out first, then aliases are      *)
(* resolved and relocations are written: pointers to linked symbols.       *)
InstallImage(p, objects, relocations) ==
  LET laid == DefineObjects(p, objects) IN
  [laid EXCEPT !.initial =
     Over([a \in {laid.symbols[s] : s \in DOMAIN relocations} |->
             laid.symbols[relocations[CHOOSE s \in DOMAIN relocations : laid.symbols[s] = a]]], @)]

(* What a call of a symbol is meant to reach.                              *)
Accelerated(p, s) == \E c \in DOMAIN p.hosts : p.hosts[c] = FastName(s)
Meant(p, s) ==
  IF Accelerated(p, s) THEN <<"service", FastName(s)>>
  ELSE <<IF s \in DOMAIN p.functions THEN "block" ELSE "service", s>>
=============================================================================
