---------------------------- MODULE ParallelCopies ----------------------------
(***************************************************************************)
(* _parallel_copies of legalize.py.  The phis of a block are assigned      *)
(* simultaneously when an edge into it is taken; the machine only has      *)
(* single moves.  The algorithm repeatedly emits a move whose destination  *)
(* no pending copy still reads and, when there is none, saves the          *)
(* destination of the first pending copy in a fresh temporary slot and     *)
(* makes its readers read that instead.                                    *)
(*                                                                         *)
(* The store is symbolic: a slot initially holds the value named after it. *)
(* Widths are left out: a copy is as wide as the type of its destination,  *)
(* which is the type of its source.                                        *)
(***************************************************************************)
EXTENDS Integers, Sequences, FiniteSets

CONSTANTS
  Slots,      \* frame slots of the function
  Temps,      \* names the temporary counter has not used yet
  Imms,       \* immediate and symbol operands
  CopyLists   \* the copy lists of the edges considered

Places == Slots \cup Temps
Copy == [dst : Slots, src : Slots \cup Imms]

\* Entries for one phi on one edge may be repeated (a switch with two cases on
\* one block), but they agree: LLVM requires it.
Functional(list) ==
  \A i, j \in DOMAIN list : list[i].dst = list[j].dst => list[i].src = list[j].src

ASSUME NamesDisjoint ==
  Slots \cap Temps = {} /\ Imms \cap Slots = {} /\ Imms \cap Temps = {}
ASSUME CopyListsAssumption ==
  \A list \in CopyLists : list \in Seq(Copy) /\ Functional(list)

VARIABLES
  copies,   \* the argument: the edge's phi copies
  pending,  \* the positions of the copies not emitted yet
  source,   \* what the copy at a position reads now
  store,    \* what the emitted moves make of the frame
  used      \* temporaries taken so far

copiesVars == <<copies, pending, source, store, used>>
-----------------------------------------------------------------------------
ValueOf(src) == IF src \in Places THEN store[src] ELSE src

\* The first position of a set: the list is kept in its order.
First(i, positions) == i \in positions /\ \A j \in positions : i <= j

\* Copies of a slot to itself are dropped at once.
NotSelf(list) == {i \in 1..Len(list) : list[i].src # list[i].dst}

SourceSlots == {source[j] : j \in pending} \cap Places

SafeUnlessFirst(i) ==                                              \* mutant
  \A j \in pending : First(j, pending) => source[j] # copies[i].dst
Safe(i) == copies[i].dst \notin SourceSlots

EmittedFirst(i) == {j \in pending : ~First(j, pending)}            \* mutant
Emitted(i) == pending \ {i}

EmitSafe ==
  /\ \E i \in pending :
       /\ First(i, {j \in pending : Safe(j)})
       /\ store' = [store EXCEPT ![copies[i].dst] = ValueOf(source[i])]
       /\ pending' = Emitted(i)
  /\ UNCHANGED <<copies, source, used>>

RedirectOne(from, to) ==                                           \* mutant
  [i \in DOMAIN source |->
     IF First(i, {j \in pending : source[j] = from}) THEN to ELSE source[i]]
Redirect(from, to) ==
  [i \in DOMAIN source |->
     IF i \in pending /\ source[i] = from THEN to ELSE source[i]]

BreakCycle ==
  /\ \A i \in pending : ~Safe(i)
  /\ \E i \in pending, t \in Temps \ used :
       /\ First(i, pending)
       /\ store' = [store EXCEPT ![t] = store[copies[i].dst]]
       /\ source' = Redirect(copies[i].dst, t)
       /\ used' = used \cup {t}
  /\ UNCHANGED <<copies, pending>>

CopiesInit ==
  /\ copies \in CopyLists
  /\ pending = NotSelf(copies)
  /\ source = [i \in 1..Len(copies) |-> copies[i].src]
  /\ store = [p \in Places |-> p]
  /\ used = {}

CopiesNext == EmitSafe \/ BreakCycle

\* The loop of the algorithm runs to its end.
CopiesSpec == CopiesInit /\ [][CopiesNext]_copiesVars /\ WF_copiesVars(CopiesNext)
-----------------------------------------------------------------------------
\* The type of every variable.
TypeOK ==
  /\ copies \in Seq(Copy) /\ Functional(copies)
  /\ pending \subseteq 1..Len(copies)
  /\ source \in [1..Len(copies) -> Places \cup Imms]
  /\ store \in [Places -> Places \cup Imms]
  /\ used \subseteq Temps

\* d gets the value v from one of the phis of the edge.
Wanted(d, v) == \E i \in 1..Len(copies) : copies[i].dst = d /\ copies[i].src = v
Dests == {copies[i].dst : i \in 1..Len(copies)}
PendingDests == {copies[i].dst : i \in pending}

\* A pending copy still finds the value its phi wants, wherever that has been
\* moved to meanwhile; a destination no longer pending holds it; no other slot
\* has been touched.
SourcesKept ==
  /\ \A i \in pending : ValueOf(source[i]) = copies[i].src
  /\ \A d \in Dests \ PendingDests : Wanted(d, store[d])
  /\ \A s \in Slots \ Dests : store[s] = s

\* The moves _parallel_copies emits for an edge have the effect of the
\* simultaneous assignment of LLVM's phis: swaps, rotations, fans and repeated
\* entries included, no value is lost and no other slot is changed.
Simultaneous ==
  pending = {} =>
    /\ \A i \in 1..Len(copies) : store[copies[i].dst] = copies[i].src
    /\ \A s \in Slots \ Dests : store[s] = s

\* The algorithm ends, and half as many temporaries as slots are enough: one
\* for each cycle of copies.
Terminates == <>(pending = {})
=============================================================================
