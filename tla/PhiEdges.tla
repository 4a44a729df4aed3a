------------------------------- MODULE PhiEdges -------------------------------
(***************************************************************************)
(* legalize_function places the copies of LLVM's phis on the edges of the  *)
(* control-flow graph.  The copies of an unconditional edge run before the *)
(* terminator of the predecessor; a conditional edge is split by a fresh   *)
(* block, so that they run after the predicate and on the chosen path      *)
(* only; a switch has split its edges when the phis are placed.            *)
(*                                                                         *)
(* The module lowers a program and then runs it beside the original, whose *)
(* phis are simultaneous.  The copies of one edge are one assignment here, *)
(* which is what ParallelCopies proves of the moves they become.           *)
(***************************************************************************)
EXTENDS Sequences

CONSTANTS
  Blocks,    \* labels of the function's blocks
  Entry,     \* its first block
  Values,    \* its values, all of type i1
  Programs   \* the functions considered

Branch == [kind : {"br", "switch"}, cond : Values, t : Blocks, f : Blocks]
Phi == [target : Blocks, dst : Values, src : Values, pred : Blocks]

\* A block's phis name each predecessor once with each of its edges, and agree.
WellFormed(p) ==
  /\ \A phi, other \in p.phis :
       /\ phi.target \in {p.branch[phi.pred].t, p.branch[phi.pred].f}
       /\ (phi.target = other.target /\ phi.dst = other.dst /\ phi.pred = other.pred)
            => phi.src = other.src
  /\ \A phi \in p.phis, b \in Blocks :
       phi.target \in {p.branch[b].t, p.branch[b].f} =>
         \E other \in p.phis :
           other.target = phi.target /\ other.dst = phi.dst /\ other.pred = b

ASSUME ProgramsAssumption ==
  /\ Entry \in Blocks /\ Blocks \cap {"case", "default"} = {}
  /\ \A p \in Programs : /\ p.branch \in [Blocks -> Branch]
                         /\ p.phis \subseteq Phi
                         /\ WellFormed(p)

VARIABLES
  program,   \* the LLVM function
  code,      \* out_blocks: label -> copies before the terminator, terminator
  edges,     \* copies_by_edge not placed yet: <<predecessor label, target>>
  at, frame, \* the lowered function's label and frame
  refAt, refFrame  \* the same of the original

vars == <<program, code, edges, at, frame, refAt, refFrame>>
-----------------------------------------------------------------------------
(***************************************************************************)
(* Labels: a block of the function, one of the edge blocks a switch makes, *)
(* or the block that splits the edge from a block to a target.             *)
(***************************************************************************)
Label(b) == <<b>>
CaseEdge(b) == <<b, "case">>
DefaultEdge(b) == <<b, "default">>
SplitEdge(label, target) == Append(label, target)

Jump(target) == [copies |-> {}, cond |-> {}, t |-> Label(target), f |-> Label(target)]

\* The predicate is a slot, or nothing for a branch that compares 0 with 0.
Test(slot, t, f) == [copies |-> {}, cond |-> {slot}, t |-> t, f |-> f]

LoweredBranch(b, br) ==
  IF br.kind = "switch"
  THEN [label \in {Label(b), CaseEdge(b), DefaultEdge(b)} |->
          CASE label = Label(b)       -> Test(br.cond, CaseEdge(b), DefaultEdge(b))
            [] label = CaseEdge(b)    -> Jump(br.t)
            [] label = DefaultEdge(b) -> Jump(br.f)]
  ELSE [label \in {Label(b)} |-> Test(br.cond, Label(br.t), Label(br.f))]

\* pre_split_edge_blocks of a switch, or the block itself.
EdgePredecessors(b, br, target) ==
  IF br.kind = "switch"
  THEN {label \in {CaseEdge(b), DefaultEdge(b)} :
          \/ label = CaseEdge(b) /\ br.t = target
          \/ label = DefaultEdge(b) /\ br.f = target}
  ELSE {Label(b)}

EdgeLabels == UNION {{Label(b), CaseEdge(b), DefaultEdge(b)} : b \in Blocks}
CopiesByEdge(p) ==
  LET placed == {lp \in EdgeLabels \X p.phis :
                   lp[1] \in EdgePredecessors(lp[2].pred, p.branch[lp[2].pred], lp[2].target)}
  IN  {[edge |-> <<lp[1], lp[2].target>>, dst |-> lp[2].dst, src |-> lp[2].src] : lp \in placed}

CopiesOn(edge) ==
  {[dst |-> c.dst, src |-> c.src] : c \in {x \in CopiesByEdge(program) : x.edge = edge}}

LoweredBlocks(p) ==
  LET Lowered(b) == LoweredBranch(b, p.branch[b])
      labels == UNION {DOMAIN Lowered(b) : b \in Blocks}
  IN  [label \in labels |-> Lowered(label[1])[label]]

(***************************************************************************)
(* One iteration of the loop over copies_by_edge.                          *)
(***************************************************************************)
BothMatch(label, target) ==
  code[label].t = Label(target) /\ code[label].f = Label(target)

PlaceInline(label, target) ==
  code' = [code EXCEPT ![label].copies = @ \cup CopiesOn(<<label, target>>)]

\* The same predicate with other targets.
Rebranched(block, t, f) == [copies |-> block.copies, cond |-> block.cond, t |-> t, f |-> f]

\* The predecessor gets a new terminator and the edge a block of its own.
WithBlocks(label, block, new, split) ==
  [x \in DOMAIN code \cup {split} |-> CASE x = label -> block
                                       [] x = split -> new
                                       [] OTHER     -> code[x]]

SplitInline(label, target) == PlaceInline(label, target)           \* mutant
SplitBoth(label, target) ==                                        \* mutant
  LET split == SplitEdge(label, target)
  IN  code' = WithBlocks(label, Rebranched(code[label], split, split),
                         [Jump(target) EXCEPT !.copies = CopiesOn(<<label, target>>)], split)
Split(label, target) ==
  LET split == SplitEdge(label, target)
      Redirected(old) == IF old = Label(target) THEN split ELSE old
  IN  code' = WithBlocks(label,
                Rebranched(code[label], Redirected(code[label].t), Redirected(code[label].f)),
                [Jump(target) EXCEPT !.copies = CopiesOn(<<label, target>>)], split)

PlaceEdge(edge) ==
  /\ edges' = edges \ {edge}
  /\ IF BothMatch(edge[1], edge[2]) THEN PlaceInline(edge[1], edge[2])
     ELSE Split(edge[1], edge[2])
  /\ UNCHANGED <<program, at, frame, refAt, refFrame>>
-----------------------------------------------------------------------------
(***************************************************************************)
(* The lowered function executes a block: its copies, then its terminator. *)
(* The original executes with it whenever it is at one of its own blocks.  *)
(***************************************************************************)
Assigned(f, copies) ==
  [s \in Values |-> IF \E c \in copies : c.dst = s
                   THEN f[(CHOOSE c \in copies : c.dst = s).src] ELSE f[s]]

AtOwnBlock == Len(at) = 1

RefTarget ==
  LET br == program.branch[refAt] IN IF refFrame[br.cond] THEN br.t ELSE br.f
RefPhis(target) == {phi \in program.phis : phi.target = target /\ phi.pred = refAt}

Execute ==
  /\ edges = {}
  /\ frame' = Assigned(frame, code[at].copies)
  /\ at' = IF \A slot \in code[at].cond : frame'[slot] THEN code[at].t ELSE code[at].f
  /\ IF AtOwnBlock
     THEN refAt' = RefTarget /\ refFrame' = Assigned(refFrame, RefPhis(RefTarget))
     ELSE UNCHANGED <<refAt, refFrame>>
  /\ UNCHANGED <<program, code, edges>>

Init ==
  /\ program \in Programs
  /\ code = LoweredBlocks(program)
  /\ edges = {c.edge : c \in CopiesByEdge(program)}
  /\ at = Label(Entry) /\ refAt = Entry
  /\ frame \in [Values -> BOOLEAN] /\ refFrame = frame

Next == (\E edge \in edges : PlaceEdge(edge)) \/ Execute

Spec == Init /\ [][Next]_vars
-----------------------------------------------------------------------------
\* Whenever the lowered function is at a block of the original it is the block
\* the original is at, with the same values: a predicate is never evaluated
\* after the copies of its own edges, no path executes the copies of another,
\* and the two edges of a switch into one block carry the same copies.
SameBehaviour == AtOwnBlock => at = Label(refAt) /\ frame = refFrame

\* Every branch leads to a block that exists, and an edge with phis that is not
\* placed yet is still a branch of its predecessor ("predecessor does not
\* branch to target" never happens).
EdgesFound ==
  /\ \A label \in DOMAIN code : {code[label].t, code[label].f} \subseteq DOMAIN code
  /\ \A edge \in edges : Label(edge[2]) \in {code[edge[1]].t, code[edge[1]].f}
=============================================================================
