------------------------------ MODULE MCPhiEdges ------------------------------
(***************************************************************************)
(* Functions of two blocks for PhiEdges: the entry is left by any branch   *)
(* or switch, the other block by a conditional branch on the slot x; the   *)
(* entry has up to two phis, the other block up to one.                    *)
(***************************************************************************)
EXTENDS PhiEdges

CONSTANTS a, b, x, y

BlocksMC == {a, b}
ValuesMC == {x, y}

BranchesMC ==
  {[l \in BlocksMC |-> IF l = a THEN first ELSE second] :
     first \in [kind : {"br", "switch"}, cond : ValuesMC, t : BlocksMC, f : BlocksMC],
     second \in [kind : {"br"}, cond : {x}, t : BlocksMC, f : BlocksMC]}

\* The phi of dst in target, with a source for each block that leads there.
PhiMC(branch, target, dst, source) ==
  {[target |-> target, dst |-> dst, src |-> source[l], pred |-> l] :
     l \in {l \in BlocksMC : target \in {branch[l].t, branch[l].f}}}

SourcesMC == [BlocksMC -> ValuesMC]
ChoicesMC(branch, target, dst) ==
  {{}} \cup {PhiMC(branch, target, dst, source) : source \in SourcesMC}

ProgramsMC ==
  UNION {{[branch |-> branch, phis |-> px \cup py \cup pz] :
            px \in ChoicesMC(branch, a, x), py \in ChoicesMC(branch, a, y),
            pz \in ChoicesMC(branch, b, x)} : branch \in BranchesMC}
=============================================================================
