--------------------------- MODULE PhiEdges_proofs ---------------------------
(***************************************************************************)
(* Whatever the function and whatever the order in which its edges are     *)
(* processed, the predecessor of an edge still branches to its target when *)
(* the turn of the edge comes, and no branch is left without a block.      *)
(* Whatever path it then takes, the lowered function visits the blocks of  *)
(* the original in the same order and with the same values.                *)
(***************************************************************************)
EXTENDS PhiEdges, ParallelCopies, SequenceTheorems, TLAPS

IsBlock(x) == x = [copies |-> x.copies, cond |-> x.cond, t |-> x.t, f |-> x.f]

\* The labels that the branch of a block of p gives rise to, and all of them.
LabelsOf(p, b) ==
  IF p.branch[b].kind = "switch" THEN {Label(b), CaseEdge(b), DefaultEdge(b)} ELSE {Label(b)}
AllLabels(p) == UNION {LabelsOf(p, b) : b \in Blocks}

\* EdgesFound needs to know that blocks have the right shape and that an edge
\* starts at a block that is not the split of another edge.
Shaped ==
  /\ \A label \in DOMAIN code : IsBlock(code[label])
  /\ \A edge \in edges : /\ edge = <<edge[1], edge[2]>>
                         /\ edge[1] \in DOMAIN code \cap EdgeLabels /\ edge[2] \in Blocks

\* Labels of blocks and of edges of a switch are not confused.
LEMMA LabelsDiffer ==
  ASSUME NEW b \in Blocks
  PROVE  /\ Label(b)[1] = b /\ CaseEdge(b)[1] = b /\ DefaultEdge(b)[1] = b
         /\ Label(b) # CaseEdge(b) /\ Label(b) # DefaultEdge(b) /\ CaseEdge(b) # DefaultEdge(b)
         /\ {Label(b), CaseEdge(b), DefaultEdge(b)} \subseteq EdgeLabels
         /\ \A c \in Blocks : Label(b) = Label(c) => b = c
<1>1. {Label(b), CaseEdge(b), DefaultEdge(b)} \subseteq EdgeLabels
  BY DEF EdgeLabels
<1> QED
  BY <1>1 DEF Label, CaseEdge, DefaultEdge

\* The label of a split edge is not a label of a block nor of an edge of a switch.
LEMMA SplitLabels ==
  ASSUME NEW label \in EdgeLabels, NEW target \in Blocks
  PROVE  SplitEdge(label, target) \notin EdgeLabels
<1> DEFINE X == Blocks \cup {"case", "default"}
<1>1. target \in X /\ target # "case" /\ target # "default"
  BY ProgramsAssumption
<1>2. \A b \in Blocks :
        /\ Label(b) \in Seq(X) /\ Len(Label(b)) = 1
        /\ CaseEdge(b) \in Seq(X) /\ Len(CaseEdge(b)) = 2 /\ CaseEdge(b)[2] = "case"
        /\ DefaultEdge(b) \in Seq(X) /\ Len(DefaultEdge(b)) = 2 /\ DefaultEdge(b)[2] = "default"
  BY DEF Label, CaseEdge, DefaultEdge
<1>3. label \in Seq(X) /\ Len(label) \in {1, 2}
  BY <1>2 DEF EdgeLabels
<1> DEFINE split == Append(label, target)
<1>4. Len(split) = Len(label) + 1 /\ split[Len(label) + 1] = target
  BY <1>1, <1>3, AppendProperties
<1> HIDE DEF split
<1>5. ASSUME NEW b \in Blocks PROVE split \notin {Label(b), CaseEdge(b), DefaultEdge(b)}
  BY <1>1, <1>2, <1>3, <1>4
<1>6. split \notin EdgeLabels
  BY <1>5 DEF EdgeLabels
<1> QED
  BY <1>6 DEF SplitEdge, split

\* What the branch of a block becomes.
LEMMA BranchLowered ==
  ASSUME NEW p \in Programs, NEW b \in Blocks
  PROVE  /\ {p.branch[b].t, p.branch[b].f} \subseteq Blocks
         /\ LabelsOf(p, b) \subseteq AllLabels(p) /\ Label(b) \in AllLabels(p)
         /\ p.branch[b].kind = "switch" =>
              /\ LabelsOf(p, b) = {Label(b), CaseEdge(b), DefaultEdge(b)}
              /\ LoweredBlocks(p)[Label(b)] = Test(p.branch[b].cond, CaseEdge(b), DefaultEdge(b))
              /\ LoweredBlocks(p)[CaseEdge(b)] = Jump(p.branch[b].t)
              /\ LoweredBlocks(p)[DefaultEdge(b)] = Jump(p.branch[b].f)
         /\ p.branch[b].kind # "switch" =>
              /\ LabelsOf(p, b) = {Label(b)}
              /\ LoweredBlocks(p)[Label(b)] =
                   Test(p.branch[b].cond, Label(p.branch[b].t), Label(p.branch[b].f))
<1>1. p.branch[b] \in Branch
  BY ProgramsAssumption
<1>2. {p.branch[b].t, p.branch[b].f} \subseteq Blocks
  BY <1>1 DEF Branch
<1>3. LabelsOf(p, b) \subseteq AllLabels(p) /\ Label(b) \in LabelsOf(p, b)
  BY DEF AllLabels, LabelsOf
<1>4. \A c \in Blocks : DOMAIN LoweredBranch(c, p.branch[c]) = LabelsOf(p, c)
  BY DEF LoweredBranch, LabelsOf
<1>5. LoweredBlocks(p) = [label \in AllLabels(p) |-> LoweredBranch(label[1], p.branch[label[1]])[label]]
  BY <1>4 DEF LoweredBlocks, AllLabels
<1>6. \A label \in LabelsOf(p, b) : label[1] = b
  BY LabelsDiffer DEF LabelsOf
<1>7. \A label \in LabelsOf(p, b) : LoweredBlocks(p)[label] = LoweredBranch(b, p.branch[b])[label]
  BY <1>3, <1>5, <1>6
<1>8. CASE p.branch[b].kind = "switch"
  <2>1. LabelsOf(p, b) = {Label(b), CaseEdge(b), DefaultEdge(b)}
    BY <1>8 DEF LabelsOf
  <2>2. /\ LoweredBranch(b, p.branch[b])[Label(b)] = Test(p.branch[b].cond, CaseEdge(b), DefaultEdge(b))
        /\ LoweredBranch(b, p.branch[b])[CaseEdge(b)] = Jump(p.branch[b].t)
        /\ LoweredBranch(b, p.branch[b])[DefaultEdge(b)] = Jump(p.branch[b].f)
    BY <1>8, LabelsDiffer DEF LoweredBranch
  <2> QED
    BY <1>2, <1>3, <1>7, <1>8, <2>1, <2>2
<1>9. CASE p.branch[b].kind # "switch"
  <2>1. LabelsOf(p, b) = {Label(b)}
    BY <1>9 DEF LabelsOf
  <2>2. LoweredBranch(b, p.branch[b])[Label(b)] =
          Test(p.branch[b].cond, Label(p.branch[b].t), Label(p.branch[b].f))
    BY <1>9 DEF LoweredBranch
  <2> QED
    BY <1>2, <1>3, <1>7, <1>9, <2>1, <2>2
<1> QED
  BY <1>8, <1>9

\* The lowered blocks have labels and branches of the right shape.
LEMMA BlocksShaped ==
  ASSUME NEW p \in Programs
  PROVE  /\ DOMAIN LoweredBlocks(p) = AllLabels(p)
         /\ \A label \in AllLabels(p) :
              /\ IsBlock(LoweredBlocks(p)[label])
              /\ {LoweredBlocks(p)[label].t, LoweredBlocks(p)[label].f} \subseteq AllLabels(p)
<1>1. DOMAIN LoweredBlocks(p) = AllLabels(p)
  <2>1. \A c \in Blocks : DOMAIN LoweredBranch(c, p.branch[c]) = LabelsOf(p, c)
    BY DEF LoweredBranch, LabelsOf
  <2> QED
    BY <2>1 DEF LoweredBlocks, AllLabels
<1>2. ASSUME NEW label \in AllLabels(p)
      PROVE  /\ IsBlock(LoweredBlocks(p)[label])
             /\ {LoweredBlocks(p)[label].t, LoweredBlocks(p)[label].f} \subseteq AllLabels(p)
  <2>1. PICK b \in Blocks : label \in LabelsOf(p, b)
    BY DEF AllLabels
  <2>3. p.branch[b].t \in Blocks /\ p.branch[b].f \in Blocks
    BY BranchLowered
  <2>4. Label(p.branch[b].t) \in AllLabels(p) /\ Label(p.branch[b].f) \in AllLabels(p)
    BY <2>3, BranchLowered
  <2>5. CASE p.branch[b].kind = "switch"
    <3>1. /\ label \in {Label(b), CaseEdge(b), DefaultEdge(b)}
          /\ {CaseEdge(b), DefaultEdge(b)} \subseteq AllLabels(p)
      BY <2>1, <2>5, BranchLowered
    <3>2. \/ LoweredBlocks(p)[label] = Test(p.branch[b].cond, CaseEdge(b), DefaultEdge(b))
          \/ LoweredBlocks(p)[label] = Jump(p.branch[b].t)
          \/ LoweredBlocks(p)[label] = Jump(p.branch[b].f)
      BY <2>5, <3>1, BranchLowered
    <3> QED
      BY <2>4, <3>1, <3>2 DEF Test, Jump, IsBlock
  <2>6. CASE p.branch[b].kind # "switch"
    <3>1. LoweredBlocks(p)[label] = Test(p.branch[b].cond, Label(p.branch[b].t), Label(p.branch[b].f))
      BY <2>1, <2>6, BranchLowered
    <3> QED
      BY <2>4, <3>1 DEF Test, IsBlock
  <2> QED
    BY <2>5, <2>6
<1> QED
  BY <1>1, <1>2

\* An edge that carries copies is a branch of its predecessor.
LEMMA EdgesShaped ==
  ASSUME NEW p \in Programs, NEW c \in CopiesByEdge(p)
  PROVE  /\ c.edge = <<c.edge[1], c.edge[2]>>
         /\ c.edge[1] \in AllLabels(p) \cap EdgeLabels /\ c.edge[2] \in Blocks
         /\ Label(c.edge[2]) \in {LoweredBlocks(p)[c.edge[1]].t, LoweredBlocks(p)[c.edge[1]].f}
<1>0. PICK lp \in EdgeLabels \X p.phis :
         /\ c = [edge |-> <<lp[1], lp[2].target>>, dst |-> lp[2].dst, src |-> lp[2].src]
         /\ lp[1] \in EdgePredecessors(lp[2].pred, p.branch[lp[2].pred], lp[2].target)
  BY DEF CopiesByEdge
<1>1. PICK label \in EdgeLabels, phi \in p.phis :
         /\ c.edge = <<label, phi.target>>
         /\ label \in EdgePredecessors(phi.pred, p.branch[phi.pred], phi.target)
  BY <1>0
<1>2. phi.pred \in Blocks /\ phi.target \in Blocks
  BY ProgramsAssumption DEF Phi
<1>3. phi.target \in {p.branch[phi.pred].t, p.branch[phi.pred].f}
  BY ProgramsAssumption DEF WellFormed
<1>4. CASE p.branch[phi.pred].kind = "switch"
  <2>1. \/ label = CaseEdge(phi.pred) /\ p.branch[phi.pred].t = phi.target
        \/ label = DefaultEdge(phi.pred) /\ p.branch[phi.pred].f = phi.target
    BY <1>1, <1>4 DEF EdgePredecessors
  <2>2. label \in AllLabels(p) /\ LoweredBlocks(p)[label] = Jump(phi.target)
    BY <1>2, <1>4, <2>1, BranchLowered
  <2> QED
    BY <1>1, <1>2, <2>2 DEF Jump
<1>5. CASE p.branch[phi.pred].kind # "switch"
  <2>1. label = Label(phi.pred)
    BY <1>1, <1>5 DEF EdgePredecessors
  <2>2. /\ label \in AllLabels(p)
        /\ LoweredBlocks(p)[label] = Test(p.branch[phi.pred].cond, Label(p.branch[phi.pred].t),
                                          Label(p.branch[phi.pred].f))
    BY <1>2, <1>5, <2>1, BranchLowered
  <2> QED
    BY <1>1, <1>2, <1>3, <2>2 DEF Test
<1> QED
  BY <1>4, <1>5

\* A copy placed before the terminator of its predecessor changes no branch.
LEMMA InlineKeeps ==
  ASSUME Shaped, EdgesFound, NEW edge \in edges, PlaceInline(edge[1], edge[2]), edges' = edges \ {edge}
  PROVE  Shaped' /\ EdgesFound'
<1>1. edge[1] \in DOMAIN code
  BY DEF Shaped
<1>2. /\ DOMAIN code' = DOMAIN code
      /\ \A x \in DOMAIN code :
           code'[x] = IF x = edge[1] THEN [code[x] EXCEPT !.copies = @ \cup CopiesOn(<<edge[1], edge[2]>>)]
                      ELSE code[x]
  BY <1>1 DEF PlaceInline
<1>3. \A x \in DOMAIN code : IsBlock(code'[x]) /\ code'[x].t = code[x].t /\ code'[x].f = code[x].f
  BY <1>2 DEF Shaped, IsBlock
<1>4. Shaped'
  BY <1>2, <1>3 DEF Shaped
<1>5. \A x \in DOMAIN code' : {code'[x].t, code'[x].f} \subseteq DOMAIN code'
  BY <1>2, <1>3 DEF EdgesFound
<1>6. \A other \in edges' : Label(other[2]) \in {code'[other[1]].t, code'[other[1]].f}
  BY <1>2, <1>3 DEF Shaped, EdgesFound
<1> QED
  BY <1>4, <1>5, <1>6 DEF EdgesFound

\* A block that splits an edge has a label of its own, takes over the edge and
\* leaves every other edge of the predecessor alone.
LEMMA SplitKeeps ==
  ASSUME Shaped, EdgesFound, NEW edge \in edges, Split(edge[1], edge[2]), edges' = edges \ {edge}
  PROVE  Shaped' /\ EdgesFound'
<1> DEFINE split == SplitEdge(edge[1], edge[2])
           Redirected(old) == IF old = Label(edge[2]) THEN split ELSE old
           new == [Jump(edge[2]) EXCEPT !.copies = CopiesOn(<<edge[1], edge[2]>>)]
           block == Rebranched(code[edge[1]], Redirected(code[edge[1]].t), Redirected(code[edge[1]].f))
<1>1. /\ edge[1] \in DOMAIN code /\ edge[1] \in EdgeLabels /\ edge[2] \in Blocks
      /\ edge = <<edge[1], edge[2]>>
  BY DEF Shaped
<1>2. split \notin EdgeLabels /\ split # edge[1]
  BY <1>1, SplitLabels
<1>3. Label(edge[2]) \in DOMAIN code
  BY <1>1 DEF EdgesFound
<1>4. code' = WithBlocks(edge[1], block, new, split)
  BY DEF Split
<1>5. IsBlock(new) /\ new.t = Label(edge[2]) /\ new.f = Label(edge[2])
  BY DEF Jump, IsBlock
<1>6. /\ IsBlock(block)
      /\ block.t = Redirected(code[edge[1]].t) /\ block.f = Redirected(code[edge[1]].f)
  BY DEF Rebranched, IsBlock
<1> HIDE DEF split, new, block
<1>7. /\ DOMAIN code' = DOMAIN code \cup {split}
      /\ code'[edge[1]] = block
      /\ code'[split] = new
      /\ \A x \in DOMAIN code \ {edge[1], split} : code'[x] = code[x]
  <2>1. code' = [x \in DOMAIN code \cup {split} |->
                   IF x = edge[1] THEN block ELSE IF x = split THEN new ELSE code[x]]
    BY <1>2, <1>4 DEF WithBlocks
  <2> QED
    BY <1>1, <1>2, <2>1
<1>8. Shaped'
  BY <1>5, <1>6, <1>7 DEF Shaped
<1>9. \A x \in DOMAIN code' : {code'[x].t, code'[x].f} \subseteq DOMAIN code'
  BY <1>1, <1>3, <1>5, <1>6, <1>7 DEF EdgesFound
<1>10. ASSUME NEW other \in edges, other # edge
       PROVE  Label(other[2]) \in {code'[other[1]].t, code'[other[1]].f}
  <2>1. /\ other[1] \in DOMAIN code /\ other[2] \in Blocks /\ other = <<other[1], other[2]>>
        /\ Label(other[2]) \in {code[other[1]].t, code[other[1]].f}
        /\ other[1] # split
    BY <1>2 DEF Shaped, EdgesFound
  <2>2. CASE other[1] = edge[1]
    <3>1. Label(other[2]) # Label(edge[2])
      BY <1>1, <1>10, <2>1, <2>2, LabelsDiffer
    <3> QED
      BY <1>6, <1>7, <2>1, <2>2, <3>1
  <2>3. CASE other[1] # edge[1]
    BY <1>7, <2>1, <2>3
  <2> QED
    BY <2>2, <2>3
<1> QED
  BY <1>8, <1>9, <1>10 DEF EdgesFound

\* Blocks and edges keep their shape, and the edges their branches.
THEOREM EdgesStayShaped == Spec => [](Shaped /\ EdgesFound)
<1>1. Init => Shaped /\ EdgesFound
  <2> SUFFICES ASSUME Init PROVE Shaped /\ EdgesFound
    OBVIOUS
  <2>1. program \in Programs /\ code = LoweredBlocks(program) /\ edges = {c.edge : c \in CopiesByEdge(program)}
    BY DEF Init
  <2>2. Shaped
    BY <2>1, BlocksShaped, EdgesShaped DEF Shaped
  <2>3. EdgesFound
    BY <2>1, BlocksShaped, EdgesShaped DEF EdgesFound
  <2> QED
    BY <2>2, <2>3
<1>2. Shaped /\ EdgesFound /\ [Next]_vars => Shaped' /\ EdgesFound'
  <2> SUFFICES ASSUME Shaped, EdgesFound, [Next]_vars PROVE Shaped' /\ EdgesFound'
    OBVIOUS
  <2>1. ASSUME NEW edge \in edges, PlaceEdge(edge) PROVE Shaped' /\ EdgesFound'
    BY <2>1, InlineKeeps, SplitKeeps DEF PlaceEdge
  <2>2. CASE UNCHANGED <<code, edges>>
    BY <2>2 DEF Shaped, EdgesFound
  <2> QED
    BY <2>1, <2>2 DEF Next, Execute, vars
<1> QED
  BY <1>1, <1>2, PTL DEF Spec

\* When the turn of an edge comes its predecessor branches to its target, and
\* every branch leads to a block: for every function and every order of edges.
THEOREM EdgesFoundHolds == Spec => []EdgesFound
BY EdgesStayShaped, PTL
-----------------------------------------------------------------------------
\* The copies that the phis of target ask of its predecessor b.
PhisOn(b, target) == {phi \in program.phis : phi.target = target /\ phi.pred = b}
PhiCopies(b, target) == {[dst |-> phi.dst, src |-> phi.src] : phi \in PhisOn(b, target)}

\* The block of a label does these copies and goes to the target, whatever it tests.
JumpsTo(label, target, assigned) ==
  /\ label \in DOMAIN code
  /\ code[label].copies = assigned /\ code[label].t = Label(target) /\ code[label].f = Label(target)

\* An edge that has a block for itself: its copies are there once it is placed.
Carries(label, target) ==
  JumpsTo(label, target, IF <<label, target>> \in edges THEN {} ELSE CopiesOn(<<label, target>>))

\* An edge of a conditional branch: to the target as long as there is nothing to
\* copy or the edge is not placed, and then to the block that splits it.
Leads(next, label, target) ==
  \/ /\ next = Label(target)
     /\ <<label, target>> \in edges \/ CopiesOn(<<label, target>>) = {}
  \/ /\ next = SplitEdge(label, target) /\ <<label, target>> \notin edges
     /\ JumpsTo(next, target, CopiesOn(<<label, target>>))

\* What has become of the branch of block b.
SwitchPlaced(b) ==
  program.branch[b].kind = "switch" =>
    /\ Label(b) \in DOMAIN code
    /\ code[Label(b)] = Test(program.branch[b].cond, CaseEdge(b), DefaultEdge(b))
    /\ Carries(CaseEdge(b), program.branch[b].t) /\ Carries(DefaultEdge(b), program.branch[b].f)
JumpPlaced(b) ==
  program.branch[b].kind # "switch" /\ program.branch[b].t = program.branch[b].f =>
    Carries(Label(b), program.branch[b].t)
TestPlaced(b) ==
  program.branch[b].kind # "switch" /\ program.branch[b].t # program.branch[b].f =>
    /\ Label(b) \in DOMAIN code
    /\ code[Label(b)].copies = {} /\ code[Label(b)].cond = {program.branch[b].cond}
    /\ Leads(code[Label(b)].t, Label(b), program.branch[b].t)
    /\ Leads(code[Label(b)].f, Label(b), program.branch[b].f)
BranchPlaced(b) == SwitchPlaced(b) /\ JumpPlaced(b) /\ TestPlaced(b)

\* The lowered function has done what the original has, or is on an edge and
\* lacks the copies of that edge only.
Together ==
  /\ refAt \in Blocks /\ frame \in [Values -> BOOLEAN] /\ refFrame \in [Values -> BOOLEAN]
  /\ \/ at = Label(refAt) /\ frame = refFrame
     \/ /\ edges = {} /\ Len(at) # 1
        /\ JumpsTo(at, refAt, code[at].copies) /\ refFrame = Assigned(frame, code[at].copies)

LoweringInv ==
  /\ program \in Programs
  /\ edges \subseteq {c.edge : c \in CopiesByEdge(program)}
  /\ \A b \in Blocks : BranchPlaced(b)
  /\ Together

\* A label says which block it comes from and what it is.
LEMMA LabelsApart ==
  ASSUME NEW b \in Blocks, NEW c \in Blocks
  PROVE  /\ Label(b) # CaseEdge(c) /\ Label(b) # DefaultEdge(c) /\ CaseEdge(b) # DefaultEdge(c)
         /\ (Label(b) = Label(c) \/ CaseEdge(b) = CaseEdge(c) \/ DefaultEdge(b) = DefaultEdge(c)) => b = c
         /\ Len(Label(b)) = 1 /\ Len(CaseEdge(b)) = 2 /\ Len(DefaultEdge(b)) = 2
BY DEF Label, CaseEdge, DefaultEdge

\* So does the label of a split edge.
LEMMA SplitsApart ==
  ASSUME NEW b \in Blocks, NEW c \in Blocks, NEW target \in Blocks, NEW other \in Blocks
  PROVE  /\ SplitEdge(Label(b), target) = SplitEdge(Label(c), other) => b = c /\ target = other
         /\ Len(SplitEdge(Label(b), target)) = 2
         /\ SplitEdge(Label(b), target) \notin {Label(c), CaseEdge(c), DefaultEdge(c)}
<1>1. \A x, y \in Blocks : /\ Len(SplitEdge(Label(x), y)) = 2
                           /\ SplitEdge(Label(x), y)[1] = x /\ SplitEdge(Label(x), y)[2] = y
  <2> TAKE x, y \in Blocks
  <2>1. <<x>> \in Seq(Blocks)
    OBVIOUS
  <2>2. Len(Append(<<x>>, y)) = 2 /\ Append(<<x>>, y)[1] = x /\ Append(<<x>>, y)[2] = y
    BY <2>1
  <2> QED BY <2>2 DEF SplitEdge, Label
<1>2. SplitEdge(Label(b), target) \notin {Label(c), CaseEdge(c), DefaultEdge(c)}
  BY SplitLabels, LabelsDiffer
<1> QED BY <1>1, <1>2

\* The edges that have copies are the edges of the branches.
LEMMA EdgeOfBranch ==
  ASSUME LoweringInv, NEW edge \in edges
  PROVE  \E b \in Blocks :
           \/ /\ program.branch[b].kind = "switch"
              /\ \/ edge = <<CaseEdge(b), program.branch[b].t>>
                 \/ edge = <<DefaultEdge(b), program.branch[b].f>>
           \/ /\ program.branch[b].kind # "switch"
              /\ \/ edge = <<Label(b), program.branch[b].t>>
                 \/ edge = <<Label(b), program.branch[b].f>>
<1>1. PICK c \in CopiesByEdge(program) : edge = c.edge
  BY DEF LoweringInv
<1>2. PICK lp \in EdgeLabels \X program.phis :
         /\ c = [edge |-> <<lp[1], lp[2].target>>, dst |-> lp[2].dst, src |-> lp[2].src]
         /\ lp[1] \in EdgePredecessors(lp[2].pred, program.branch[lp[2].pred], lp[2].target)
  BY DEF CopiesByEdge
<1>3. PICK label \in EdgeLabels, phi \in program.phis :
         /\ edge = <<label, phi.target>>
         /\ label \in EdgePredecessors(phi.pred, program.branch[phi.pred], phi.target)
  BY <1>1, <1>2
<1>4. /\ phi.pred \in Blocks
      /\ phi.target \in {program.branch[phi.pred].t, program.branch[phi.pred].f}
  BY ProgramsAssumption DEF LoweringInv, Phi, WellFormed
<1> QED BY <1>3, <1>4 DEF EdgePredecessors

\* The copies of an edge are those of the phis of its target for its predecessor;
\* both edges of a switch into one block carry them.
LEMMA CopiesOfPhis ==
  ASSUME program \in Programs, NEW b \in Blocks, NEW target \in Blocks, NEW label,
         \/ program.branch[b].kind # "switch" /\ label = Label(b)
         \/ /\ program.branch[b].kind = "switch"
            /\ \/ label = CaseEdge(b) /\ target = program.branch[b].t
               \/ label = DefaultEdge(b) /\ target = program.branch[b].f
  PROVE  CopiesOn(<<label, target>>) = PhiCopies(b, target)
<1>1. \A phi \in program.phis : phi.pred \in Blocks /\ phi.target \in Blocks
  BY ProgramsAssumption DEF Phi
<1>2. label \in EdgeLabels
  BY LabelsDiffer
<1>3. ASSUME NEW phi \in program.phis
      PROVE  (phi.target = target /\ label \in EdgePredecessors(phi.pred, program.branch[phi.pred], target))
                <=> phi \in PhisOn(b, target)
  <2>1. ASSUME label \in EdgePredecessors(phi.pred, program.branch[phi.pred], target)
        PROVE  phi.pred = b
    BY <1>1, <2>1, LabelsApart DEF EdgePredecessors
  <2>2. ASSUME phi.pred = b
        PROVE  label \in EdgePredecessors(phi.pred, program.branch[phi.pred], target)
    BY <2>2, LabelsApart DEF EdgePredecessors
  <2> QED BY <2>1, <2>2 DEF PhisOn
<1>4. ASSUME NEW x \in CopiesOn(<<label, target>>) PROVE x \in PhiCopies(b, target)
  <2>1. PICK c \in CopiesByEdge(program) : c.edge = <<label, target>> /\ x = [dst |-> c.dst, src |-> c.src]
    BY <1>4 DEF CopiesOn
  <2>2. PICK lp \in EdgeLabels \X program.phis :
           /\ c = [edge |-> <<lp[1], lp[2].target>>, dst |-> lp[2].dst, src |-> lp[2].src]
           /\ lp[1] \in EdgePredecessors(lp[2].pred, program.branch[lp[2].pred], lp[2].target)
    BY DEF CopiesByEdge
  <2>3. lp[2] \in PhisOn(b, target) /\ x = [dst |-> lp[2].dst, src |-> lp[2].src]
    BY <1>3, <2>1, <2>2
  <2> QED BY <2>3 DEF PhiCopies
<1>5. ASSUME NEW x \in PhiCopies(b, target) PROVE x \in CopiesOn(<<label, target>>)
  <2>1. PICK phi \in PhisOn(b, target) : x = [dst |-> phi.dst, src |-> phi.src]
    BY <1>5 DEF PhiCopies
  <2>2. phi \in program.phis
    BY DEF PhisOn
  <2>3. /\ phi.target = target
        /\ label \in EdgePredecessors(phi.pred, program.branch[phi.pred], phi.target)
    BY <1>3, <2>1, <2>2
  <2> DEFINE lp == <<label, phi>>
             c == [edge |-> <<label, target>>, dst |-> phi.dst, src |-> phi.src]
  <2>4. lp \in EdgeLabels \X program.phis /\ lp[1] = label /\ lp[2] = phi
    BY <1>2, <2>2
  <2> HIDE DEF lp
  <2>5. c = [edge |-> <<lp[1], lp[2].target>>, dst |-> lp[2].dst, src |-> lp[2].src]
    BY <2>3, <2>4
  <2>6. lp[1] \in EdgePredecessors(lp[2].pred, program.branch[lp[2].pred], lp[2].target)
    BY <2>3, <2>4
  <2>7. c \in CopiesByEdge(program)
    BY <2>4, <2>5, <2>6 DEF CopiesByEdge
  <2> QED BY <2>1, <2>7 DEF CopiesOn
<1> QED BY <1>4, <1>5

\* Doing the copies does what the phis do: phis of one block agree on a source.
LEMMA CopiesActAsPhis ==
  ASSUME program \in Programs, NEW b \in Blocks, NEW target \in Blocks, NEW f
  PROVE  Assigned(f, PhiCopies(b, target)) = Assigned(f, PhisOn(b, target))
<1>1. ASSUME NEW s \in Values
      PROVE  /\ (\E c \in PhiCopies(b, target) : c.dst = s) <=> (\E phi \in PhisOn(b, target) : phi.dst = s)
             /\ (\E phi \in PhisOn(b, target) : phi.dst = s) =>
                  (CHOOSE c \in PhiCopies(b, target) : c.dst = s).src
                    = (CHOOSE phi \in PhisOn(b, target) : phi.dst = s).src
  <2>0. /\ \A phi \in PhisOn(b, target) :
             \E c \in PhiCopies(b, target) : c.dst = phi.dst
        /\ \A c \in PhiCopies(b, target) :
             \E phi \in PhisOn(b, target) : c.dst = phi.dst
    <3>1. ASSUME NEW phi \in PhisOn(b, target)
          PROVE  \E c \in PhiCopies(b, target) : c.dst = phi.dst
      <4>1. [dst |-> phi.dst, src |-> phi.src] \in PhiCopies(b, target)
        BY DEF PhiCopies
      <4> QED BY <4>1
    <3>2. ASSUME NEW c \in PhiCopies(b, target)
          PROVE  \E phi \in PhisOn(b, target) : c.dst = phi.dst
      BY DEF PhiCopies
    <3> QED BY <3>1, <3>2
  <2>1. (\E c \in PhiCopies(b, target) : c.dst = s) <=> (\E phi \in PhisOn(b, target) : phi.dst = s)
    BY <2>0
  <2>2. ASSUME \E phi \in PhisOn(b, target) : phi.dst = s
        PROVE  (CHOOSE c \in PhiCopies(b, target) : c.dst = s).src
                 = (CHOOSE phi \in PhisOn(b, target) : phi.dst = s).src
    <3> DEFINE c == CHOOSE c \in PhiCopies(b, target) : c.dst = s
               phi == CHOOSE phi \in PhisOn(b, target) : phi.dst = s
    <3>1. c \in PhiCopies(b, target) /\ c.dst = s /\ phi \in PhisOn(b, target) /\ phi.dst = s
      BY <2>1, <2>2
    <3> HIDE DEF c, phi
    <3>2. PICK other \in PhisOn(b, target) : c = [dst |-> other.dst, src |-> other.src]
      BY <3>1 DEF PhiCopies
    <3>3. other.dst = phi.dst /\ other.pred = phi.pred /\ other.target = phi.target
          /\ other \in program.phis /\ phi \in program.phis
      BY <3>1, <3>2 DEF PhisOn
    <3>4. other.src = phi.src
      BY <3>3, ProgramsAssumption DEF WellFormed
    <3>5. c.src = phi.src
      BY <3>2, <3>4
    <3> QED BY <3>5 DEF c, phi
  <2> QED BY <2>1, <2>2
<1> QED BY <1>1, Zenon DEF Assigned

\* Before any edge is placed, every branch is as the lowering left it.
LEMMA LoweringStarts == Init => LoweringInv
<1> SUFFICES ASSUME Init PROVE LoweringInv
  OBVIOUS
<1>1. /\ program \in Programs /\ code = LoweredBlocks(program)
      /\ edges = {c.edge : c \in CopiesByEdge(program)}
      /\ at = Label(Entry) /\ refAt = Entry /\ frame \in [Values -> BOOLEAN] /\ refFrame = frame
  BY DEF Init
<1>2. ASSUME NEW label, NEW target PROVE <<label, target>> \in edges \/ CopiesOn(<<label, target>>) = {}
  BY <1>1 DEF CopiesOn
<1>3. ASSUME NEW label \in AllLabels(program), NEW target, code[label] = Jump(target)
      PROVE  Carries(label, target)
  <2>1. label \in DOMAIN code
    BY <1>1, BlocksShaped
  <2>2. code[label].copies = {} /\ code[label].t = Label(target) /\ code[label].f = Label(target)
    BY <1>3 DEF Jump
  <2>3. (IF <<label, target>> \in edges THEN {} ELSE CopiesOn(<<label, target>>)) = {}
    BY <1>2
  <2> QED BY <2>1, <2>2, <2>3 DEF Carries, JumpsTo
<1>4. ASSUME NEW b \in Blocks PROVE BranchPlaced(b)
  <2> DEFINE br == program.branch[b]
  <2>1. Label(b) \in AllLabels(program) /\ Label(b) \in DOMAIN code
    BY <1>1, BranchLowered, BlocksShaped
  <2>2. CASE br.kind = "switch"
    <3>1. CaseEdge(b) \in AllLabels(program) /\ DefaultEdge(b) \in AllLabels(program)
      BY <1>1, <2>2, BranchLowered
    <3>2. /\ code[Label(b)] = Test(br.cond, CaseEdge(b), DefaultEdge(b))
          /\ code[CaseEdge(b)] = Jump(br.t) /\ code[DefaultEdge(b)] = Jump(br.f)
      BY <1>1, <2>2, BranchLowered
    <3>3. Carries(CaseEdge(b), br.t) /\ Carries(DefaultEdge(b), br.f)
      BY <1>3, <3>1, <3>2
    <3> QED BY <2>1, <2>2, <3>2, <3>3 DEF BranchPlaced, SwitchPlaced, JumpPlaced, TestPlaced
  <2>3. CASE br.kind # "switch"
    <3>1. code[Label(b)] = Test(br.cond, Label(br.t), Label(br.f))
      BY <1>1, <2>3, BranchLowered
    <3>2. /\ code[Label(b)].copies = {} /\ code[Label(b)].cond = {br.cond}
          /\ code[Label(b)].t = Label(br.t) /\ code[Label(b)].f = Label(br.f)
      BY <3>1 DEF Test
    <3>3. br.t = br.f => Carries(Label(b), br.t)
      BY <1>2, <2>1, <3>2 DEF Carries, JumpsTo
    <3>4. Leads(code[Label(b)].t, Label(b), br.t) /\ Leads(code[Label(b)].f, Label(b), br.f)
      BY <1>2, <3>2 DEF Leads
    <3> QED BY <2>1, <2>3, <3>2, <3>3, <3>4 DEF BranchPlaced, SwitchPlaced, JumpPlaced, TestPlaced
  <2> QED BY <2>2, <2>3
<1>5. Together
  BY <1>1, ProgramsAssumption DEF Together
<1> QED BY <1>1, <1>4, <1>5 DEF LoweringInv

\* Placing an edge leaves the branch of another block as it was.
LEMMA OtherBranchKept ==
  ASSUME NEW b \in Blocks, BranchPlaced(b), program' = program,
         NEW edge, edges' = edges \ {edge}, edge = <<edge[1], edge[2]>>,
         edge[1] \notin {Label(b), CaseEdge(b), DefaultEdge(b)},
         program.branch[b] \in Branch,
         DOMAIN code \subseteq DOMAIN code',
         \A label \in {Label(b), CaseEdge(b), DefaultEdge(b)} \cup {SplitEdge(Label(b), c) : c \in Blocks} :
           label \in DOMAIN code => code'[label] = code[label]
  PROVE  BranchPlaced(b)'
<1> DEFINE br == program.branch[b]
<1>1. br.t \in Blocks /\ br.f \in Blocks
  BY DEF Branch
<1>2. ASSUME NEW label \in {Label(b), CaseEdge(b), DefaultEdge(b)}, NEW c
      PROVE  /\ (<<label, c>> \in edges' <=> <<label, c>> \in edges)
             /\ CopiesOn(<<label, c>>)' = CopiesOn(<<label, c>>)
  BY DEF CopiesOn
<1>3. ASSUME NEW label \in {Label(b), CaseEdge(b), DefaultEdge(b)}, NEW c, Carries(label, c)
      PROVE  Carries(label, c)'
  BY <1>2, <1>3 DEF Carries, JumpsTo
<1>4. ASSUME NEW next, NEW c \in Blocks, Leads(next, Label(b), c)
      PROVE  Leads(next, Label(b), c)'
  BY <1>2, <1>4 DEF Leads, JumpsTo
<1>5. SwitchPlaced(b)'
  BY <1>3 DEF BranchPlaced, SwitchPlaced
<1>6. JumpPlaced(b)'
  BY <1>3 DEF BranchPlaced, JumpPlaced
<1>7. TestPlaced(b)'
  BY <1>1, <1>4 DEF BranchPlaced, TestPlaced
<1> QED BY <1>5, <1>6, <1>7 DEF BranchPlaced

\* The copies of an edge that is the only way out of its block are placed there.
LEMMA InlinePlaced ==
  ASSUME LoweringInv, Shaped, NEW edge \in edges, BothMatch(edge[1], edge[2]),
         PlaceInline(edge[1], edge[2]), edges' = edges \ {edge}, program' = program
  PROVE  \A b \in Blocks : BranchPlaced(b)'
<1>1. edge[1] \in DOMAIN code /\ edge = <<edge[1], edge[2]>> /\ edge[2] \in Blocks
  BY DEF Shaped
<1>2. /\ DOMAIN code' = DOMAIN code
      /\ code'[edge[1]].copies = code[edge[1]].copies \cup CopiesOn(edge)
      /\ code'[edge[1]].t = code[edge[1]].t /\ code'[edge[1]].f = code[edge[1]].f
      /\ \A label \in DOMAIN code : label # edge[1] => code'[label] = code[label]
  <2>1. \A x \in DOMAIN code :
           code'[x] = IF x = edge[1] THEN [code[x] EXCEPT !.copies = @ \cup CopiesOn(edge)]
                      ELSE code[x]
    BY <1>1 DEF PlaceInline
  <2> QED BY <1>1, <2>1 DEF Shaped, IsBlock, PlaceInline
<1>3. \A x, y : CopiesOn(<<x, y>>)' = CopiesOn(<<x, y>>)
  BY DEF CopiesOn
<1>4. PICK b \in Blocks :
        \/ /\ program.branch[b].kind = "switch"
           /\ \/ edge = <<CaseEdge(b), program.branch[b].t>>
              \/ edge = <<DefaultEdge(b), program.branch[b].f>>
        \/ /\ program.branch[b].kind # "switch"
           /\ \/ edge = <<Label(b), program.branch[b].t>>
              \/ edge = <<Label(b), program.branch[b].f>>
  BY EdgeOfBranch
<1>5. \A c \in Blocks : program.branch[c] \in Branch /\ BranchPlaced(c)
  BY ProgramsAssumption DEF LoweringInv
<1>6. \A c \in Blocks : program.branch[c].t \in Blocks /\ program.branch[c].f \in Blocks
  BY <1>5 DEF Branch
<1>7. ASSUME NEW c \in Blocks, c # b PROVE BranchPlaced(c)'
  <2>1. edge[1] \in {Label(b), CaseEdge(b), DefaultEdge(b)}
    BY <1>4
  <2>2. edge[1] \notin {Label(c), CaseEdge(c), DefaultEdge(c)}
    BY <1>7, <2>1, LabelsApart
  <2>3. \A d \in Blocks : SplitEdge(Label(c), d) # edge[1]
    BY <2>1, SplitsApart
  <2> QED BY <1>1, <1>2, <1>5, <2>2, <2>3, OtherBranchKept
<1>8. ASSUME Carries(edge[1], edge[2]) PROVE Carries(edge[1], edge[2])'
  BY <1>1, <1>2, <1>3, <1>8 DEF Carries, JumpsTo
<1>9. ASSUME NEW label, label # edge[1], NEW target, Carries(label, target)
      PROVE  Carries(label, target)'
  BY <1>1, <1>2, <1>3, <1>9 DEF Carries, JumpsTo
<1>10. BranchPlaced(b)'
  <2>1. CASE program.branch[b].kind = "switch"
    <3>1. /\ Label(b) \in DOMAIN code
          /\ code[Label(b)] = Test(program.branch[b].cond, CaseEdge(b), DefaultEdge(b))
          /\ Carries(CaseEdge(b), program.branch[b].t) /\ Carries(DefaultEdge(b), program.branch[b].f)
      BY <1>5, <2>1 DEF BranchPlaced, SwitchPlaced
    <3>2. Label(b) # edge[1] /\ CaseEdge(b) # DefaultEdge(b)
      BY <1>4, <2>1, LabelsApart
    <3>3. Carries(CaseEdge(b), program.branch[b].t)' /\ Carries(DefaultEdge(b), program.branch[b].f)'
      BY <1>1, <1>4, <1>8, <1>9, <2>1, <3>1, <3>2, LabelsApart
    <3> QED BY <1>2, <2>1, <3>1, <3>2, <3>3 DEF BranchPlaced, SwitchPlaced, JumpPlaced, TestPlaced
  <2>2. CASE program.branch[b].kind # "switch" /\ program.branch[b].t = program.branch[b].f
    <3>1. Carries(Label(b), program.branch[b].t)
      BY <1>5, <2>2 DEF BranchPlaced, JumpPlaced
    <3>2. edge[1] = Label(b) /\ edge[2] = program.branch[b].t
      BY <1>4, <2>2
    <3>3. Carries(Label(b), program.branch[b].t)'
      BY <1>8, <3>1, <3>2
    <3> QED BY <2>2, <3>3 DEF BranchPlaced, SwitchPlaced, JumpPlaced, TestPlaced
  <2>3. CASE program.branch[b].kind # "switch" /\ program.branch[b].t # program.branch[b].f
    <3> DEFINE t == program.branch[b].t
               f == program.branch[b].f
    <3>1. /\ Leads(code[Label(b)].t, Label(b), t) /\ Leads(code[Label(b)].f, Label(b), f)
      BY <1>5, <2>3 DEF BranchPlaced, TestPlaced
    <3>2. edge[1] = Label(b) /\ code[Label(b)].t = code[Label(b)].f /\ code[Label(b)].f = Label(edge[2])
      BY <1>4, <2>3 DEF BothMatch
    <3>3. /\ Label(edge[2]) \in {Label(t), SplitEdge(Label(b), t)}
          /\ Label(edge[2]) \in {Label(f), SplitEdge(Label(b), f)}
      BY <3>1, <3>2 DEF Leads
    <3>4. Label(edge[2]) # SplitEdge(Label(b), t) /\ Label(edge[2]) # SplitEdge(Label(b), f)
      BY <1>1, <1>6, SplitsApart
    <3>5. edge[2] = t /\ edge[2] = f
      BY <1>1, <1>6, <3>3, <3>4, LabelsApart
    <3> QED BY <2>3, <3>5
  <2> QED BY <2>1, <2>2, <2>3
<1> QED BY <1>7, <1>10

\* An edge of a conditional branch gets a block of its own, and the other edge
\* keeps what it has.
LEMMA SplitPlaced ==
  ASSUME LoweringInv, Shaped, NEW edge \in edges, ~BothMatch(edge[1], edge[2]),
         Split(edge[1], edge[2]), edges' = edges \ {edge}, program' = program
  PROVE  \A b \in Blocks : BranchPlaced(b)'
<1> DEFINE split == SplitEdge(edge[1], edge[2])
           Redirected(old) == IF old = Label(edge[2]) THEN split ELSE old
           new == [Jump(edge[2]) EXCEPT !.copies = CopiesOn(<<edge[1], edge[2]>>)]
           block == Rebranched(code[edge[1]], Redirected(code[edge[1]].t), Redirected(code[edge[1]].f))
<1>1. edge[1] \in DOMAIN code /\ edge = <<edge[1], edge[2]>> /\ edge[2] \in Blocks
      /\ edge[1] \in EdgeLabels
  BY DEF Shaped
<1>2. split # edge[1]
  BY <1>1, SplitLabels
<1>3. /\ new.copies = CopiesOn(edge) /\ new.t = Label(edge[2]) /\ new.f = Label(edge[2])
      /\ block.copies = code[edge[1]].copies /\ block.cond = code[edge[1]].cond
      /\ block.t = Redirected(code[edge[1]].t) /\ block.f = Redirected(code[edge[1]].f)
  BY <1>1 DEF Jump, Rebranched
<1>4. code' = WithBlocks(edge[1], block, new, split)
  BY DEF Split
<1> HIDE DEF new, block
<1>5. /\ DOMAIN code' = DOMAIN code \cup {split}
      /\ code'[edge[1]] = block /\ code'[split] = new
      /\ \A label \in DOMAIN code \ {edge[1], split} : code'[label] = code[label]
  <2> HIDE DEF split
  <2>1. code' = [x \in DOMAIN code \cup {split} |->
                   IF x = edge[1] THEN block ELSE IF x = split THEN new ELSE code[x]]
    BY <1>2, <1>4 DEF WithBlocks
  <2> QED BY <1>1, <1>2, <2>1
<1>6. \A x, y : CopiesOn(<<x, y>>)' = CopiesOn(<<x, y>>)
  BY DEF CopiesOn
<1>7. PICK b \in Blocks :
        \/ /\ program.branch[b].kind = "switch"
           /\ \/ edge = <<CaseEdge(b), program.branch[b].t>>
              \/ edge = <<DefaultEdge(b), program.branch[b].f>>
        \/ /\ program.branch[b].kind # "switch"
           /\ \/ edge = <<Label(b), program.branch[b].t>>
              \/ edge = <<Label(b), program.branch[b].f>>
  BY EdgeOfBranch
<1>8. \A c \in Blocks : program.branch[c] \in Branch /\ BranchPlaced(c)
  BY ProgramsAssumption DEF LoweringInv
<1>9. \A c \in Blocks : program.branch[c].t \in Blocks /\ program.branch[c].f \in Blocks
  BY <1>8 DEF Branch
<1> DEFINE t == program.branch[b].t
           f == program.branch[b].f
\* An edge that is the only way out of its block was placed there.
<1>10. /\ program.branch[b].kind # "switch" /\ edge[1] = Label(b) /\ edge[2] \in {t, f}
       /\ t # f
  <2>1. ASSUME Carries(edge[1], edge[2]) PROVE FALSE
    BY <2>1 DEF Carries, JumpsTo, BothMatch
  <2>2. program.branch[b].kind # "switch"
    BY <1>1, <1>7, <1>8, <2>1 DEF BranchPlaced, SwitchPlaced
  <2>3. t # f
    BY <1>1, <1>7, <1>8, <2>1, <2>2 DEF BranchPlaced, JumpPlaced
  <2> QED BY <1>7, <2>2, <2>3
<1>11. ASSUME NEW c \in Blocks, c # b PROVE BranchPlaced(c)'
  <2>1. edge[1] \notin {Label(c), CaseEdge(c), DefaultEdge(c)}
    BY <1>10, <1>11, LabelsApart
  <2>2. split \notin {Label(c), CaseEdge(c), DefaultEdge(c)}
    BY <1>1, <1>10, SplitsApart
  <2>3. \A d \in Blocks : SplitEdge(Label(c), d) # edge[1] /\ SplitEdge(Label(c), d) # split
    BY <1>1, <1>10, <1>11, SplitsApart
  <2> HIDE DEF split
  <2> QED BY <1>1, <1>5, <1>8, <2>1, <2>2, <2>3, OtherBranchKept
<1>12. /\ code[Label(b)].copies = {} /\ code[Label(b)].cond = {program.branch[b].cond}
       /\ Leads(code[Label(b)].t, Label(b), t) /\ Leads(code[Label(b)].f, Label(b), f)
  BY <1>8, <1>10 DEF BranchPlaced, TestPlaced
<1>13. ASSUME NEW next, NEW target \in {t, f}, Leads(next, Label(b), target)
       PROVE  Leads(Redirected(next), Label(b), target)'
  <2>1. target \in Blocks /\ Label(target) \notin {SplitEdge(Label(b), t), SplitEdge(Label(b), f)}
    BY <1>9, SplitsApart
  <2>2. CASE target = edge[2]
    <3>1. next = Label(edge[2]) /\ split = SplitEdge(Label(b), target) /\ Redirected(next) = split
      BY <1>1, <1>10, <1>13, <2>2 DEF Leads
    <3>2. JumpsTo(split, target, CopiesOn(<<Label(b), target>>))'
      BY <1>1, <1>3, <1>5, <1>6, <1>10, <2>2 DEF JumpsTo
    <3>3. <<Label(b), target>> \notin edges'
      BY <1>1, <1>10, <2>2
    <3> QED BY <3>1, <3>2, <3>3 DEF Leads
  <2>3. CASE target # edge[2]
    <3>1. /\ next # Label(edge[2]) /\ Redirected(next) = next
          /\ SplitEdge(Label(b), target) # split /\ SplitEdge(Label(b), target) # edge[1]
          /\ Label(target) # Label(edge[2])
      BY <1>1, <1>10, <1>13, <2>1, <2>3, LabelsApart, SplitsApart DEF Leads
    <3>2. <<Label(b), target>> \in edges' <=> <<Label(b), target>> \in edges
      BY <1>1, <2>3
    <3> HIDE DEF split
    <3> QED BY <1>5, <1>6, <1>13, <3>1, <3>2 DEF Leads, JumpsTo
  <2> QED BY <2>2, <2>3
<1>14. BranchPlaced(b)'
  <2>1. Label(b) \in DOMAIN code' /\ code'[Label(b)].copies = {}
        /\ code'[Label(b)].cond = {program.branch[b].cond}
    BY <1>1, <1>3, <1>5, <1>10, <1>12
  <2>2. PICK toT, toF : toT = code[Label(b)].t /\ toF = code[Label(b)].f
    OBVIOUS
  <2>3. Leads(Redirected(toT), Label(b), t)' /\ Leads(Redirected(toF), Label(b), f)'
    BY <1>12, <1>13, <2>2
  <2>4. code'[Label(b)].t = Redirected(toT) /\ code'[Label(b)].f = Redirected(toF)
    BY <1>3, <1>5, <1>10, <2>2
  <2>5. /\ Leads(code[Label(b)].t, Label(b), t)'
        /\ Leads(code[Label(b)].f, Label(b), f)'
    BY <2>3, <2>4 DEF Leads
  <2> QED BY <1>10, <2>1, <2>5 DEF BranchPlaced, SwitchPlaced, JumpPlaced, TestPlaced
<1> QED BY <1>11, <1>14

\* Phis assign values to values, and nothing is assigned where there is none.
LEMMA AssignedFrame ==
  ASSUME program \in Programs, NEW b \in Blocks, NEW target \in Blocks,
         NEW f \in [Values -> BOOLEAN]
  PROVE  Assigned(f, PhisOn(b, target)) \in [Values -> BOOLEAN] /\ Assigned(f, {}) = f
<1>1. ASSUME NEW s \in Values, \E phi \in PhisOn(b, target) : phi.dst = s
      PROVE  f[(CHOOSE phi \in PhisOn(b, target) : phi.dst = s).src] \in BOOLEAN
  <2> DEFINE phi == CHOOSE phi \in PhisOn(b, target) : phi.dst = s
  <2>1. phi \in PhisOn(b, target)
    BY <1>1
  <2> HIDE DEF phi
  <2>2. phi.src \in Values
    BY <2>1, ProgramsAssumption DEF PhisOn, Phi
  <2> QED BY <2>2 DEF phi
<1>2. Assigned(f, PhisOn(b, target)) \in [Values -> BOOLEAN]
  BY <1>1 DEF Assigned
<1>3. Assigned(f, {}) = f
  BY DEF Assigned
<1> QED BY <1>2, <1>3

\* At a block of the original both take the same branch, and what the lowered
\* function still lacks are the copies of the edge it is on.
LEMMA BlocksExecuted ==
  ASSUME LoweringInv, Execute PROVE Together'
<1>1. /\ edges = {} /\ edges' = edges /\ code' = code /\ program' = program
      /\ frame' = Assigned(frame, code[at].copies)
      /\ at' = IF \A slot \in code[at].cond : frame'[slot] THEN code[at].t ELSE code[at].f
  BY DEF Execute
<1>2. /\ refAt \in Blocks /\ frame \in [Values -> BOOLEAN] /\ refFrame \in [Values -> BOOLEAN]
      /\ program \in Programs
  BY DEF LoweringInv, Together
<1>3. CASE at # Label(refAt)
  <2>1. /\ Len(at) # 1 /\ JumpsTo(at, refAt, code[at].copies)
        /\ refFrame = Assigned(frame, code[at].copies)
    BY <1>3 DEF LoweringInv, Together
  <2>2. UNCHANGED <<refAt, refFrame>>
    BY <2>1 DEF Execute, AtOwnBlock
  <2>3. at' = Label(refAt) /\ frame' = refFrame
    BY <1>1, <2>1 DEF JumpsTo
  <2> QED BY <1>2, <2>2, <2>3 DEF Together
<1>4. CASE at = Label(refAt)
  <2> DEFINE br == program.branch[refAt]
             target == RefTarget
  <2>1. /\ br \in Branch /\ br.t \in Blocks /\ br.f \in Blocks /\ br.cond \in Values
        /\ BranchPlaced(refAt)
    BY <1>2, ProgramsAssumption DEF LoweringInv, Branch
  <2>2. frame = refFrame
    BY <1>2, <1>4, LabelsApart DEF LoweringInv, Together
  <2>3. /\ refAt' = target /\ target = IF frame[br.cond] THEN br.t ELSE br.f
        /\ refFrame' = Assigned(frame, PhisOn(refAt, target))
    BY <1>2, <1>4, <2>2, LabelsApart DEF Execute, AtOwnBlock, RefTarget, RefPhis, PhisOn
  <2>4. target \in Blocks
    BY <2>1, <2>3
  <2>5. refFrame' = Assigned(frame, PhiCopies(refAt, target))
    BY <1>2, <2>3, <2>4, CopiesActAsPhis
  <2>6. Assigned(frame, PhisOn(refAt, target)) \in [Values -> BOOLEAN] /\ Assigned(frame, {}) = frame
    BY <1>2, <2>4, AssignedFrame
  <2>7. refAt' \in Blocks /\ refFrame' \in [Values -> BOOLEAN]
    BY <2>3, <2>4, <2>6
  <2> HIDE DEF target
  <2>8. CASE br.kind = "switch"
    <3>1. /\ code[at] = Test(br.cond, CaseEdge(refAt), DefaultEdge(refAt))
          /\ Carries(CaseEdge(refAt), br.t) /\ Carries(DefaultEdge(refAt), br.f)
      BY <1>4, <2>1, <2>8 DEF BranchPlaced, SwitchPlaced
    <3>2. frame' = frame /\ at' = IF frame[br.cond] THEN CaseEdge(refAt) ELSE DefaultEdge(refAt)
      BY <1>1, <2>6, <3>1 DEF Test
    <3>3. JumpsTo(at', target, PhiCopies(refAt, target))
      <4>1. CASE frame[br.cond]
        <5>1. target = br.t /\ at' = CaseEdge(refAt)
          BY <2>3, <3>2, <4>1
        <5>2. CopiesOn(<<CaseEdge(refAt), br.t>>) = PhiCopies(refAt, br.t)
          BY <1>2, <2>1, <2>8, CopiesOfPhis
        <5> QED BY <1>1, <3>1, <5>1, <5>2 DEF Carries
      <4>2. CASE ~frame[br.cond]
        <5>1. target = br.f /\ at' = DefaultEdge(refAt)
          BY <2>3, <3>2, <4>2
        <5>2. CopiesOn(<<DefaultEdge(refAt), br.f>>) = PhiCopies(refAt, br.f)
          BY <1>2, <2>1, <2>8, CopiesOfPhis
        <5> QED BY <1>1, <3>1, <5>1, <5>2 DEF Carries
      <4> QED BY <4>1, <4>2
    <3>4. Len(at') # 1
      BY <1>2, <3>2, LabelsApart
    <3>5. /\ JumpsTo(at, refAt, code[at].copies)'
          /\ refFrame' = Assigned(frame', code'[at'].copies)
      BY <1>1, <2>3, <2>5, <3>2, <3>3 DEF JumpsTo
    <3> QED BY <1>1, <1>2, <2>7, <3>2, <3>4, <3>5 DEF Together
  <2>9. CASE br.kind # "switch" /\ br.t = br.f
    <3>1. Carries(at, br.t)
      BY <1>4, <2>1, <2>9 DEF BranchPlaced, JumpPlaced
    <3>2. target = br.t /\ CopiesOn(<<at, br.t>>) = PhiCopies(refAt, br.t)
      BY <1>2, <1>4, <2>1, <2>3, <2>9, CopiesOfPhis
    <3>3. at' = Label(target) /\ frame' = Assigned(frame, PhiCopies(refAt, target))
      BY <1>1, <3>1, <3>2 DEF Carries, JumpsTo
    <3> QED BY <2>3, <2>5, <2>7, <3>3 DEF Together
  <2>10. CASE br.kind # "switch" /\ br.t # br.f
    <3>1. /\ code[at].copies = {} /\ code[at].cond = {br.cond}
          /\ Leads(code[at].t, at, br.t) /\ Leads(code[at].f, at, br.f)
      BY <1>4, <2>1, <2>10 DEF BranchPlaced, TestPlaced
    <3>2. frame' = frame /\ at' = IF frame[br.cond] THEN code[at].t ELSE code[at].f
      BY <1>1, <2>6, <3>1
    <3>3. Leads(at', at, target)
      BY <2>3, <3>1, <3>2
    <3>4. CopiesOn(<<at, target>>) = PhiCopies(refAt, target)
      BY <1>2, <1>4, <2>4, <2>10, CopiesOfPhis
    <3>5. CASE at' = Label(target) /\ PhiCopies(refAt, target) = {}
      <4>1. refFrame' = frame'
        BY <2>5, <2>6, <3>2, <3>5
      <4> QED BY <2>3, <2>7, <3>2, <3>5, <4>1 DEF Together
    <3>6. CASE at' = SplitEdge(at, target) /\ JumpsTo(at', target, PhiCopies(refAt, target))
      <4>1. Len(at') # 1
        BY <1>2, <1>4, <2>4, <3>6, SplitsApart
      <4>2. /\ JumpsTo(at, refAt, code[at].copies)'
            /\ refFrame' = Assigned(frame', code'[at'].copies)
        BY <1>1, <2>3, <2>5, <3>2, <3>6 DEF JumpsTo
      <4> QED BY <1>1, <1>2, <2>7, <3>2, <4>1, <4>2 DEF Together
    <3> QED BY <1>1, <3>3, <3>4, <3>5, <3>6 DEF Leads
  <2> QED BY <2>8, <2>9, <2>10
<1> QED BY <1>3, <1>4

\* Every step keeps the two functions together.
LEMMA LoweringKept ==
  ASSUME LoweringInv, Shaped, [Next]_vars PROVE LoweringInv'
<1>1. ASSUME NEW edge \in edges, PlaceEdge(edge) PROVE LoweringInv'
  <2>1. /\ edges' = edges \ {edge} /\ UNCHANGED <<program, at, frame, refAt, refFrame>>
        /\ BothMatch(edge[1], edge[2]) => PlaceInline(edge[1], edge[2])
        /\ ~BothMatch(edge[1], edge[2]) => Split(edge[1], edge[2])
    BY <1>1 DEF PlaceEdge
  <2>2. \A b \in Blocks : BranchPlaced(b)'
    BY <2>1, InlinePlaced, SplitPlaced
  <2>3. Together'
    BY <2>1 DEF LoweringInv, Together
  <2>4. CopiesByEdge(program)' = CopiesByEdge(program)
    BY <2>1
  <2> QED BY <2>1, <2>2, <2>3, <2>4 DEF LoweringInv
<1>2. ASSUME UNCHANGED <<program, code, edges>> PROVE \A b \in Blocks : BranchPlaced(b)'
  <2>1. \A x, y : CopiesOn(<<x, y>>)' = CopiesOn(<<x, y>>)
    BY <1>2 DEF CopiesOn
  <2>2. \A x, y : Carries(x, y)' <=> Carries(x, y)
    BY <1>2, <2>1 DEF Carries, JumpsTo
  <2>3. ASSUME NEW next, NEW x, NEW y, Leads(next, x, y) PROVE Leads(next, x, y)'
    <3>1. \A done : JumpsTo(next, y, done)' <=> JumpsTo(next, y, done)
      BY <1>2 DEF JumpsTo
    <3> QED BY <1>2, <2>1, <2>3, <3>1 DEF Leads
  <2> SUFFICES ASSUME NEW b \in Blocks PROVE BranchPlaced(b)'
    OBVIOUS
  <2>4. BranchPlaced(b)
    BY DEF LoweringInv
  <2> QED BY <1>2, <2>2, <2>3, <2>4 DEF BranchPlaced, SwitchPlaced, JumpPlaced, TestPlaced
<1>3. CASE Execute
  <2>1. UNCHANGED <<program, code, edges>>
    BY <1>3 DEF Execute
  <2> QED BY <1>2, <1>3, <2>1, BlocksExecuted DEF LoweringInv
<1>4. CASE UNCHANGED vars
  <2>1. UNCHANGED <<program, code, edges>> /\ UNCHANGED <<at, frame, refAt, refFrame>>
    BY <1>4 DEF vars
  <2>2. Together'
    BY <2>1 DEF LoweringInv, Together, JumpsTo
  <2> QED BY <1>2, <2>1, <2>2 DEF LoweringInv
<1> QED BY <1>1, <1>3, <1>4 DEF Next

\* The lowered function does what the original does: for every function, every
\* order in which its edges are processed and every path.
THEOREM SameBehaviourHolds == Spec => []SameBehaviour
<1>1. Init => LoweringInv
  BY LoweringStarts
<1>2. LoweringInv /\ Shaped /\ [Next]_vars => LoweringInv'
  BY LoweringKept
<1>3. LoweringInv => SameBehaviour
  BY DEF LoweringInv, Together, SameBehaviour, AtOwnBlock
<1> QED
  BY <1>1, <1>2, <1>3, EdgesStayShaped, PTL DEF Spec
-----------------------------------------------------------------------------
(* The moves of one edge.                                                  *)

\* A temporary that a copy reads has been taken, so it is not overwritten.
TempsUsed == \A i \in pending : source[i] \in Temps => source[i] \in used

CopiesInv == TypeOK /\ SourcesKept /\ TempsUsed

\* The operands of the copies are slots and immediates.
LEMMA CopyFields ==
  ASSUME copies \in Seq(Copy), NEW i \in 1..Len(copies)
  PROVE  copies[i].dst \in Slots /\ copies[i].src \in Slots \cup Imms
<1>1. copies[i] \in Copy
  OBVIOUS
<1> QED
  BY <1>1 DEF Copy

\* _parallel_copies starts with every copy but the self copies pending, each
\* reading its own source.
LEMMA CopiesStart == CopiesInit => CopiesInv
<1> SUFFICES ASSUME CopiesInit PROVE CopiesInv
  OBVIOUS
<1> USE DEF CopiesInit
<1>1. copies \in Seq(Copy) /\ Functional(copies)
  BY CopyListsAssumption
<1>2. \A i \in 1..Len(copies) : copies[i].dst \in Slots /\ copies[i].src \in Slots \cup Imms
  BY <1>1, CopyFields
<1>3. TypeOK
  <2>1. store \in [Places -> Places \cup Imms]
    OBVIOUS
  <2>2. source \in [1..Len(copies) -> Places \cup Imms]
    BY <1>2 DEF Places
  <2> QED
    BY <1>1, <2>1, <2>2 DEF TypeOK, NotSelf
<1>4. \A i \in pending : ValueOf(source[i]) = copies[i].src
  BY <1>2 DEF ValueOf, NotSelf, Places
<1>5. ASSUME NEW d \in Dests \ PendingDests PROVE Wanted(d, store[d])
  <2>1. PICK i \in 1..Len(copies) : copies[i].dst = d
    BY <1>5 DEF Dests
  <2>2. copies[i].src = d
    BY <1>5, <2>1 DEF PendingDests, NotSelf
  <2>3. d \in Places
    BY <1>2, <2>1 DEF Places
  <2> QED
    BY <2>1, <2>2, <2>3 DEF Wanted
<1>6. \A s \in Slots \ Dests : store[s] = s
  BY DEF Places
<1>7. SourcesKept
  BY <1>4, <1>5, <1>6 DEF SourcesKept
<1>8. TempsUsed
  BY <1>2, NamesDisjoint DEF TempsUsed, NotSelf
<1> QED
  BY <1>3, <1>7, <1>8 DEF CopiesInv

\* Emitting a safe move: no pending copy reads what it overwrites.
LEMMA EmitSafePreserves == CopiesInv /\ EmitSafe => CopiesInv'
<1> SUFFICES ASSUME CopiesInv, EmitSafe PROVE CopiesInv'
  OBVIOUS
<1>1. PICK i \in pending :
        /\ Safe(i)
        /\ store' = [store EXCEPT ![copies[i].dst] = ValueOf(source[i])]
        /\ pending' = pending \ {i}
        /\ UNCHANGED <<copies, source, used>>
  BY DEF EmitSafe, First, Emitted
<1> DEFINE d0 == copies[i].dst
<1>2. TypeOK /\ SourcesKept /\ TempsUsed
  BY DEF CopiesInv
<1>3. i \in 1..Len(copies) /\ d0 \in Slots /\ d0 \in Places /\ copies[i].src \in Slots \cup Imms
  BY <1>1, <1>2, CopyFields DEF TypeOK, Places
<1>4. ValueOf(source[i]) = copies[i].src
  BY <1>2 DEF SourcesKept
<1>5. store'[d0] = copies[i].src /\ \A p \in Places : p # d0 => store'[p] = store[p]
  BY <1>1, <1>2, <1>3, <1>4 DEF TypeOK
<1>6. TypeOK'
  BY <1>1, <1>2, <1>3, <1>4 DEF TypeOK, Places
<1>7. ASSUME NEW j \in pending' PROVE (ValueOf(source[j]))' = copies'[j].src
  <2>1. j \in pending /\ ValueOf(source[j]) = copies[j].src
    BY <1>1, <1>2 DEF SourcesKept
  <2>2. source[j] \in Places => source[j] # d0
    BY <1>1, <2>1 DEF Safe, SourceSlots
  <2> QED
    BY <1>1, <1>5, <2>1, <2>2 DEF ValueOf
<1>8. ASSUME NEW d \in Dests' \ PendingDests' PROVE Wanted(d, store[d])'
  <2>1. d \in Dests
    BY <1>1 DEF Dests
  <2>2. CASE d = d0
    BY <1>1, <1>3, <1>5, <2>2 DEF Wanted
  <2>3. CASE d # d0
    <3>1. d \notin PendingDests
      BY <1>1, <2>3 DEF PendingDests
    <3>2. Wanted(d, store[d])
      BY <1>2, <2>1, <3>1 DEF SourcesKept
    <3>3. d \in Places
      BY <1>2, <2>1, CopyFields DEF Dests, TypeOK, Places
    <3> QED
      BY <1>1, <1>5, <2>3, <3>2, <3>3 DEF Wanted
  <2> QED
    BY <2>2, <2>3
<1>9. ASSUME NEW s \in Slots \ Dests' PROVE store'[s] = s
  BY <1>1, <1>2, <1>3, <1>5 DEF SourcesKept, Dests, Places
<1>10. SourcesKept'
  BY <1>7, <1>8, <1>9 DEF SourcesKept
<1>11. TempsUsed'
  BY <1>1, <1>2 DEF TempsUsed
<1> QED
  BY <1>6, <1>10, <1>11 DEF CopiesInv

\* Breaking a cycle: the fresh temporary holds what the redirected copies read.
LEMMA BreakCyclePreserves == CopiesInv /\ BreakCycle => CopiesInv'
<1> SUFFICES ASSUME CopiesInv, BreakCycle PROVE CopiesInv'
  OBVIOUS
<1>1. PICK i \in pending, t \in Temps \ used :
        /\ store' = [store EXCEPT ![t] = store[copies[i].dst]]
        /\ source' = Redirect(copies[i].dst, t)
        /\ used' = used \cup {t}
        /\ UNCHANGED <<copies, pending>>
  BY DEF BreakCycle
<1> DEFINE d0 == copies[i].dst
<1>2. TypeOK /\ SourcesKept /\ TempsUsed
  BY DEF CopiesInv
<1>3. i \in 1..Len(copies) /\ d0 \in Slots /\ d0 \in Places /\ t \in Places /\ t \notin Slots
  BY <1>1, <1>2, NamesDisjoint, CopyFields DEF TypeOK, Places
<1>4. store'[t] = store[d0] /\ \A p \in Places : p # t => store'[p] = store[p]
  BY <1>1, <1>2, <1>3 DEF TypeOK
<1>5. \A j \in 1..Len(copies) :
         source'[j] = IF j \in pending /\ source[j] = d0 THEN t ELSE source[j]
  BY <1>1, <1>2 DEF TypeOK, Redirect
<1>6. TypeOK'
  <2>1. store' \in [Places -> Places \cup Imms]
    BY <1>1, <1>2, <1>3 DEF TypeOK
  <2>2. source' \in [1..Len(copies) -> Places \cup Imms]
    BY <1>1, <1>2, <1>3 DEF TypeOK, Redirect
  <2>3. UNCHANGED <<copies, pending>> /\ used' \subseteq Temps
    BY <1>1, <1>2 DEF TypeOK
  <2> QED
    BY <1>2, <2>1, <2>2, <2>3 DEF TypeOK, Functional
<1>7. ASSUME NEW j \in pending' PROVE (ValueOf(source[j]))' = copies'[j].src
  <2>1. j \in pending /\ j \in 1..Len(copies) /\ ValueOf(source[j]) = copies[j].src
    BY <1>1, <1>2 DEF SourcesKept, TypeOK
  <2>2. source[j] # t
    BY <1>1, <1>2, <2>1 DEF TempsUsed
  <2>3. CASE source[j] = d0
    BY <1>1, <1>3, <1>4, <1>5, <2>1, <2>3 DEF ValueOf
  <2>4. CASE source[j] # d0
    BY <1>1, <1>4, <1>5, <2>1, <2>2, <2>4 DEF ValueOf
  <2> QED
    BY <2>3, <2>4
<1>8. ASSUME NEW d \in Dests' \ PendingDests' PROVE Wanted(d, store[d])'
  <2>1. d \in Dests \ PendingDests
    BY <1>1 DEF Dests, PendingDests
  <2>2. d \in Places /\ d # t
    BY <1>2, <1>3, <2>1, CopyFields DEF Dests, TypeOK, Places
  <2>3. Wanted(d, store[d])
    BY <1>2, <2>1 DEF SourcesKept
  <2> QED
    BY <1>1, <1>4, <2>2, <2>3 DEF Wanted
<1>9. ASSUME NEW s \in Slots \ Dests' PROVE store'[s] = s
  BY <1>1, <1>2, <1>3, <1>4 DEF SourcesKept, Dests, Places
<1>10. SourcesKept'
  BY <1>7, <1>8, <1>9 DEF SourcesKept
<1>11. TempsUsed'
  BY <1>1, <1>2, <1>5 DEF TempsUsed, TypeOK
<1> QED
  BY <1>6, <1>10, <1>11 DEF CopiesInv

\* Throughout the algorithm every copy still pending finds its value.
THEOREM SourcesAlwaysKept == CopiesSpec => [](TypeOK /\ SourcesKept)
<1>1. CopiesInv /\ UNCHANGED copiesVars => CopiesInv'
  <2> SUFFICES ASSUME CopiesInv, UNCHANGED copiesVars PROVE CopiesInv'
    OBVIOUS
  <2> QED
    BY DEF CopiesInv, TypeOK, SourcesKept, TempsUsed, copiesVars, Wanted, Dests,
           PendingDests, ValueOf, Functional
<1>2. CopiesInv /\ [CopiesNext]_copiesVars => CopiesInv'
  BY <1>1, EmitSafePreserves, BreakCyclePreserves DEF CopiesNext
<1>3. CopiesInv => TypeOK /\ SourcesKept
  BY DEF CopiesInv
<1> QED
  BY CopiesStart, <1>2, <1>3, PTL DEF CopiesSpec

\* The emitted moves are the simultaneous assignment of the edge's phis.
THEOREM CopiesSimultaneous == CopiesSpec => []Simultaneous
<1>1. TypeOK /\ SourcesKept => Simultaneous
  <2> SUFFICES ASSUME TypeOK, SourcesKept, pending = {},
                      NEW i \in 1..Len(copies)
               PROVE  store[copies[i].dst] = copies[i].src
    BY DEF Simultaneous, SourcesKept
  <2>1. copies[i].dst \in Dests \ PendingDests
    BY DEF Dests, PendingDests
  <2>2. PICK j \in 1..Len(copies) :
          copies[j].dst = copies[i].dst /\ copies[j].src = store[copies[i].dst]
    BY <2>1 DEF SourcesKept, Wanted
  <2>3. copies[j].src = copies[i].src
    BY <2>2 DEF TypeOK, Functional
  <2> QED
    BY <2>2, <2>3
<1> QED
  BY <1>1, SourcesAlwaysKept, PTL
=============================================================================
