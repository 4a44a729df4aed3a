--------------------------- MODULE MCParallelCopies ---------------------------
(***************************************************************************)
(* Model values for ParallelCopies: four slots, enough for two swaps side  *)
(* by side, a rotation with a tail, and repeated entries.                  *)
(***************************************************************************)
EXTENDS ParallelCopies

CONSTANTS p, q, r, s, t1, t2, imm

SlotsMC == {p, q, r, s}
TempsMC == {t1, t2}
ImmsMC == {imm}
LengthsMC == 0..4
ListsMC ==
  {list \in UNION {[1..n -> [dst : SlotsMC, src : SlotsMC \cup ImmsMC]] : n \in LengthsMC} :
     Functional(list)}
=============================================================================
