---------------------------- MODULE MCForkWait ----------------------------
(* Two children, which the model does not tell apart.                     *)
EXTENDS ForkWait, TLC

ChildSymmetry == Permutations(Children)
=============================================================================
