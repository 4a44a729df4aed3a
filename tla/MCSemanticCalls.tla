-------------------------- MODULE MCSemanticCalls --------------------------
(***************************************************************************)
(* Instances of SemanticCalls for TLC: a shell, up to three children and   *)
(* one or two kernel threads.  The model treats every task but the shell   *)
(* alike, so children and kernel threads are interchangeable; runs that    *)
(* check liveness do not use the symmetry.                                 *)
(***************************************************************************)
EXTENDS SemanticCalls, TLC

CONSTANTS sh, c1, c2, c3, k1, k2

OneChild == {sh, c1}
TwoChildren == {sh, c1, c2}
ThreeChildren == {sh, c1, c2, c3}
OneKThread == {k1}
TwoKThreads == {k1, k2}
OnlyShell == {sh}
ShellAndOne == {sh, c1}

TaskSymmetry ==
  Permutations(UserTasks \ ({Shell} \cup Forkers)) \cup Permutations(KThreads)
=============================================================================
