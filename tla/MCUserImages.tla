---------------------------- MODULE MCUserImages ----------------------------
(***************************************************************************)
(* Two tasks and two payloads: a program with a module image, that calls a *)
(* function of its own, a libc service and a runtime helper and keeps a    *)
(* pointer to a function in its data, and a probe of one function.  The    *)
(* kernel has a function that newer runners accelerate and one helper.     *)
(***************************************************************************)
EXTENDS UserImages, TLC

CONSTANTS t1, t2

TwoTasks == {t1, t2}
Both == {"shell", "probe"}
OnlyShell == {"shell"}
FunctionsOf(p) == IF p = "shell" THEN <<"main", "sub">> ELSE <<"main">>
ExternalsOf(p) == IF p = "shell" THEN <<"getcwd">> ELSE <<>>
HelpersOf(p) == IF p = "shell" THEN <<"div", "mul">> ELSE <<"mul">>
ObjectsOf(p) == IF p = "shell" THEN <<"counter", "ops">> ELSE <<>>
PointersOf(p) == IF p = "shell" THEN "ops" :> "sub" ELSE <<>>
ImageIn(p) == p = "shell"
KernelCode == <<"start", "memcpy">>
KernelFastCode == <<"memcpy">>
KernelHelperCode == <<"div">>
TaskSymmetry == Permutations(TwoTasks)
=============================================================================
