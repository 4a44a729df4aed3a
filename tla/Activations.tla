------------------------------ MODULE Activations ------------------------------
(***************************************************************************)
(* What calls and returns promise: activations form a stack, each with     *)
(* variables of its own.  A call suspends the caller at a call site and    *)
(* starts the callee with the caller's second variable as its argument; a  *)
(* return takes the callee away, gives the caller the value of one of the  *)
(* callee's variables if the site wants one and changes nothing else of    *)
(* the caller.  A call may also be answered at once, by the host.          *)
(* A host service that runs guest code itself is an activation without     *)
(* variables.  longjmp takes away every activation above the one that      *)
(* called setjmp, whose setjmp returns again and never with 0.             *)
(***************************************************************************)
EXTENDS Integers, Sequences

CONSTANTS Functions, Values, Sites, Wants, Host

VARIABLE stack

Vars == 1..2
Top == stack[Len(stack)]
Below == SubSeq(stack, 1, Len(stack) - 1)

\* The suspended activation a is given v.
Resumed(a, v) ==
  [a EXCEPT !.site = "none", !.vars[1] = IF Wants[a.site] = 1 THEN v ELSE @]

IsRunning(a) == a.site = "none" /\ a.fn # Host
Suspended(site) == Append(Below, [Top EXCEPT !.site = site])

Starts(a, g) == a.fn = g /\ a.site = "none" /\ a.vars[1] = Top.vars[2]

Call(g, site) ==
  /\ IsRunning(Top)
  /\ Len(stack') = Len(stack) + 1
  /\ SubSeq(stack', 1, Len(stack)) = Suspended(site)
  /\ Starts(stack'[Len(stack) + 1], g)

\* A service that enters g itself.
CallNested(g, site) ==
  /\ IsRunning(Top)
  /\ Len(stack') = Len(stack) + 2
  /\ SubSeq(stack', 1, Len(stack)) = Suspended(site)
  /\ stack'[Len(stack) + 1].fn = Host
  /\ Starts(stack'[Len(stack) + 2], g)

Answer(site, v) ==
  /\ IsRunning(Top)
  /\ stack' = Append(Below, Resumed([Top EXCEPT !.site = site], v))

Assign(i, v) ==
  /\ IsRunning(Top)
  /\ stack' = Append(Below, [Top EXCEPT !.vars[i] = v])

Return(i) ==
  /\ IsRunning(Top) /\ Len(stack) > 1
  /\ Below[Len(Below)].fn # Host
  /\ stack' = Append(SubSeq(Below, 1, Len(Below) - 1), Resumed(Below[Len(Below)], Top.vars[i]))

\* The return of g and of the service that entered it.
ReturnNested(i) ==
  /\ IsRunning(Top) /\ Len(stack) > 2
  /\ Below[Len(Below)].fn = Host
  /\ LET caller == Len(stack) - 2
     IN  stack' = Append(SubSeq(stack, 1, caller - 1), Resumed(stack[caller], Top.vars[i]))

Finish == IsRunning(Top) /\ Len(stack) = 1 /\ stack' = <<>>

\* setjmp returns again, in the activation at depth d.
Longjmp(d, v) ==
  /\ IsRunning(Top)
  /\ \A i \in d + 1 .. Len(stack) : stack[i].fn # Host
  /\ stack' = Append(SubSeq(stack, 1, d - 1), Resumed([stack[d] EXCEPT !.site = "setjmp"],
                                                    IF v = 0 THEN 1 ELSE v))

AInit == Len(stack) = 1 /\ IsRunning(stack[1])

ANext ==
  \/ \E g \in Functions, site \in Sites \ {"setjmp"} : Call(g, site) \/ CallNested(g, site)
  \/ \E v \in Values : \/ \E site \in Sites \ {"setjmp"} : Answer(site, v)
                       \/ \E i \in Vars : Assign(i, v)
                       \/ \E d \in 1..Len(stack) : Longjmp(d, v)
  \/ Answer("setjmp", 0)
  \/ \E i \in Vars : Return(i) \/ ReturnNested(i)
  \/ Finish

ASpec == AInit /\ [][ANext]_stack
=============================================================================
