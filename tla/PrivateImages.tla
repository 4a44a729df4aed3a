--------------------------- MODULE PrivateImages ---------------------------
(***************************************************************************)
(* What exec promises: a task runs a copy of a program image that is its   *)
(* own.  Data starts as the image says, with the environment of this exec, *)
(* and changes only when the task itself stores.  A restart of the machine *)
(* from a checkpoint may forget which images were installed.               *)
(***************************************************************************)
CONSTANTS Tasks, Payloads, NoImage, Cells(_), Environ, Envs, Words

VARIABLES image,   \* task -> the payload it runs, or NoImage
          data,    \* task -> its data cells
          env      \* task -> the environment its exec was given

vars == <<image, data, env>>

StartOf(p, e) == [c \in Cells(p) |-> IF c = Environ THEN e ELSE 0]
NoData == [c \in {} |-> 0]

Init ==
  /\ image = [t \in Tasks |-> NoImage]
  /\ data = [t \in Tasks |-> NoData]
  /\ env = [t \in Tasks |-> 0]

Exec(t) ==
  \E p \in Payloads, e \in Envs :
    /\ image' = [image EXCEPT ![t] = p]
    /\ data' = [data EXCEPT ![t] = StartOf(p, e)]
    /\ env' = [env EXCEPT ![t] = e]

Store(t) ==
  /\ image[t] # NoImage
  /\ \E c \in Cells(image[t]), w \in Words : data' = [data EXCEPT ![t][c] = w]
  /\ UNCHANGED <<image, env>>

Forget ==
  /\ image' = [t \in Tasks |-> NoImage]
  /\ data' = [t \in Tasks |-> NoData]
  /\ env' = [t \in Tasks |-> 0]

Next == Forget \/ \E t \in Tasks : Exec(t) \/ Store(t)
Spec == Init /\ [][Next]_vars
=============================================================================
