---------------------------- MODULE MCGuestMemory ----------------------------
(***************************************************************************)
(* An instance of GuestMemory: a small address space in which everything   *)
(* can collide.                                                            *)
(***************************************************************************)
EXTENDS GuestMemory

CONSTANTS img

OneTask == 1..1
TwoTasks == 1..2
TwoLevels == 0..1
SmallSizes == {0, 3}
OneImage == {img}
ImageSizes == [p \in {img} |-> 3]
OneJmpBuf == {"main_loop"}
=============================================================================
