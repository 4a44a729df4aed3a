----------------------------- MODULE LibcCalls -----------------------------
(***************************************************************************)
(* What a program may ask of the library routines that are served on the   *)
(* host: a call on strings or memory, or loops of getopt calls.            *)
(***************************************************************************)
EXTENDS DirectRuntime

CONSTANTS Commands, Others, None

VARIABLES cmd, optind, state, parsed, ended

G == INSTANCE Getopt
options == <<cmd, optind, state, parsed, ended>>

NoCall == [name |-> "none"]

LibcInit ==
  \/ Init /\ cmd = None /\ optind = 1 /\ state = None /\ parsed = << >> /\ ended = FALSE
  \/ /\ G!Init
     /\ mem = [a \in Pointers |-> 0] /\ call = NoCall /\ engine = "python"
     /\ before = mem /\ tokens = << >> /\ save = Null /\ result = Pending

LibcNext ==
  \/ Next /\ UNCHANGED options
  \/ cmd # None /\ G!Next /\ UNCHANGED vars

LibcSpec == LibcInit /\ [][LibcNext]_<<vars, options>>

-----------------------------------------------------------------------------
\* A loop of getopt calls returns every option of its own arguments once and in
\* order, each with its own value, and leaves optind at the first operand,
\* whatever loop was broken off before it, and where, unless that was inside the
\* first word of arguments the record takes for its own.
OptionsParsed == cmd # None => G!ArgumentsParsed
=============================================================================
