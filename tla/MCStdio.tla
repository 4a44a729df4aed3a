------------------------------- MODULE MCStdio -------------------------------
EXTENDS Stdio, TLC

HandleSymmetry == Permutations(Handles)

MCNone == -1
MCGarbage == -2
MCBytes == {1, 10}
MCData == {<<1, 10>>}

\* No buffer, with either capacity, and a buffer of one byte.
MCLines == {[allocated |-> FALSE, capacity |-> n, text |-> << >>] : n \in {3}}
           \cup {[allocated |-> TRUE, capacity |-> 1, text |-> <<MCGarbage>>]}
=============================================================================
