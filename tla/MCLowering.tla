------------------------------ MODULE MCLowering ------------------------------
EXTENDS Lowering, TLC

Symmetry == Permutations(Places)
================================================================================
