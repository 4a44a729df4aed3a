CONSTANTS
  Handles = {h1, h2}
  Bytes <- MCBytes
  Newline = 10
  Nul = 0
  Garbage <- MCGarbage
  None <- MCNone
  MinCapacity = 1
  MaxFile = 2
  Data <- MCData
  Lines <- MCLines
SYMMETRY HandleSymmetry
SPECIFICATION Spec
INVARIANTS
  LineTerminated
  FwriteTruthful
PROPERTY ReadsAsC
CHECK_DEADLOCK FALSE
