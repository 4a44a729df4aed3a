CONSTANTS
  a = a
  b = b
  x = x
  y = y
  Blocks <- BlocksMC
  Entry = a
  Values <- ValuesMC
  Programs <- ProgramsMC
SPECIFICATION Spec
INVARIANTS
  SameBehaviour
  EdgesFound
