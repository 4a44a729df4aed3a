SPECIFICATION Spec
CONSTANTS
  Places = {first, second}
  ByteBits = 2
  WordBits = 4
  Widths = {1, 2, 3, 4, 5}
  Forms = {"counts of poison"}
SYMMETRY Symmetry
INVARIANTS
  SlotsRefine
  BooleansMaterialised
  SameControl
CHECK_DEADLOCK FALSE
