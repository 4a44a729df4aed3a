CONSTANTS
  p = p
  q = q
  r = r
  s = s
  t1 = t1
  t2 = t2
  imm = imm
  Slots <- SlotsMC
  Temps <- TempsMC
  Imms <- ImmsMC
  CopyLists <- ListsMC
SPECIFICATION CopiesSpec
INVARIANTS
  SourcesKept
  Simultaneous
PROPERTIES
  Terminates
CHECK_DEADLOCK FALSE
