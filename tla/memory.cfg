CONSTANTS
  img = img
  Tasks <- TwoTasks
  Callers <- OneTask
  Levels <- TwoLevels
  Payloads <- OneImage
  ImageSize <- ImageSizes
  Sizes <- SmallSizes
  JmpBufs <- OneJmpBuf
  MaxBlocks = 1
  MaxCalls = 1
  HeapBase = 1
  ProgramData = 0
  StackTop = 12
  Region = 2
  Gap = 6
  Align = 2
SPECIFICATION Spec
INVARIANTS
  HeapExclusive
  StacksExclusive
CHECK_DEADLOCK FALSE
