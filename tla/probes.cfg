CONSTANTS
  t1 = t1
  t2 = t2
  NoTask = NoTask
  CodeBase = 100
  DataBase = 1
  Tasks <- TwoTasks
  Payloads <- Both
  Functions <- FunctionsOf
  Externals <- ExternalsOf
  Helpers <- HelpersOf
  Objects <- ObjectsOf
  Pointers <- PointersOf
  HasImage <- ImageIn
  LooseProbes = TRUE
  KernelFunctions <- KernelCode
  KernelFast <- KernelFastCode
  KernelHelpers <- KernelHelperCode
  Words = {7}
  Engines = {"native", "python"}
  HeapBase = 20
  StackTop = 70
  MaxExecs = 3
  MaxAllocs = 1
  MaxFrames = 2
  MaxRestarts = 1
SPECIFICATION Spec
SYMMETRY TaskSymmetry
INVARIANT EntersOwn
CHECK_DEADLOCK FALSE
