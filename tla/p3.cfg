SPECIFICATION Spec
CONSTANTS
  main = main
  f = f
  service = service
  host_call = host_call
  Functions <- MCFunctions
  Services <- MCServices
  Host = host_call
  Main = main
  Desc <- MCDesc
  SpillWords <- MCSpillWords
  Values = {0, 1}
  JmpBufs = {"env"}
  StackTops <- MCStackTops
  StackWords = 64
  MaxWork = 3
INVARIANT FramesApart
PROPERTY ImplementsActivations
CHECK_DEADLOCK FALSE
