CONSTANTS
  sh = sh
  c1 = c1
  c2 = c2
  c3 = c3
  k1 = k1
  k2 = k2
  NoTask = NoTask
  Shell = sh
  UserTasks <- ThreeChildren
  KThreads <- TwoKThreads
  Forkers <- OnlyShell
  IoYields = FALSE
  ComparatorCalls = FALSE
  RecycleTasks = FALSE
  MaxDepth = 6
  ScheduleRounds = 8
  ForkRestarts = 3
SPECIFICATION Spec
SYMMETRY TaskSymmetry
INVARIANTS
  HaltDelivered
  IdentitiesAgree
  ContinuationsLive
  ForkContinuationsMatched
PROPERTIES
  WaitersSurviveTransfers
  ImplementsUnixProcesses
