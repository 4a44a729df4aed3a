CONSTANTS
  sh = sh
  c1 = c1
  c2 = c2
  c3 = c3
  k1 = k1
  k2 = k2
  NoTask = NoTask
  Shell = sh
  UserTasks <- OneChild
  KThreads <- OneKThread
  Forkers <- ShellAndOne
  IoYields = TRUE
  ComparatorCalls = TRUE
  RecycleTasks = TRUE
  MaxDepth = 4
  ScheduleRounds = 2
  ForkRestarts = 1
SPECIFICATION Spec
INVARIANTS
  TypeOK
  Bookkeeping
  TransferScoped
PROPERTIES
  TransfersComplete
CHECK_DEADLOCK FALSE
