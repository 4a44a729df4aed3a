CONSTANTS
  NoChild = NoChild
  Parent = sh
  Children = {c1, c2}
  Statuses = {0, 1}
  ForkRestarts = 1
  ScheduleRounds = 2
SPECIFICATION Spec
SYMMETRY ChildSymmetry
INVARIANTS
  ParentFramesKept
  VforkChildOwnsFrames
PROPERTIES
  NoExitLost
  WaitTruthful
