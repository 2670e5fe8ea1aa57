SPECIFICATION Spec
CONSTANTS
  Scheduler = "rr"
  NumThreads = 3
  Nodes = {0,1,2,3,4}
  NoNode = NoNode
  Mutexes = {1}
  Program <- Unusual
  TickPoints = {"user", "library", "scheduler"}
  Levels = 2
  BoostCycles = 2
INVARIANT MutualExclusion
INVARIANT MutexInv
PROPERTIES MutexRefinement OwnerKept
