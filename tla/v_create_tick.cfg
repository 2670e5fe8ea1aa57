SPECIFICATION Spec
CONSTANTS
  Scheduler = "rr"
  NumThreads = 3
  Nodes = {0,1,2,3,4}
  NoNode = NoNode
  Mutexes = {1}
  Program <- ForkCompute
  TickPoints = {"user", "library"}
  Levels = 2
  BoostCycles = 2
INVARIANT ReadyQueued
