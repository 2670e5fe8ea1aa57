SPECIFICATION FairSpec
CONSTANTS
  Scheduler = "rr"
  NumThreads = 4
  Nodes = {0,1,2,3,4,5}
  NoNode = NoNode
  Mutexes = {1}
  Program <- ForkCompute
  TickPoints = {"user"}
  Levels = 2
  BoostCycles = 2
INVARIANT JoinWaits
INVARIANT NoFault
INVARIANT BlockedQueued
INVARIANT SignalsOn
PROPERTY ReadyRuns
