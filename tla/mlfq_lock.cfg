SPECIFICATION FairSpec
CONSTANTS
  Scheduler = "mlfq"
  NumThreads = 3
  Nodes = {0,1,2,3,4}
  NoNode = NoNode
  Mutexes = {1}
  Program <- ForkLock
  TickPoints = {"user"}
  Levels = 2
  BoostCycles = 2
INVARIANTS TypeOK ReadyQueued QueuedReady NoLostWakeup
PROPERTIES QueueRefinement LockGranted Terminates
