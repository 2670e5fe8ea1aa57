SPECIFICATION FairSpec
CONSTANTS
  NumPages = 6
  DirEntries = 2
  TableEntries = 2
  ByteBits = 4
  TLB_ENTRIES = 3
  Values = {x}
  Null = null
  MaxPages = 3
  FreesScattered = FALSE
INVARIANTS TypeOK FramesOwned FreeFramesZero MallocMapsArea AccessesWholeRequest TlbAgrees NoWildPointer
PROPERTIES LosesFramesOnlyThere Refinement ChangesOnlyItsOwn MutexGivenBack
