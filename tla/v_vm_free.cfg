SPECIFICATION Spec
CONSTANTS
  NumPages = 6
  DirEntries = 2
  TableEntries = 2
  ByteBits = 4
  TLB_ENTRIES = 2
  Values = {x}
  Null = null
  MaxPages = 2
  FreesScattered = TRUE
INVARIANT FramesOwned
