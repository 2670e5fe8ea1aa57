SPECIFICATION Spec
CONSTANTS
  PGSIZE = 4
  NumPages = 4
  TableEntries = 4
  ByteBits = 3
  MaxSize = 9
INVARIANT NoOverlap
