SPECIFICATION Spec
CONSTANTS
  Names = {a, b}
  Clients <- TreeClients
  MaxDepth = 2
  MAX_INUM = 3
  MAX_DNUM = 5
  MaxEntries = 3
  NumDirect = 1
  NumIndirect = 1
  IndirectCap = 2
  BlockSize = 2
  Data = {x, y}
  MaxSize = 5
  MaxRequest = 2
  NoCall = NoCall
  RemovesFullDirs = FALSE
SYMMETRY Symmetry
INVARIANT OneTree
PROPERTY TreeRefinement
