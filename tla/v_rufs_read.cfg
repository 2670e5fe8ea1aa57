SPECIFICATION Spec
CONSTANTS
  Names = {a, b}
  Clients <- FileClients
  MaxDepth = 2
  MAX_INUM = 3
  MAX_DNUM = 5
  MaxEntries = 4
  NumDirect = 1
  NumIndirect = 1
  IndirectCap = 2
  BlockSize = 2
  Data = {x, y}
  MaxSize = 5
  MaxRequest = 3
  NoCall = NoCall
  RemovesFullDirs = FALSE
SYMMETRY Symmetry
INVARIANT ReadsWhatIsThere
