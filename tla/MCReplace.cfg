SPECIFICATION Spec
CONSTANTS
  s1 = s1  s2 = s2  a = a  b = b  h1 = h1  h2 = h2
  Storages <- OneStorage
  Names <- TwoNames
  Bytes <- Bits
  Handles <- OneHandle
  InitialStores <- OneFile
  Ops <- FileOps
  MaxLen = 1
  MaxDepth = 1
  MaxId = 4
  MaxFaults = 0
  AcceptsDuplicates = FALSE
INVARIANTS RenameReplaces
