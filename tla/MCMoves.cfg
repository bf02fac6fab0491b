SPECIFICATION FairSpec
CONSTANTS
  s1 = s1  s2 = s2  a = a  b = b  h1 = h1  h2 = h2
  Storages <- OneStorage
  Names <- TwoNames
  Bytes <- Bits
  Handles <- OneHandle
  InitialStores <- TwoFolders
  Ops <- MoveOps
  MaxLen = 1
  MaxDepth = 2
  MaxId = 5
  MaxFaults = 1
  AcceptsDuplicates = FALSE
INVARIANTS Contained RenameKeepsContents
PROPERTIES CallsReturn
