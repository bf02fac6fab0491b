SPECIFICATION Spec
CONSTANTS
  s1 = s1  s2 = s2  a = a  b = b  h1 = h1  h2 = h2
  Storages <- OneStorage
  Names <- TwoNames
  Bytes <- Bits
  Handles <- TwoHandles
  InitialStores <- OneFile
  Ops <- FileOps
  MaxLen = 1
  MaxDepth = 1
  MaxId = 3
  MaxFaults = 1
  AcceptsDuplicates = FALSE
INVARIANTS TypeOK ExactEffect ReadCurrent StaysCoherent Durable NoSpuriousError CleanCopiesCurrent UnmountSaves
PROPERTIES NoStrandedWrite
SYMMETRY SymHandles
