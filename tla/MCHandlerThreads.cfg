SPECIFICATION FairSpec
CONSTANTS
  Workers = {w1, w2, w3}
  Main = main
  NoThread = nobody
  MaxNest = 3
  MaxWork = 3
  MaxCalls = 3
INVARIANTS TypeOK Balanced ExclusiveUse
PROPERTIES ImplementsSerialUse CallsReturn
