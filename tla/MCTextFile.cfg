SPECIFICATION Spec
CONSTANTS
  Mimes <- AllMimes
  MaxSize = 3
  Buffer = 2
INVARIANTS TextIsText
