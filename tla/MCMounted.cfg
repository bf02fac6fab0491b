SPECIFICATION MountedSpec
CONSTANTS
  absent = absent
  garbage = garbage
  s = s
  d = d
  f = f
  long = long
  Absent = absent
  Garbage = garbage
  Buses = {1, 2}
  Devnums = {1, 2}
  MaxDevices = 2
  Texts <- NumbersAndWorse
  Slash = slash
  Names = {s, d, f, long}
  TooLong = {long}
  Trees <- SomeTrees
INVARIANTS MountedTypeOK RequestedIsMounted IncompleteMountsNothing NotFoundIsTrue Resolves NoFalseError MadeWhereAsked
CHECK_DEADLOCK FALSE
