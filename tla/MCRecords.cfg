CONSTANTS
  Ids = {s1, s2}
  Names = {n1, n2}
  Default = d
  NoName = NULL
  Subtypes = {a, b}
  Keys = {k1, k2}
  Values = {0}
  MaxArray = 3
  MaxCalls = 4
  MaxFails = 1
SPECIFICATION Spec
SYMMETRY Symmetry
CHECK_DEADLOCK FALSE
INVARIANTS TypeOK ListenersUpToDate ListenersForget
PROPERTIES NoMemoryNoChange
