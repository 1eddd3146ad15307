\* Two clients and the listener that serves one of them.
SPECIFICATION Spec
CONSTANTS
  Key = {k1, k2}
  NoKey = NoKey
  Data = {d1, d2}
  NoData = NoData
  MaxSend = 0
  MaxSync = 1
  MaxUnsend = 0
  MaxOpen = 1
  Duplicating = TRUE
SYMMETRY Symmetry
INVARIANT OnlyConIsSentTo
CHECK_DEADLOCK FALSE
