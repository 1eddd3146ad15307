\* One client and a network that repeats and reorders datagrams at will.
SPECIFICATION Spec
CONSTANTS
  Key = {k1}
  NoKey = NoKey
  Data = {d1, d2}
  NoData = NoData
  MaxSend = 2
  MaxSync = 2
  MaxUnsend = 0
  MaxOpen = 1
  Duplicating = TRUE
SYMMETRY Symmetry
INVARIANTS TypeOK InOrderToServer InOrderToClient AckedMeansReceived
CHECK_DEADLOCK FALSE
