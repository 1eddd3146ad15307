\* Does the client match the server once everything is acknowledged?
SPECIFICATION Spec
CONSTANTS
  Key = {k1}
  NoKey = NoKey
  Data = {d1}
  NoData = NoData
  MaxSend = 0
  MaxSync = 2
  MaxUnsend = 0
  MaxOpen = 1
  Duplicating = TRUE
INVARIANT ClientMatchesServer
CHECK_DEADLOCK FALSE
