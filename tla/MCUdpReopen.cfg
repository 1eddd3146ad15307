\* The server makes a second object for an address; fairness.
SPECIFICATION FairSpec
CONSTANTS
  Key = {k1}
  NoKey = NoKey
  Data = {d1}
  NoData = NoData
  MaxSend = 1
  MaxSync = 0
  MaxUnsend = 1
  MaxOpen = 2
  Duplicating = FALSE
PROPERTIES ToServerIsReliable BothEndsEnd
CHECK_DEADLOCK FALSE
