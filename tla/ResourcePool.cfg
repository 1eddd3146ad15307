\* Three variables, three objects, two names.
SPECIFICATION FairSpec
CONSTANTS
  Slot = {s1, s2, s3}
  Res = {r1, r2, r3}
  Key = {k1, k2}
  NoRes = NoRes
  NoName = NoName
INVARIANTS TypeOK CountsAreHolders NothingDangles MarkedIffUnused
PROPERTY CollectedAtLast
