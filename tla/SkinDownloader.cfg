\* Three players, bodies of up to two units.
SPECIFICATION FairSpec
CONSTANTS
  Request = {a, b, c}
  NoSkin = NoSkin
  MaxBody = 2
INVARIANTS TypeOK FreshBetween
PROPERTIES ShownIsWhole CompleteIsShown SkinsEnd
CHECK_DEADLOCK FALSE
