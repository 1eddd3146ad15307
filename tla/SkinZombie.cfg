\* Two players are enough: the first is cut off, the second is never asked for.
SPECIFICATION Spec
CONSTANTS
  Request = {a, b}
  NoSkin = NoSkin
  MaxBody = 1
INVARIANT EachIsAsked
CHECK_DEADLOCK FALSE
