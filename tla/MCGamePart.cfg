\* Does the pause menu's "Part" delete only a runner that still exists?
SPECIFICATION Spec
CONSTANTS
  Cookies = {TRUE}
  MaxRunners = 9
INVARIANT DeletedOnce
CHECK_DEADLOCK FALSE
