\* A machine of sixty-four words, with room for two interrupts.
SPECIFICATION Spec
CONSTANTS
  W = 64
  IrqMax = 2
  Decode <- MCDecode
  Bits <- MCBits
  Lost <- MCLost
  Devices <- MCDevices
  Dumps <- MCDumps
  Images <- MCImages
INVARIANT TypeOK
PROPERTIES FrameRestored SkippedChangesNothing HaltedStaysPut
CHECK_DEADLOCK FALSE
