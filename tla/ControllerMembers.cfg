SPECIFICATION Spec
CONSTANTS
  SequenceCount = 3
  Faults = {}
  MaxAnnounces = 1
  MaxPlays = 1
INVARIANT NoUseAfterDestroy
CHECK_DEADLOCK FALSE
