\* As ControllerAll, but the gamepad announces itself again.
SPECIFICATION Spec
CONSTANTS
  SequenceCount = 3
  Faults = {}
  MaxAnnounces = 2
  MaxPlays = 2
INVARIANT NeverZero
CHECK_DEADLOCK FALSE
