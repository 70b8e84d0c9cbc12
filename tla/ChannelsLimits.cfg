SPECIFICATION Spec
CONSTANTS
  Contents <- AnyContents
  Faults = {}
  MaxFailures = 0
INVARIANT WithinLimits
CHECK_DEADLOCK FALSE
