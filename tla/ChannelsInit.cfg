SPECIFICATION Spec
CONSTANTS
  Contents <- ValidContents
  Faults = {"control", "bulk", "timeout"}
  MaxFailures = 1
INVARIANTS PowerIsOfOwnTable ReadyIsComplete TrimIsMeant OneAddress
CHECK_DEADLOCK FALSE
