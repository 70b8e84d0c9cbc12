SPECIFICATION FairSpec
CONSTANTS
  SequenceCount = 3
  Faults = {}
  MaxAnnounces = 1
  MaxPlays = 1
PROPERTY DestructorReturns
CHECK_DEADLOCK FALSE
