SPECIFICATION FairSpec
CONSTANTS
  SequenceCount = 3
  Faults = {}
  MaxAnnounces = 1
  MaxPlays = 1
PROPERTY RumbleTaken
CHECK_DEADLOCK FALSE
