\* Two announcements, of which the second meets the threads of the first; three plays
\* wrap the three values of a sequence number.
SPECIFICATION FairSpec
CONSTANTS
  SequenceCount = 3
  Faults <- AllFaults
  MaxAnnounces = 2
  MaxPlays = 3
INVARIANTS TypeOK SequenceValid ThreadsGone
PROPERTIES PowerOffIsLast DeviceCloses
CHECK_DEADLOCK FALSE
