\* A part that chunks divide and one they do not.
SPECIFICATION FairSpec
CONSTANTS
  IlmLength = 3
  DlmLength = 2
  IlmOffset = 10
  DlmOffset = 20
  ChunkSize = 2
  Faults = {"file", "control", "bulk"}
  MaxRestarts = 2
INVARIANTS FirmwareIntact NeverUnderRunning
PROPERTIES QuietWhileCopying LoadEnds
