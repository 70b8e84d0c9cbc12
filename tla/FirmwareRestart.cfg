SPECIFICATION Spec
CONSTANTS
  IlmLength = 3
  DlmLength = 2
  IlmOffset = 10
  DlmOffset = 20
  ChunkSize = 2
  Faults = {}
  MaxRestarts = 1
INVARIANT RestartSafe
