\* A word has 15 bits: integers of TLC have 31, and a magnitude times a gain must fit.
SPECIFICATION Spec
CONSTANTS
  WordMax = 32767
  ByteMax = 255
  MaxPower = 100
  ShareMax = 1
  Magnitudes = {32767}
  Gains = {32767}
  Times = {9, 10}
  Counts = {1, 256}
  Faults = {}
  MaxEvents = 2
INVARIANT PlayedIsNotStopped
CHECK_DEADLOCK FALSE
