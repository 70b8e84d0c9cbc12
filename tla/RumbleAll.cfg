\* Uploads, plays, gains and erasures in every order; every request to the kernel
\* may fail.  A word has 15 bits: integers of TLC have 31, and a magnitude times a
\* gain must fit.
SPECIFICATION Spec
CONSTANTS
  WordMax = 32767
  ByteMax = 255
  MaxPower = 100
  ShareMax = 2
  Magnitudes = {32767}
  Gains = {0, 16384}
  Times = {19, 2560}
  Counts = {0, 1, 256}
  Faults = {"begin", "end"}
  MaxEvents = 5
INVARIANTS PowerInRange PassesEffect TimesKept ErasedIsQuiet
CHECK_DEADLOCK FALSE
