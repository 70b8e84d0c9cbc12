SPECIFICATION FairSpec
CONSTANTS
  d1 = d1
  d2 = d2
  d3 = d3
  IdCount = 2
  Device = {d1, d2, d3}
  IdOf <- Ids
  NoDevice = nodevice
  Signals = {"term", "usr1"}
  Faults = {"libusb", "signalfd", "pipe", "write", "control", "bulk", "timeout"}
  MaxSignals = 2
INVARIANTS KilledEarly FailureKept
PROPERTIES DongleFound EndsWhenAsked
