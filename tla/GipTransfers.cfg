SPECIFICATION Spec
CONSTANTS
  Transfers <- Arriving
  Faults = {"usb"}
  WcidCount = 16
INVARIANTS LooksRight TakenAsMeant TransmittedAsMeant EventsPassed
