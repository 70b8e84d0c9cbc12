SPECIFICATION Spec
CONSTANTS
  WcidCount = 1
  Client = {a}
  Endpoint = {ep5}
  EventEndpoint = ep5
  FrameEndpoints = {ep5}
  Main = main
  Nobody = nobody
  Traffic <- PairingTraffic
  Signals = {"term"}
  Faults = {"usb"}
  MaxFrames = 6
INVARIANT BlinkIsPairing
