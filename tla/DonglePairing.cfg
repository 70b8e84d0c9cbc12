SPECIFICATION Spec
CONSTANTS
  WcidCount = 1
  Client = {a}
  Endpoint = {ep4, ep5}
  EventEndpoint = ep5
  FrameEndpoints = {ep4}
  Main = main
  Nobody = nobody
  Traffic <- PairingTraffic
  Signals = {"usr1"}
  Faults = {}
  MaxFrames = 3
INVARIANT BlinkIsPairing
