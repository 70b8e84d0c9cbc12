SPECIFICATION Spec
CONSTANTS
  WcidCount = 2
  Client = {a, b}
  Endpoint = {ep4, ep5}
  EventEndpoint = ep5
  FrameEndpoints = {ep4, ep5}
  Main = main
  Nobody = nobody
  Traffic <- ClientTraffic
  Signals = {}
  Faults = {}
  MaxFrames = 4
INVARIANT NoAbort
