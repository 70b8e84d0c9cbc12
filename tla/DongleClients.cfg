SPECIFICATION Spec
CONSTANTS
  WcidCount = 2
  Client = {a, b}
  Endpoint = {ep4, ep5}
  EventEndpoint = ep5
  FrameEndpoints = {ep4, ep5}
  Main = main
  Nobody = nobody
  Traffic <- ClientTraffic
  Signals = {"term"}
  Faults = {"usb"}
  MaxFrames = 4
INVARIANTS TypeOK SlotHoldsWcid ViewsAgree LitWhileConnected PoweredOffAtExit
  OnlyReuseMisleads
PROPERTY ImplementsAccessPoint
SYMMETRY Symmetry
