SPECIFICATION FairSpec
CONSTANTS
  WcidCount = 1
  Client = {a}
  Endpoint = {ep4, ep5}
  EventEndpoint = ep5
  FrameEndpoints = {ep4, ep5}
  Main = main
  Nobody = nobody
  Traffic <- AllTraffic
  Signals = {"term", "usr1"}
  Faults = {"usb", "uinput", "pipe"}
  MaxFrames = 3
PROPERTIES Ends SlotsSettle
