SPECIFICATION HostServerFairSpec
CONSTANTS
  HsUsb = {"u"}
  HsTcp = {"t"}
  HsTargets = {"any", "t"}
  HsClients = {1, 2}
  HsNames = {"a", "s"}
  HsSmart = "s"
  HsMaxRequests = 2
  HsMaxPlugs = 2
INVARIANTS HostServerTypeOK NoDanglingTransport NoSilentClose TrackersKnowDevices
PROPERTIES WaitersServed
CHECK_DEADLOCK FALSE
