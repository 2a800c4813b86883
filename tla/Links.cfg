SPECIFICATION LinksSpec
CONSTANTS
  FeFdes = {"a", "b"}
  FeMaxOps = 4
  RqThreads = {"a", "b"}
  RqCalls = 3
  RqCapacity = 3
  RqReadSize = 2
  UbHandles = {1, 2}
  UbNoHandle = 0
  UbMaxPlugs = 1
  UbMaxKicks = 1
  LtPorts = {"p", "q"}
  LtObjects = {1, 2}
  LtSlots = 1
  LtRetries = 2
  LtMaxKicks = 1
  LtMaxAsks = 1
  DuMaxT = 2
  DuMaxKicks = 2
  AcVersions = {"v1", "v2"}
  AcClients = {1, 2}
  AcServers = {1, 2, 3}
INVARIANTS LinksTypeOK UsbHandleAlive OneTransportPerEmulator KickHitsOwnEndpoints ServedByOwnVersion
PROPERTIES EventsDelivered ImplementsCallQueue UsbLinksRecover LostEmulatorRetried StartingClientsEnd
CHECK_DEADLOCK FALSE
