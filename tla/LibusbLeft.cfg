SPECIFICATION UsbLibusbSpec
CONSTANTS
  LbDevices = {1}
  LbReadOnly = {}
  LbNobody = 0
  LbMaxKicks = 0
INVARIANT UnregisteredWasNeverOpen
CHECK_DEADLOCK FALSE
