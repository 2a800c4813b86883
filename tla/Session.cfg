SPECIFICATION SessionSpec
CONSTANTS
  t1 = t1
  NoTransport = NoTransport
  Transports <- OneTransport
  ADB_HOST = TRUE
  MaxCnxn = 2
  MaxSends = 1
  Keys <- TwoKeys
  UserKey = "k1"
  MaxRestarts = 2
  MaxBreaks = 1
  MaxHangs = 1
  MaxData = 2
  LbDevices = {1, 2}
  LbReadOnly = {2}
  LbNobody = 0
  LbMaxKicks = 1
INVARIANTS TypeOK SessionTypeOK RefCounts NoUseAfterFree CloseAfterKick OrderlyLife
PROPERTIES DeadIsFreed AuthPartSettles LibusbPartSettles
CHECK_DEADLOCK FALSE
