SPECIFICATION Spec
CONSTANTS
  t1 = t1
  NoTransport = NoTransport
  Transports <- OneTransport
  ADB_HOST = TRUE
  MaxCnxn = 2
  MaxSends = 1
INVARIANT OfflineBeforeFree
CHECK_DEADLOCK FALSE
