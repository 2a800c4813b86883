SPECIFICATION FairSpec
CONSTANTS
  MaxId = 1
  MaxUnits <- Units12
  MaxPayload = 2
  Openers <- HostOnly
  HangUps <- AnyHangUp
  MaxRestarts = 1
  MaxBreaks = 1
PROPERTIES EndsPropagate NoEndlessWait
CHECK_DEADLOCK FALSE
