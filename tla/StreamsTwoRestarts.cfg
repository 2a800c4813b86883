SPECIFICATION Spec
CONSTANTS
  MaxId = 3
  MaxUnits <- Units01
  MaxPayload = 1
  Openers <- HostOnly
  HangUps <- ClientCloses
  MaxRestarts = 2
  MaxBreaks = 0
INVARIANT ReadyConnectsPartner
CHECK_DEADLOCK FALSE
