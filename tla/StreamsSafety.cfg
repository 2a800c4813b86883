SPECIFICATION PlansSpec
CONSTANTS
  MaxId = 2
  MaxUnits <- Units33
  MaxPayload = 2
  Openers <- BothSides
  HangUps <- AnyHangUp
  MaxRestarts = 1
  MaxBreaks = 1
INVARIANTS TypeOK FlowControl InOrderDelivery NoLossOnClose NoOrphan SessionIsolation
CHECK_DEADLOCK FALSE
