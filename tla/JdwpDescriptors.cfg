SPECIFICATION JdwpFairSpec
CONSTANTS
  JdVms = {"v", "w"}
  JdTrackers = {"t"}
  JdDebuggers = {"d", "e"}
  JdNumbers = {1, 2}
  JdFits = 1
  JdPacketFits = 2
INVARIANT DebuggerSocketSent
CHECK_DEADLOCK FALSE
