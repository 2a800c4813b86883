SPECIFICATION ServicesSpec
CONSTANTS
  Files <- MCFiles
  Chunks <- MCChunks
  Kind <- MCKind
  Dirs <- MCDirs
  DirFiles <- MCDirFiles
  Sources <- MCSources
  Outdated <- MCOutdated
  Capacity = 1
  ShMaxOut = 1
  ShMaxIn = 1
  ShPacket = 2
  ShRoom = 1
  ShWindow = 1
  JdVms = {"v", "w"}
  JdTrackers = {"t"}
  JdDebuggers = {"d", "e"}
  JdNumbers = {1, 2}
  JdFits = 1
  JdPacketFits = 2
INVARIANTS ServicesTypeOK FilesComplete FailuresExplained ShellComplete TrackersKnowProcesses
PROPERTIES SyncPartEnds HangUpReachesChild DebuggersSettle
CHECK_DEADLOCK FALSE
