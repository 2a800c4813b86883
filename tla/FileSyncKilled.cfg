SPECIFICATION FileSyncFairSpec
CONSTANTS
  Files <- MCFiles
  Chunks <- MCChunks
  Kind <- MCKind
  Dirs <- MCDirs
  DirFiles <- MCDirFiles
  Sources <- MCLargeOnly
  Outdated <- MCOutdated
  Capacity = 1
PROPERTIES DeletedOnFailure
