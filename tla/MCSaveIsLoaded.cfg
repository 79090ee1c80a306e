CONSTANTS
  Default = Default
  NoConfig = NoConfig
  NoInode = NoInode
  Workers = {w1}
  Versions = {v1, v2, v3}
  Inodes = {i1, i2, i3}
  DiskFaults = {"write"}
SPECIFICATION SaveSpec
CHECK_DEADLOCK FALSE
INVARIANTS
  SaveIsLoaded
