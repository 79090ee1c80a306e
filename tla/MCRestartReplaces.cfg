CONSTANTS
  w1 = w1
  w2 = w2
  v1 = v1
  v2 = v2
  i1 = i1
  i2 = i2
  i3 = i3
  m1 = m1
  m2 = m2
  m3 = m3
  s1 = s1
  Default = Default
  NoConfig = NoConfig
  NoInode = NoInode
  NoManager = NoManager
  NoWorker = NoWorker
  Workers = {w1, w2}
  Versions = {v1, v2}
  Inodes = {i1, i2, i3}
  DiskFaults = {}
  Managers = {m1, m2, m3}
  Sessions = {s1}
  Disabled = {}
  Broken = {}
  Requests = {"save"}
SPECIFICATION Spec
SYMMETRY ServerSymmetry
CHECK_DEADLOCK FALSE
INVARIANTS
  RestartReplaces
