CONSTANTS
  w1 = w1
  v1 = v1
  v2 = v2
  i1 = i1
  i2 = i2
  m1 = m1
  m2 = m2
  m3 = m3
  s1 = s1
  s2 = s2
  Default = Default
  NoConfig = NoConfig
  NoInode = NoInode
  NoManager = NoManager
  NoWorker = NoWorker
  Workers = {w1}
  Versions = {v1, v2}
  Inodes = {i1, i2}
  DiskFaults = {"write", "delete"}
  Managers = {m1, m2, m3}
  Sessions = {s1, s2}
  Disabled = {s2}
  Broken = {}
  Requests = {"save", "start", "stop", "destroy"}
SPECIFICATION Spec
SYMMETRY ServerSymmetry
CHECK_DEADLOCK FALSE
INVARIANTS
  OnlyCurrentRuns
  DiskHoldsConfig
PROPERTIES
  NeverBackToDefaultProp
