CONSTANTS
  w1 = w1
  w2 = w2
  v1 = v1
  i1 = i1
  i2 = i2
  m1 = m1
  m2 = m2
  s1 = s1
  s2 = s2
  Default = Default
  NoConfig = NoConfig
  NoInode = NoInode
  NoManager = NoManager
  NoWorker = NoWorker
  Workers = {w1, w2}
  Versions = {v1}
  Inodes = {i1, i2}
  DiskFaults = {}
  Managers = {m1, m2}
  Sessions = {s1, s2}
  Disabled = {s2}
  Broken = {}
  Requests = {"save", "start", "stop", "destroy"}
SPECIFICATION FairSpec
CHECK_DEADLOCK FALSE
INVARIANTS
  NothingStranded
  InactiveMeansEnded
PROPERTIES
  RequestsAnswered
