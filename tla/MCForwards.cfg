CONSTANTS
  l1 = l1
  l2 = l2
  d1 = d1
  r1 = r1
  r2 = r2
  t1 = t1
  t2 = t2
  Tunnels = {t1, t2}
  LocalForwards = {l1, l2}
  DynamicForwards = {d1}
  RemoteForwards = {r1, r2}
  SPort <- SamePort
  BadMask = {l2}
  Faults = {"lost", "connect", "auth", "port", "refuse", "close"}
  NoForward = NoForward
  NoTunnel = NoTunnel
  Enabled = {l1, l2, d1, r1, r2}
  BadAccount = {r2}
SPECIFICATION Spec
SYMMETRY TunnelSymmetry
CHECK_DEADLOCK FALSE
INVARIANTS
  ActiveMeansListening
  StopFreesPorts
  NoOrphanListener
PROPERTIES
  ReplacesOnlyDeadProp
  InactiveIsPermanentProp
