CONSTANTS
  l1 = l1
  t1 = t1
  t2 = t2
  Tunnels = {t1, t2}
  LocalForwards = {l1}
  DynamicForwards = {}
  RemoteForwards = {}
  SPort <- OwnPorts
  BadMask = {}
  Faults = {"refuse"}
  NoForward = NoForward
  NoTunnel = NoTunnel
  Enabled = {l1}
  BadAccount = {}
SPECIFICATION Spec
SYMMETRY TunnelSymmetry
CHECK_DEADLOCK FALSE
INVARIANTS
  RefusalIsSurvived
