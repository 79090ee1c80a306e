CONSTANTS
  r1 = r1
  t1 = t1
  t2 = t2
  Tunnels = {t1, t2}
  LocalForwards = {}
  DynamicForwards = {}
  RemoteForwards = {r1}
  SPort <- OwnPorts
  BadMask = {}
  Faults = {"lost"}
  NoForward = NoForward
  NoTunnel = NoTunnel
  Enabled = {r1}
  BadAccount = {}
SPECIFICATION Spec
SYMMETRY TunnelSymmetry
CHECK_DEADLOCK FALSE
INVARIANTS
  RunningIsConnected
