CONSTANTS
  l1 = l1
  t1 = t1
  t2 = t2
  t3 = t3
  Tunnels = {t1, t2, t3}
  LocalForwards = {l1}
  DynamicForwards = {}
  RemoteForwards = {}
  SPort <- OwnPorts
  BadMask = {}
  Faults = {"lost", "auth", "close"}
  NoForward = NoForward
  NoTunnel = NoTunnel
  Enabled = {l1}
  BadAccount = {}
SPECIFICATION FairSpec
CHECK_DEADLOCK FALSE
PROPERTIES
  StopTerminates
  ListenerReopens
