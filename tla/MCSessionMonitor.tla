--------------------------- MODULE MCSessionMonitor ---------------------------
(***************************************************************************)
(* Instances of SessionMonitor for TLC: one to four forwards, and as many *)
(* SSH clients at a time as the cfg gives.                                 *)
(***************************************************************************)
EXTENDS SessionMonitor, TLC

\* Every forward listens on a port of its own ...
OwnPorts == [f \in Forwards |-> f]

\* ... or all of them are configured with the same port.
SamePort == [f \in Forwards |-> 1]

\* Clients are interchangeable: used for safety only.
TunnelSymmetry == Permutations(Tunnels)
==============================================================================
