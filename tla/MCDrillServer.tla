---------------------------- MODULE MCDrillServer ----------------------------
(***************************************************************************)
(* Instances of DrillServer for TLC.                                       *)
(***************************************************************************)
EXTENDS DrillServer, TLC

\* Files, configurations and managers are interchangeable: for safety only.
ServerSymmetry ==
  Permutations(Inodes) \cup Permutations(Versions) \cup Permutations(Managers)
==============================================================================
