----------------------------- MODULE MCEditConfig -----------------------------
(***************************************************************************)
(* An instance of EditConfig for TLC.                                      *)
(***************************************************************************)
EXTENDS EditConfig, TLC

\* Passwords that end with a letter: one of 8 bytes ...
MCLength   == [p \in Passwords |-> 8]
MCEndsEqEq == [p \in Passwords |-> FALSE]

\* ... or one of 20.
MCLongLength == [p \in Passwords |-> 20]

EditSymmetry ==
  Permutations(HttpSessions) \cup Permutations(Workers) \cup Permutations(Connections)
==============================================================================
