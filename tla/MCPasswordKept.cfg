CONSTANTS
  h1 = h1
  w1 = w1
  c1 = c1
  s1 = s1
  f1 = f1
  long = long
  NoId = NoId
  Absent = Absent
  Broken = Broken
  HttpSessions = {h1}
  Workers = {w1}
  Connections = {c1}
  SshSessions = {s1}
  Forwards = {f1}
  Passwords = {long}
  Length <- MCLongLength
  EndsEqEq <- MCEndsEqEq
  MaxLayers = 2
  Serial = TRUE
SPECIFICATION Spec
CHECK_DEADLOCK FALSE
INVARIANT
  LoginPossible
