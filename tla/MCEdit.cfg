CONSTANTS
  h1 = h1
  h2 = h2
  w1 = w1
  w2 = w2
  c1 = c1
  s1 = s1
  f1 = f1
  short = short
  NoId = NoId
  Absent = Absent
  Broken = Broken
  HttpSessions = {h1, h2}
  Workers = {w1, w2}
  Connections = {c1}
  SshSessions = {s1}
  Forwards = {f1}
  Passwords = {short}
  Length <- MCLength
  EndsEqEq <- MCEndsEqEq
  MaxLayers = 2
  Serial = TRUE
SPECIFICATION Spec
SYMMETRY EditSymmetry
CHECK_DEADLOCK FALSE
INVARIANTS
  NoDanglingForward
  PasswordKept
PROPERTY
  RunsWhatIsOnDiskProp
