CONSTANTS
  i1 = i1
  i2 = i2
  r1 = r1
  r2 = r2
  s1 = s1
  c1 = c1
  val1 = val1
  val2 = val2
  working = working
  broken = broken
  Absent = Absent
  Nil = Nil
  None = None
  Instances = {i1, i2}
  Slots = {r1, r2}
  Ids = {s1, c1}
  KindOf <- MCKindOf
  Vals = {val1, val2}
  States = {working, broken}
  Users <- MCUsers
SPECIFICATION PartsSpec
CHECK_DEADLOCK FALSE
INVARIANTS
  ViewIsRoute
  ShownIsClone
  FormsKept
  RoutesKept
PROPERTIES
  StatesShown
  LeftViewsStopPolling
