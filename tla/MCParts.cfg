CONSTANTS
  None = None
  Null = Null
  Default = Default
  w1 = w1
  i1 = i1
  i2 = i2
  i3 = i3
  NoConfig = NoConfig
  NoInode = NoInode
  MaxBytes = 2
  MaxSent = 6
  Workers = {w1}
  Versions = {"v1", "v2"}
  Inodes = {i1, i2, i3}
  DiskFaults = {"write", "delete", "rename", "crash"}
  SshConnections = {"c1", "c2"}
  Connections = {"c", "d"}
  Nil = Nil
  Undefined = Undefined
  Hosts = {"g", "h"}
  Keys = {"k1", "k2"}
  NoHost = NoHost
  MaxRekeys = 1
  CacheKeys = {"k1", "k2", "k3", "k4"}
  CacheContents = {"x"}
  Capacity = 2
  MaxEmpty = 1
  MaxEntries = 4
  MaxDeferreds = 3
  Results = {"v"}
  Nothing = Nothing
  MaxRequests = 2
  Addresses = {"u"}
  Bodies = {"b"}
  Timeouts = {"t"}
  Waiters = {"w"}
  Absent = Absent
  Proxies = {"HTTP"}
  MaxPresses = 2
  ScopeIds = {"r", "x", "y", "z"}
  Root = "r"
  Cells = {"m"}
  Iterations = 2
  Effects = 4
  MaxWatchers = 2
  NoScope = NoScope
  Modules = {"app", "m", "n"}
  App = "app"
  Services = {"s1", "s2", "s3"}
  ModuleNames = {"app", "m"}
  Order <- MCOrder
  ServiceNames = {"s"}
  Payloads = {"1", "2"}
  MaxCalls = 4
  ArgumentLists <- MCArgumentLists
  Unregistered = Unregistered
  ClassValues <- MCClasses
  Conditions <- MCConditions
  OwnClasses = {"own", "a"}
  NoValue = NoValue
  Texts <- MCTemplates
  Values <- MCShownValues
  Observers = {"o"}
SPECIFICATION PartsSpec
CHECK_DEADLOCK FALSE
INVARIANTS
  ClosedWhenOver
  ErrorAnswersRequest
  ConfigFileComplete
  KnownHostsKept
  AnswerIsRead
  ScopesKept
  HeardOnce
  PromisesKept
  RequestsKept
  RowsFollow
  TemplatesAreShown
  DressIsTheModel
  DialogIsOwn
  PageStarts
  ParsesTheGrammar
PROPERTIES
  SessionEnds
  ImplementsRecency
  LinksAreAdded
