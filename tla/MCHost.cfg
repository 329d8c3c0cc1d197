SPECIFICATION HostSpec
CONSTANTS
  None = None
  Actors = {"alice", "bob"}
  Fields = {"field"}
  MaxEpoch = 2
  HELP_REQUEST_TTL = 1
  MaxTime = 2
  MaxGeneration = 2
  Absent = Absent
  Tasks = {"t1", "t2"}
  Scopes = {"s1", "s2"}
  Instances <- HostInstances
  Browsers = {1, 2, 3, 4, 5, 6}
  maximum_live = 1
  Nothing = Nothing
  Threads = {"h1", "h2"}
  Rows = {"b1", "b2"}
  Runs = {"r"}
  Procs = {"k1", "k2"}
  Readers = {"x"}
  Askers = {"a1", "a2"}
  Requests = {"q"}
  BatchLimit = 1
  MaxXid = 8
INVARIANTS
  BrowserSafety
  ScreenSafety
  ControlSafety
  ConfirmSafety
  SidecarSafety
  BrokerSafety
  HistorySafety
PROPERTIES
  ControlSteps
  HostSteps
CHECK_DEADLOCK FALSE
