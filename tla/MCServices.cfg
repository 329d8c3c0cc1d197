SPECIFICATION ServicesSpec
CONSTANTS
  Nil = Nil
  Users = {"u1", "u2"}
  Subjects = {"s1", "s2"}
  Emails = {"e1", "e2", "e3"}
  Vouched <- TheVouched
  Floor = {"e1"}
  Databases <- FoundDatabases
  StaticProviders = {"google"}
  DynamicProviders = {"corp"}
  Configs <- AllConfigs
  StaticConfig <- DeploymentConfig
  Groups = {"risk"}
  RawGroups = {"risk", "Risk"}
  Fold <- TheFold
  Audiences <- TheAudiences
  PackageChannels = {"home"}
  PrivateChannels = {"mine"}
  Attempts = {"a1", "a2", "a3"}
  Callbacks = {"c1", "c2", "c3"}
  WebRequests = {"r1", "r2"}
  Capacity = 2
  MaxAuthGen = 3
  MaxSyncs = 1
  Ops = {"o1", "o2"}
  Sessions = {"s1", "s2"}
  MaxRevocations = 1
  MaxLosses = 1
  MaxGen = 2
  MaxFaults = 1
  Overlap = {"o2"}
INVARIANTS
  JournalSafety
  RotationSafety
  McpSafety
  SignInSafety
PROPERTIES
  ServiceSteps
CHECK_DEADLOCK FALSE
