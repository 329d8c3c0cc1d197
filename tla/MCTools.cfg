SPECIFICATION ToolsSpec
CONSTANTS
  None = None
  Absent = Absent
  Tasks = {1, 2, 3, 4, 5}
  Keys = {1, 2, 3}
  Needs <- ToolNeeds
  Permits = 2
  Calls = {"c1", "c2"}
  Invocations = {"i1", "i2"}
  Deciders = {"d"}
  Classes = {"every_call", "once_per_run"}
  Ttl = 1
  MaxTime = 1
  MaxChanges = 1
  Rates <- Tariffs
  Caps <- CostCaps
  Usages <- Reports
  MaxOutput = 2
  StepCap = 2
  MaxRetries = 1
  Million = 4
  IntMax = 6
  MaxEdits = 1
  Blank = Blank
  Unset = Unset
  Interrupts = {"n1", "n2"}
  People = {"p"}
  MaxRounds = 2
  MaxRenewals = 1
  MaxFaults = 1
  MidRenewal = TRUE
INVARIANTS
  BudgetSafety
  CallSafety
  MeterSafety
  InterruptSafety
  ArtifactSafety
PROPERTIES
  ToolSteps
CHECK_DEADLOCK FALSE
