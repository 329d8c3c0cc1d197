SPECIFICATION Spec
CONSTANTS
  act = act
  ask = ask
  show = show
  edit = edit
  NoTool = NoTool
  Tools = {show}
  HumanTools = {}
  SafeTools = {show}
  Locks <- MCLocks
  ToolStepCap = 2
  MaxBatch = 2
INVARIANT
  UnknownOutcomesReconciled
CHECK_DEADLOCK FALSE
