SPECIFICATION Spec
CONSTANTS
  act = act
  ask = ask
  show = show
  edit = edit
  NoTool = NoTool
  Tools = {act}
  HumanTools = {}
  SafeTools = {}
  Locks <- MCLocks
  ToolStepCap = 2
  MaxBatch = 2
INVARIANT
  ReturnsCommitTerminal
CHECK_DEADLOCK FALSE
