SPECIFICATION Spec
CONSTANTS
  act = act
  ask = ask
  show = show
  edit = edit
  NoTool = NoTool
  Tools = {act, ask, show, edit}
  HumanTools = {ask}
  SafeTools = {show, edit}
  Locks <- MCLocks
  ToolStepCap = 2
  MaxBatch = 2
INVARIANTS
  EffectsReconciled
  ExchangesInOrder
  AnswerIsCurrent
  SamplingsBounded
  ConflictsNeverOverlap
  SilentOnlyAtStepLimit
CHECK_DEADLOCK FALSE
