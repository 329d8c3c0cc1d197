SPECIFICATION Spec
CONSTANTS
  Replicas = {a}
  Runs = {r1}
  NoReplica = NoReplica
  NoRun = NoRun
  Damaged = {}
  MaxToken = 3
  MaxChunks = 1
  MaxAttempts = 0
  MaxFaults = 0
INVARIANT
  CancelledAfterChildrenStopped
CHECK_DEADLOCK FALSE
