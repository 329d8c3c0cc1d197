SPECIFICATION Spec
CONSTANTS
  Replicas = {a, b}
  Runs = {r1, r2}
  NoReplica = NoReplica
  NoRun = NoRun
  Damaged = {}
  MaxToken = 3
  MaxChunks = 0
  MaxAttempts = 0
  MaxFaults = 0
SYMMETRY ThreadSymmetry
INVARIANTS
  ThreadSequenceUnique
  OneForegroundRun
CHECK_DEADLOCK FALSE
