SPECIFICATION FairSpec
CONSTANTS
  Replicas = {a, b}
  Runs = {r1}
  NoReplica = NoReplica
  NoRun = NoRun
  Damaged = {r1}
  MaxToken = 5
  MaxChunks = 0
  MaxAttempts = 0
  MaxFaults = 0
PROPERTIES
  EveryRunEnds
CHECK_DEADLOCK FALSE
