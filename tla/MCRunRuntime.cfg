SPECIFICATION Spec
CONSTANTS
  Replicas = {a, b}
  Runs = {r1}
  NoReplica = NoReplica
  NoRun = NoRun
  Damaged = {}
  MaxToken = 3
  MaxChunks = 1
  MaxAttempts = 1
  MaxFaults = 2
SYMMETRY ReplicaSymmetry
INVARIANTS
  AtMostOneExecution
  FencedWriterInSync
  OutcomeMatchesDelivery
  CancellationNeverDropped
  JournalSound
  TerminalScrubs
PROPERTIES
  WritesUnderCurrentToken
  TerminalIsFinal
  ImplementsLedger
CHECK_DEADLOCK FALSE
