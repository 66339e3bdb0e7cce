SPECIFICATION Spec
CONSTANTS
  d1 = d1
  d2 = d2
  d3 = d3
  Foreign = Foreign
  None = None
  Digests <- ThreeDigests
  Strategy = "StopAllThenApply"
  QueuePolicy = "Fail"
  ReadinessGate = TRUE
  RollbackEnabled = TRUE
  MaxRetries = 1
  HistoryLimit = 1
  DriftMode = "Warn"
  FaultPoints <- ForgettingFaults
  MidRolloutEdits = TRUE
  MaxReqs = 5
  MaxFails = 2
  MaxLost = 1
  MaxEdits = 2
  MaxCancels = 1
  MaxDrifts = 1
INVARIANTS
  CheckpointKept
  NoStrayRequest
  InSyncMeansLive
PROPERTIES
  StaysRolledBack
SYMMETRY AnyDigest
