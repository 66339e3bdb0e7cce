SPECIFICATION FairSpec
CONSTANTS
  d1 = d1
  d2 = d2
  d3 = d3
  Foreign = Foreign
  None = None
  Digests <- TwoDigests
  Strategy = "StopAllThenApply"
  QueuePolicy = "Drop"
  ReadinessGate = TRUE
  RollbackEnabled = TRUE
  MaxRetries = 1
  HistoryLimit = 2
  DriftMode = "Reconcile"
  FaultPoints <- HandledFaults
  MidRolloutEdits = FALSE
  MaxReqs = 7
  MaxFails = 2
  MaxLost = 0
  MaxEdits = 2
  MaxCancels = 0
  MaxDrifts = 1
INVARIANTS
  ReadyMeansRunning
PROPERTIES
  Settles
