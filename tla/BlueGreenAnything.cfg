SPECIFICATION Spec
CONSTANTS
  in1 = in1
  out1 = out1
  d1 = d1
  d2 = d2
  d3 = d3
  Absent = Absent
  Boundaries <- MCBoundaries
  Inbound <- MCInbound
  Digests <- TwoDigests
  Initial = d1
  Ports <- PortsMatch
  OnDrainTimeout = "Drop"
  FaultPoints <- AllFaults
  MaxMidEdits = 1
  MaxGroups = 3
  MaxConns = 6
  MaxFails = 1
  MaxLost = 2
  MaxEdits = 2
  MaxCancels = 2
INVARIANTS
  TypeOK
  RetireSafe
  RollbackTargetExists
  LiveGroupExists
  ReadyMeansDeployed
