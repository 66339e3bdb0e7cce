SPECIFICATION FairSpec
CONSTANTS
  in1 = in1
  out1 = out1
  d1 = d1
  d2 = d2
  d3 = d3
  Absent = Absent
  Boundaries <- MCBoundaries
  Inbound <- MCInbound
  Digests <- ThreeDigests
  Initial = d1
  Ports <- PortsDiffer
  OnDrainTimeout = "Fail"
  FaultPoints <- HandledFaults
  MaxMidEdits = 0
  MaxGroups = 3
  MaxConns = 10
  MaxFails = 2
  MaxLost = 0
  MaxEdits = 2
  MaxCancels = 0
INVARIANTS
  QuiescentOnLive
  NoDropUnderFail
PROPERTIES
  SwitchesTraffic
  RolloutEnds
