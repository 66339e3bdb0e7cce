SPECIFICATION FairSpec
CONSTANTS
  main = main
  workers = workers
  Primary = main
  Pools <- TwoPools
  MaxReplicas <- TwoAndOne
  JoinsMidway = FALSE
  MaxEdits = 2
  MaxFaults = 2
INVARIANTS
  TypeOK
PROPERTIES
  NoStranded
  FreshTimer
  ScaleDownEnds
