SPECIFICATION FairSpec
CONSTANTS
  b1 = b1
  b2 = b2
  r1 = r1
  s1 = s1
  s2 = s2
  Backups <- MCBackups
  Restores <- MCRestores
  Stores <- MCStores
  Given <- MCGiven
  Targets <- MCTargets
  Sources <- MCSources
  Nobody = Nobody
  MaxContent = 2
  MaxUids = 3
  MaxCopies = 2
  MaxEvents = 2
INVARIANTS
  CapturedIsKept
  RestoredIsCaptured
PROPERTIES
  ComesToRest
CHECK_DEADLOCK FALSE
