SPECIFICATION RemoteFairSpec
CONSTANTS
  Modes = {"Warn", "Fail", "Ignore", "Reconcile"}
  MaxMade = 2
  MaxEvents = 2
INVARIANTS StatusIsTrue NoDuplicates
PROPERTIES ComesToRest
CHECK_DEADLOCK FALSE
