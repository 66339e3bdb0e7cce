SPECIFICATION FairSpec
CONSTANTS
  Adoption = {FALSE, TRUE}
  Present = {FALSE, TRUE}
  MaxMade = 2
  MaxRequests = 3
  MaxEdits = 2
  MaxFaults = 2
INVARIANTS StatusIsTrue OneRequest DeletedMeansGone
PROPERTIES ComesToRest
CHECK_DEADLOCK FALSE
