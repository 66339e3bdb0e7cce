SPECIFICATION FairSpec
CONSTANTS
  MaxContent = 2
  Valid = {1}
  MaxMade = 5
  MaxEvents = 3
INVARIANTS GroupsKnown ValidIsTrue
PROPERTIES ComesToRest
CHECK_DEADLOCK FALSE
