SPECIFICATION FairSpec
CONSTANTS
  Users = {"u1"}
  Policies = {"p1", "p2"}
  Group = "group"
  Refs <- MCRefs
  MaxMade = 2
  MaxEvents = 2
INVARIANTS StatusIsTrue DeletionRevokes
PROPERTIES OthersKeepAccess ComesToRest
CHECK_DEADLOCK FALSE
