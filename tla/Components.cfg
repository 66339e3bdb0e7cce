SPECIFICATION FairSpec
CONSTANTS
  Kinds = {"ProcessGroup","ControllerService","Processor","InputPort","OutputPort","Connection","Funnel","Label","ReportingTask","ParameterProvider","RegistryClient"}
  Pins = {TRUE}
  MaxMade = 2
  MaxEdits = 1
  MaxMeddles = 1
  MaxFaults = 1
INVARIANTS StatusIsTrue DeletionIsExact
PROPERTIES NeverForgets ComesToRest
CHECK_DEADLOCK FALSE
