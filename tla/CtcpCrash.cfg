SPECIFICATION Spec
CONSTANTS
  Client = Client
  Server = Server
  MAX_SEG_DATA_SIZE = 2
  MAX_BUF_SPACE = 4
  Window <- Both2
  InputLen <- OneWay3
  MaxEof <- Both1
  EofAfter <- Both0
  MaxEmpty <- Both0
  WordSum <- MCWordSum
  Faults = {"delay"}
  FaultBudget = 1
  TimersEarly = FALSE
  Writes = {2}
INVARIANTS
  NeverCrashes
CHECK_DEADLOCK FALSE
