SPECIFICATION Spec
CONSTANTS
  Client = Client
  Server = Server
  MAX_SEG_DATA_SIZE = 2
  MAX_BUF_SPACE = 3
  Window <- Both2
  InputLen <- OneWay5
  MaxEof <- Both1
  EofAfter <- Both0
  MaxEmpty <- Both0
  WordSum <- MCWordSum
  Faults = {"drop", "duplicate", "delay", "corrupt"}
  FaultBudget = 0
  TimersEarly = FALSE
  Writes = {0, 2}
INVARIANTS
  AcknowledgedIsOutput
CHECK_DEADLOCK FALSE
