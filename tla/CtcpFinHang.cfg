SPECIFICATION FairSpec
CONSTANTS
  Client = Client
  Server = Server
  MAX_SEG_DATA_SIZE = 1
  MAX_BUF_SPACE = 4
  Window <- Both1
  InputLen <- OneWay2
  MaxEof <- OneWay1
  EofAfter <- Both0
  MaxEmpty <- Both0
  WordSum <- MCWordSum
  Faults = {"drop", "duplicate", "delay", "corrupt"}
  FaultBudget = 2
  TimersEarly = FALSE
  Writes = {1}
PROPERTIES
  BothClose
CHECK_DEADLOCK FALSE
