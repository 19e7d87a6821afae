SPECIFICATION FairSpec
CONSTANTS
  Client = Client
  Server = Server
  MAX_SEG_DATA_SIZE = 1
  MAX_BUF_SPACE = 4
  Window <- Both1
  InputLen <- OneWay3
  MaxEof <- Both1
  EofAfter <- AfterLast
  MaxEmpty <- Both0
  WordSum <- MCWordSum
  Faults = {"drop", "duplicate", "delay", "corrupt"}
  FaultBudget = 1
  TimersEarly = FALSE
  Writes = {1}
PROPERTIES
  AllDelivered
  CloseAfterEofs
CHECK_DEADLOCK FALSE
