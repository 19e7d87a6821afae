SPECIFICATION Spec
CONSTANTS
  Client = Client
  Server = Server
  MAX_SEG_DATA_SIZE = 2
  MAX_BUF_SPACE = 3
  Window <- Both1
  InputLen <- OneWay5
  MaxEof <- Both0
  EofAfter <- Both0
  MaxEmpty <- Both0
  WordSum <- MCWordSum
  Faults = {"drop", "duplicate", "delay", "corrupt"}
  FaultBudget = 1
  TimersEarly = TRUE
  Writes <- AnyWrite
INVARIANTS
  NeverCrashes
  OutputInOrder
  IInv
CHECK_DEADLOCK FALSE
