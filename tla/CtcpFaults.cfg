SPECIFICATION Spec
CONSTANTS
  Client = Client
  Server = Server
  MAX_SEG_DATA_SIZE = 2
  MAX_BUF_SPACE = 4
  Window <- Both2
  InputLen <- OneWay3
  MaxEof <- Both1
  EofAfter <- Both0
  MaxEmpty <- OneWay1
  WordSum <- MCWordSum
  Faults = {"drop", "duplicate", "delay", "corrupt"}
  FaultBudget = 1
  TimersEarly = FALSE
  Writes = {2}
INVARIANTS
  TypeOK
  WindowAccounting
  TimerCountsUnacked
  UnreceivedIsKept
  RecvWindowEmpty
  OutputIsPrefix
  CrashNeedsTwo
  CloseNeedsEof
PROPERTIES
  ImplementsStream
CHECK_DEADLOCK FALSE
