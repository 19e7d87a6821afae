SPECIFICATION FairSpec
CONSTANTS
  NumClients = 3
  MAX_NUM_CLIENTS = 2
  NUM_POLL = 3
  MAX_RETRANS = 1
  SOCKET_QUEUE <- Queues
  ClientSeqnos = {0}
  ServerSeqnos = {3}
  Budget = 2
INVARIANTS TypeOK StatesLive SlotsDistinct ConfirmedReceived NoGap
PROPERTIES DataAnswered NobodyWaits
CHECK_DEADLOCK FALSE
