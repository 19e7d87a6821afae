SPECIFICATION Spec
CONSTANTS
  NumClients = 2
  MAX_NUM_CLIENTS = 2
  NUM_POLL = 3
  MAX_RETRANS = 1
  SOCKET_QUEUE <- Queues
  ClientSeqnos = {0}
  ServerSeqnos = {3}
  Budget = 2
PROPERTY LeavesOwnWay
CHECK_DEADLOCK FALSE
