\* Two interfaces, four command lines, every way TCP may cut the stream.
SPECIFICATION FairSpec
CONSTANTS
  OCTET = 4
  ADDR_OCTETS = 2
  OCTET_BITS = 2
  LEN_OCTETS = 2
  MAX_COMMAND = 8
  Arguments <- CommandLines
  FileSystems <- Disks
  AuthKeys <- Keys
  StackContents <- Stacks
  Salts <- SaltSet
  ServerTables <- Tables
  Hardware <- Cards
  Packets <- Traffic
  MaxCommands = 5
CHECK_DEADLOCK FALSE
INVARIANTS
  TypeOK
  FramesWhole
  DigestRight
  PacketsHandled
  LongestMatch
  FramesLeave
PROPERTIES
  CloseEnds
