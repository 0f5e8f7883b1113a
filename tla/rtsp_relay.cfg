SPECIFICATION FairSpec
CONSTANTS
  Room = 4
  MaxClients = 3
INVARIANTS TypeOK Decodable
PROPERTIES ReadsEnd PlayersSee WritesEnd
CHECK_DEADLOCK FALSE
