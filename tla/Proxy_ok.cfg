SPECIFICATION FairSpec
CONSTANTS
  Listens <- SmallListens
  Methods <- SmallMethods
  Passwords <- SmallPasswords
  Servers <- SmallServers
  MaxArgs = 2
  MaxClients = 4
  MaxFds = 4
CHECK_DEADLOCK FALSE
INVARIANTS TypeOK  NothingElseLeft OneLateClient
PROPERTIES StopsOnSigint ClientsServed
