SPECIFICATION Spec
CONSTANTS
  Listens <- SmallListens
  Methods <- SmallMethods
  Passwords <- SmallPasswords
  Servers <- SmallServers
  MaxArgs = 2
  MaxClients = 1
  MaxFds = 4
CHECK_DEADLOCK FALSE
INVARIANT PasswordAsGiven
