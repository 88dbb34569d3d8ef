SPECIFICATION FairSpec
CONSTANTS
  Encryptions = {"none"}
  Securities = {"none"}
  Natives <- UsualNative
  ChannelCounts = {0}
  MAX_CHANNELS_ALLOWED = 2
  Environment = {"split"}
CHECK_DEADLOCK FALSE
INVARIANTS ServerInitReceived
