SPECIFICATION FairSpec
CONSTANTS
  Encryptions = {"128bit"}
  Securities = {"none"}
  Natives <- UsualNative
  ChannelCounts = {0}
  MAX_CHANNELS_ALLOWED = 2
  Environment = {}
CHECK_DEADLOCK FALSE
PROPERTIES PreferredEncryption
