SPECIFICATION FairSpec
CONSTANTS
  Encryptions = {"none"}
  Securities = {"none", "vnc_auth", "wrong_password", "refused"}
  Natives <- SmallNatives
  ChannelCounts = {0, 1, 2, 31, 32}
  MAX_CHANNELS_ALLOWED = 31
  Environment = {"clientCloses", "serverCloses", "interrupt"}
CHECK_DEADLOCK FALSE
INVARIANTS TypeOK ChannelsAgree FormatAgreed StartsSession LengthsAgree
PROPERTIES FailsForAReason Established
