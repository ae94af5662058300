\* TLS, fair receive loops; the application resizes at any time and may fail.
CONSTANTS
  ChannelCount = 1
  MessageChannel = FALSE
  UseRdpSecurityLayer = FALSE
  ResizeStates <- AnyTime
  AppMayFail = TRUE
  MaxRounds = 3
  MaxClientData = 1
  MaxServerData = 1
SPECIFICATION FairSpec
CHECK_DEADLOCK FALSE
PROPERTY
  SessionActivates
