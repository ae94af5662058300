\* The application resizes again before the reactivation under way has ended.
CONSTANTS
  ChannelCount = 0
  MessageChannel = FALSE
  UseRdpSecurityLayer = FALSE
  ResizeStates <- AnyTime
  AppMayFail = FALSE
  MaxRounds = 3
  MaxClientData = 1
  MaxServerData = 0
SPECIFICATION Spec
CHECK_DEADLOCK FALSE
INVARIANT
  ReactivationCarriedOut
