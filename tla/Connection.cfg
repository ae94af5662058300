\* RDP security, two static channels and the message channel; the application resizes an active session.
CONSTANTS
  ChannelCount = 2
  MessageChannel = TRUE
  UseRdpSecurityLayer = TRUE
  ResizeStates <- WhenActive
  AppMayFail = FALSE
  MaxRounds = 3
  MaxClientData = 2
  MaxServerData = 2
SPECIFICATION Spec
CHECK_DEADLOCK FALSE
INVARIANTS
  NoRefusal
  ServerActiveForLastDemand
  ClientActiveForLastDemand
  ActivatedOncePerExchange
  UpdatesFindActiveClient
  KeysPrecedeCiphertext
  JoinsAgree
PROPERTY
  ImplementsActivation
