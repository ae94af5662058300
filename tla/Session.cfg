\* Four clients of the shadow server that join, send and leave in every order;
\* every client against every server, two connections one after the other; two
\* licenses; updates of up to twice a packet; one plugin over sessions and
\* reconnections; two dynamic channels, one with messages of two PDUs.
CONSTANTS
  Clients = {c1, c2, c3, c4}
  MaxConnects = 2
  Cals = {l1, l2}
  NoFile = NoFile
  MaxPacket = 4
  SafeSize = 3
  MaxLength = 3
  MaxCompressed = 2
  Announced = {3, 4, 6}
  MaxUpdate = 6
  MaxInFlight = 3
  Updates = 3
  DataStreams = {1, 2, 3}
  MaxQueued = 2
  MaxChannels = 2
  ChunkLength = 2
  FirstLength = 1
  Lengths <- MCLengths
  MaxPdus = 2
SPECIFICATION SessionSpec
CHECK_DEADLOCK FALSE
INVARIANTS
  FrameKept
  StrongestCommon
  LayersAgree
  
  UpdatesIntact
  NoEventAfterFree
  MessagesIntact
  ListsAgree
PROPERTIES
  ImplementsRounds
  ServerGoesOn
  NegotiationEnds
  
  DisconnectEnds
  
