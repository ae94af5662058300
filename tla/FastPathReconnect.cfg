\* The network is lost in the middle of an update of two fragments.
SPECIFICATION ReconnectSpec
CONSTANTS
  MaxPacket = 4
  SafeSize = 3
  MaxLength = 3
  MaxCompressed = 2
  Announced = {6}
  MaxUpdate = 6
  MaxInFlight = 3
  Updates = 3
CHECK_DEADLOCK FALSE
INVARIANT TakenAfterReconnect
