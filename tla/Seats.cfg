SPECIFICATION Spec
CONSTANTS
  flight = flight
  guest = guest
  Users = {u1, u2, u3}
  Roles = {flight, guest}
  Loops = {loop}
  Names = {n1, n2, n3, n4}
  MaxOccupants <- SeatLimits
  Remembered <- AnythingRemembered
  Reaches <- NoneOrEmit
  Requests = {"assume", "relinquish", "routing", "beacons", "subscribe", "unsubscribe", "off_console",
              "presence", "heartbeat", "tick", "count", "go"}
  UnconfirmedAfter = 2
  DisconnectedAfter = 3
  LostAfter = 3
  KeptFor = 2
  MaxCount = 2
SYMMETRY Symmetry
ACTION_CONSTRAINT OneIsMeasured
CHECK_DEADLOCK FALSE
INVARIANTS
  OneSessionPerUser
  WithinTheLimit
  TombstonesExplain
  HealthIsMeasured
PROPERTIES
  DisplacedIsExplained
  WhatIsOwedIsKept
  ImplementsSeats
