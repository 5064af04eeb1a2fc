SPECIFICATION Spec
CONSTANTS
  flight = flight
  guest = guest
  Users = {u1, u2}
  Roles = {flight, guest}
  Loops = {loop}
  Names = {n1, n2}
  MaxOccupants <- NoLimits
  Remembered <- NothingRemembered
  Reaches <- MonitorOrEmit
  Requests = {"assume", "subscribe", "unsubscribe", "mute", "arm", "key", "priority",
              "presence", "heartbeat", "go", "tick"}
  UnconfirmedAfter = 1
  DisconnectedAfter = 2
  LostAfter = 1
  KeptFor = 1
  MaxCount = 0
SYMMETRY SymmetryOfRoles
CHECK_DEADLOCK FALSE
INVARIANTS
  ConsoleIsCoherent
  AudibleIsAttributed
  PriorityIsOnTheAir
  StaffedIsReachable
PROPERTY RevocationIsDestructive
