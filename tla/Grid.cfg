SPECIFICATION Spec
CONSTANTS
  observer = observer
  flight = flight
  ground = ground
  thermal = thermal
  power = power
  first = first
  second = second
  RoleIds = {observer, flight}
  LoopIds = {ground, thermal, power}
  Handlers = {first, second}
  Seeded = {observer}
  Granted = {0, 2}
  MaxWrites = 5
  StoreMayFail = TRUE
SYMMETRY Alike
CHECK_DEADLOCK FALSE
INVARIANTS
  NothingOutlivesItsRecord
  StaffersMayAnswer
  LogTellsTheGrid
  TheOrderIsAsAdministered
  BeaconsFollow
PROPERTY OnlyADeletedRoleLeavesAMark
