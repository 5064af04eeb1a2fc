SPECIFICATION Spec
CONSTANTS
  observer = observer
  flight = flight
  ground = ground
  thermal = thermal
  power = power
  first = first
  second = second
  RoleIds = {observer, flight}
  LoopIds = {ground, thermal, power}
  Handlers = {first}
  Seeded = {observer}
  Granted = {0, 2}
  MaxWrites = 4
  StoreMayFail = FALSE
CHECK_DEADLOCK FALSE
INVARIANTS
  CompleteColumnsAreRuledOn
