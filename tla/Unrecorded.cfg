SPECIFICATION Spec
CONSTANTS
  desk = desk
  phone = phone
  theirs = theirs
  me = me
  them = them
  flight = flight
  Sockets = {desk, phone}
  UserOf <- MyOwners
  Users = {me}
  Roles = {flight}
  Names = {1, 2, 3}
  MaxOccupants <- OneSeat
  Failures = {"begin"}
  MayGo = {}
ACTION_CONSTRAINT MintedInOrder
CHECK_DEADLOCK FALSE
INVARIANT SeatsAreAttended
