SPECIFICATION LifeSpec
CONSTANTS
  desk = desk
  phone = phone
  me = me
  flight = flight
  Sockets = {desk, phone}
  UserOf <- Owners
  Users = {me}
  Roles = {flight}
  Names = {1, 2}
  MaxOccupants <- OneSeat
  Failures = {"read", "begin", "write", "commit"}
  MayGo = {desk, phone}
ACTION_CONSTRAINT MintedInOrder
CHECK_DEADLOCK FALSE
PROPERTIES
  TheSeatedAreSpared
  TheReturnedStartAgain
  TheSignedOutAreClosed
