SPECIFICATION FairSpec
CONSTANTS
  desk = desk
  phone = phone
  theirs = theirs
  me = me
  them = them
  flight = flight
  Sockets = {desk, phone, theirs}
  UserOf <- Owners
  Users = {me, them}
  Roles = {flight}
  Names = {1, 2, 3}
  MaxOccupants <- OneSeat
  Failures = {"read", "begin", "write", "commit"}
  MayGo = {desk}
ACTION_CONSTRAINT MintedInOrder
CHECK_DEADLOCK FALSE
INVARIANTS
  AnEndIsOfWhatBegan
  EndsAreRecordedOnce
  EveryEndIsRecorded
  AHeldSeatHasItsPath
  SeatsAreRecordedOrGivenUp
PROPERTIES
  TheDisplacedAreTold
  OnlyALatePathIsLeftOpen
