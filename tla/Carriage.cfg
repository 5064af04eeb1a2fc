SPECIFICATION Spec
CONSTANTS
  ada = ada
  bob = bob
  eve = eve
  flight = flight
  capcom = capcom
  Sessions = {ada, bob, eve}
  Talkers = {ada}
  Listeners = {bob, eve}
  Counters = {bob}
  Destinations = {flight, capcom}
  Measured = {flight}
  MayFail <- ToBobMayFail
  MaxCarriages = 2
CHECK_DEADLOCK FALSE
INVARIANTS
  CarriesWhatIsInstructed
  ToldWhatIsCarried
  RunsWhatWasAnswered
PROPERTY NoStreamIsInterrupted
