SPECIFICATION Spec
CONSTANTS
  r1 = r1
  leg1 = leg1
  NoKey = NoKey
  Nil = Nil
  NoTrip = NoTrip
  NoCall = NoCall
  NoAnswer = NoAnswer
  Keys <- MCKeys
  Attempts <- MCAttempts
  Values <- Times
  Points <- Times
  MaxPoints = 1
  FailureCap = 1
  SavesMayFail = TRUE
  Routes = {r1}
  Legs = {leg1}
  RouteOf <- MCRouteOf
  NextVehicle <- MCNextVehicle
  Script <- MCScript
  MaxClock = 2
  MaxTrips = 2
  MaxCrashes = 0
  MaxLate = 0
  CrashInEvent = FALSE
  ClockMoves = FALSE
  OtherAnswers = {}
  Tokens = {TRUE, FALSE}
INVARIANTS
  InFlightIsAwaited
