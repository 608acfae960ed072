SPECIFICATION Spec
CONSTANTS
  r1 = r1
  leg1 = leg1
  leg2 = leg2
  walk = walk
  Nil = Nil
  NoTrip = NoTrip
  NotLoaded = NotLoaded
  Routes = {r1}
  Legs = {leg1, leg2}
  RouteOf <- MCRouteOf
  Times = {0, 1, 2, 3, 4, 5, 6, 7}
  Dates = {1}
  NextVehicle <- MCNextVehicle
  StoredTrips <- MCStoredTrips
  RouteVersions <- MCRouteVersions
  PhoneRequests <- MCPhoneRequests
  TypedTimes <- MCTypedTimes
  TypedResults = {"CAUGHT"}
  MaxEdits = 3
  MaxSaves = 2
  MaxPhone = 1
  MaxReads = 1
  MaxMishaps = 1
INVARIANTS
  SavedIsStored
  OneStory
PROPERTIES
  OnlyTypedChanges
CHECK_DEADLOCK FALSE
