SPECIFICATION Spec
CONSTANTS
  r1 = r1
  leg1 = leg1
  Nil = Nil
  NoTrip = NoTrip
  Routes = {r1}
  Legs = {leg1}
  RouteOf <- MCRouteOf
  Times = {1, 2}
  Dates = {1}
  Points = {p1}
  NextVehicle <- MCNextVehicle
  TripIds = {1, 2}
  Seqs = {1, 2}
  SentBodies <- MCBodies
INVARIANTS
  TimesConsistent
  SeqsContiguous
  KeysUnique
  ResendIsHarmless
PROPERTIES
  StoredStays
