SPECIFICATION Spec
CONSTANTS
  leg1 = leg1
  leg2 = leg2
  home = home
  stop = stop
  change = change
  last = last
  work = work
  NoTrip = NoTrip
  Nil = Nil
  Routes = {1}
  LegsOf <- MCShortLegsOf
  DirectionOf <- MCDirectionOf
  UsualDirection <- MCUsualDirection
  Regions = {home, stop, last}
  RolesOf <- MCShortRolesOf
  Times = {2, 4}
  MaxAttemptSeq = 1
  GpsBatchSize = 2
  GpsBatchInterval = 2
  AbandonAfterReturnHome = 1
  MaxTripDuration = 2
  QuietAfterTripEnd = 1
  MaxTrips = 2
  SampleTimes = {2, 4}
INVARIANTS
  SamplesKept
