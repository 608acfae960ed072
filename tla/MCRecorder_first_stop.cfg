SPECIFICATION Spec
CONSTANTS
  leg1 = leg1
  leg2 = leg2
  home = home
  stop = stop
  change = change
  last = last
  work = work
  NoTrip = NoTrip
  Nil = Nil
  Routes = {1}
  LegsOf <- MCLegsOf
  DirectionOf <- MCDirectionOf
  UsualDirection <- MCUsualDirection
  Regions = {home, stop, change, last, work}
  RolesOf <- MCRolesOf
  Times = {2, 3, 4}
  MaxAttemptSeq = 2
  GpsBatchSize = 2
  GpsBatchInterval = 2
  AbandonAfterReturnHome = 1
  MaxTripDuration = 2
  QuietAfterTripEnd = 1
  MaxTrips = 1
  SampleTimes = {2}
INVARIANT FirstStopRecorded
