SPECIFICATION FairSpec
CONSTANTS
  r1 = r1
  t1 = t1
  s1 = s1
  Routes <- OnlyRoute
  Trips <- OnlyTrip
  Signals <- OnlySignal
  Opened <- OpenedLists
  k1 = k1
  k2 = k2
  Tokens <- TwoTokens
  Key = k1
  None = None
  Tours <- EveryTour
  MaxMoves = 1
  MaxFocus = 1
  MaxSaves = 1
  MaxElsewhere = 1
  MaxMishaps = 1
  MaxEvents <- EventsOf
INVARIANTS
  SeesSaved
  LoggedOutEmpty
PROPERTIES
  OlderIsReloaded
  LoadEnds
CHECK_DEADLOCK FALSE
