SPECIFICATION Spec
CONSTANTS
  home = home
  office = office
  sea = sea
  s1 = s1
  s2 = s2
  u1 = u1
  bus = bus
  train = train
  None = None
  nt = nt
  et = et
  Points = {home, office, sea}
  OffMap = {sea}
  Lines = {bus, train}
  Stops = {s1, s2, u1}
  ModeOf <- MCModeOf
  Home = home
  Office = office
  StopAt <- MCStopAt
  Distance <- MCDistance
  TypedDistances = {0, None}
  TypedTimes = {0, 5}
  Crossings = {nt, et}
  FirstCrossing = nt
  StoredLegs <- MCStoredLegs
  MaxSteps = 3
  MaxCrossings = 2
  MaxMeasured = 1
INVARIANTS
  RulesAgree
  ShownIsStored
PROPERTIES
  MeasuredStay
  PatientEditsSurvive
CHECK_DEADLOCK FALSE
