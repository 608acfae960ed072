SPECIFICATION Spec
CONSTANTS
  k1 = k1
  Keys = {k1}
  NoKey = NoKey
  Attempts <- MCAttempts
  Values = {1, 2}
  Nil = Nil
  Points = {1, 2}
  MaxPoints = 1
  FailureCap = 1
  SavesMayFail = TRUE
  AppCommands <- MCAppCommands
  ServerIds = {7}
  MaxId = 3
INVARIANTS
  TypeOK
  OnlyHeadsInFlight
PROPERTIES
  SentIsFrozen
