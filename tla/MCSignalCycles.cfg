SPECIFICATION Spec
CONSTANTS
  DayTypes <- DayOrder
  Instants = {0, 1, 2, 3}
  MinCycle = 30
  MaxCycle = 300
  MaxRows = 2
  NewStart = 1
  NewEnd = 2
  Edits <- TypedValues
  Others <- OtherBodies
  Given <- GivenRows
  None = None
  MaxEdits = 3
  MaxSaves = 2
  MaxElsewhere = 1
  MaxRefetches = 1
INVARIANTS
  RulesAgree
  OneRowInForce
  SavedIsStored
CHECK_DEADLOCK FALSE
