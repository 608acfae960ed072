SPECIFICATION Spec
CONSTANTS
  first = first
  edition = edition
  broken = broken
  garbled = garbled
  unknown = unknown
  large = large
  blank = blank
  empty = empty
  Files <- DiskFiles
  Lines <- DiskLines
  TooLarge = {large}
  None = None
  LineIds = {1}
  StopIds = {1}
  Times = {1, 2, 3}
  Dates = {1, 2, 3}
  DayTypeOn <- FridayToSunday
  Directions = {"UP", "DN"}
  MaxLimit = 2
  Typed <- TypedInChecker
  MaxPicks = 3
  MaxUploads = 2
  MaxEdits = 1
INVARIANTS
  RulesAgree
  PatientGetsItsFile
  DeparturesRight
PROPERTIES
  PreviewForetells
CHECK_DEADLOCK FALSE
