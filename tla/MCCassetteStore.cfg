SPECIFICATION Spec
CONSTANTS
  Interactions = {x, y, z}
  MaxRestarts = 2
  MaxPowerLosses = 1
  Absent = Absent
  Torn = Torn
  NotOpen = NotOpen
INVARIANTS
  CassetteNeverTorn
  FailedAppendsAreUndone
  AckedInteractionsKept
PROPERTIES
  ImplementsLog
CHECK_DEADLOCK FALSE
