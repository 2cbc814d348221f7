SPECIFICATION ReadingSpec
CONSTANTS
  Books = {1, 2}
  Devices = {d1, d2}
  None = None
  Length = 2
  DocOf <- MCDocOf
  Measured <- MCMeasured
  Indexes <- MCIndexes
  Holds <- MCHolds
  Shapes <- MCShapes
  LagOf <- MCLagOf
  HoursPerDay = 1
  Weeks = 2
  MaxSaneWPM = 2
  MaxSpent = 2
  MaxReports = 3
  MaxTime = 2
  MaxBesides = 1
  Happens = {"merge", "sync", "reset", "fail"}
INVARIANT MinutesAddUp
 
INVARIANT StreakIsRight
INVARIANT PlaceFollows
CHECK_DEADLOCK FALSE
