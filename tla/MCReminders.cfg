CONSTANTS
  Ids = {r1, r2, r3}
  DayLength = 2
  Periods = {2}
  MaxPerDay = 1
  MaxStored = 2
  CatchUp = 0
  MaxTime = 5
  LastDue = 2
  LastOff = 3
  MaxFaults = 1
  MaxStops = 1
SPECIFICATION Spec
INVARIANTS TypeOK WithinDailyCap CancelledStaysCancelled
PROPERTIES NeverTwice OneOffGoesOut
CHECK_DEADLOCK FALSE
