CONSTANTS
  Pods = {1, 2}
  Images = {"one"}
  MaxStarts = 2
  MaxEdits = 1
  MaxFaults = 0
SPECIFICATION FleetSpec
INVARIANT RestartConfigures
CHECK_DEADLOCK FALSE
