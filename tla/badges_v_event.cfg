SPECIFICATION Spec
CONSTANTS
  w1 = w1
  w2 = w2
  e1 = e1
  e2 = e2
  Workers = {w1, w2}
  Events = {e1, e2}
  Roster <- MCRoster
  Thresholds <- MCThresholds
  Flags = {"PHOTO"}
  Requests <- MCRequests
  MaxRuns = 2
  MaxCrashes = 1
PROPERTIES
  ProjectBadgePerEvent
CHECK_DEADLOCK FALSE
