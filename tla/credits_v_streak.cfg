SPECIFICATION Spec
CONSTANTS
  w1 = w1
  Workers = {w1}
  Enabled = FALSE
  Week = 7
  MonthDays = 2
  Amounts = {}
  MaxDay = 4
  MaxRequests = 3
  MaxUploads = 0
  MaxCrashes = 0
INVARIANTS
  StreakIsConsecutive
CHECK_DEADLOCK FALSE
