SPECIFICATION Spec
CONSTANTS
  w1 = w1
  Workers = {w1}
  Enabled = TRUE
  Week = 2
  MonthDays = 2
  Amounts = {}
  MaxDay = 1
  MaxRequests = 2
  MaxUploads = 0
  MaxCrashes = 0
INVARIANTS
  OneRewardPerDay
CHECK_DEADLOCK FALSE
