SPECIFICATION Spec
CONSTANTS
  w1 = w1
  Workers = {w1}
  Enabled = FALSE
  Week = 2
  MonthDays = 2
  Amounts <- MCAmounts
  MaxDay = 5
  MaxRequests = 3
  MaxUploads = 2
  MaxCrashes = 1
INVARIANTS
  ColumnInv
  HistoryExplainsTokens
  ProfileBonusOnce
  RewardMatchesStreak
  MonthlyBonusEarned
CHECK_DEADLOCK FALSE
