SPECIFICATION FairSpec
CONSTANTS
  w1 = w1
  Workers = {w1}
  Enabled = TRUE
  Week = 2
  MonthDays = 2
  Amounts <- MCAmountsOnChain
  MaxDay = 1
  MaxRequests = 2
  MaxUploads = 0
  MaxCrashes = 1
INVARIANTS
  CreditsAccounted
  HistoryOnChain
  NoRowsWithoutWorker
PROPERTIES
  HandlersEnd
  SignupSettled
CHECK_DEADLOCK FALSE
