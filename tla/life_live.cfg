SPECIFICATION FairSpec
CONSTANTS
  e1 = e1
  w1 = w1
  w2 = w2
  a1 = a1
  a2 = a2
  Events = {e1}
  Workers = {w1}
  AppIds = {a1}
  Decisions = {"CONFIRMED"}
  MaxTime = 2
  MaxCrashes = 1
PROPERTIES
  HandlersReturn
  RowsGetTx
