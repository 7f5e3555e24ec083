SPECIFICATION Spec
CONSTANTS
  w1 = w1
  w2 = w2
  e1 = e1
  e2 = e2
  m1 = m1
  m2 = m2
  Workers = {w1, w2}
  Events = {e1, e2}
  Months = {m1, m2}
  Roster <- MCRoster
  Pays = {100000, 150640}
  Offers <- MCOffers
  Shifts = {90}
  Amounts = {300000}
  Budgets <- MCBudgets
  MaxChanges = 1
INVARIANT BatchCoversEveryone
CHECK_DEADLOCK FALSE
