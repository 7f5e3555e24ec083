SPECIFICATION Spec
CONSTANTS
  a1 = a1
  a2 = a2
  Atts = {a1, a2}
  BonusEvery = 2
  RequiredExp <- MCRequiredExp
  Grants <- MCGrants
  Tick = 1545
  MaxMinutes = 3090
  MaxWrites = 5
  MaxGrants = 1
  MaxCrashes = 1
SYMMETRY Symmetry
INVARIANTS
  RewardedOnce
  StreakIsRun
  StreakDaysPaid
  BalanceInv
  ExperienceIsPaid
CHECK_DEADLOCK FALSE
