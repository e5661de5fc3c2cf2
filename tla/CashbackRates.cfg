SPECIFICATION Spec
CONSTANTS
  alice = alice
  k1 = k1
  k2 = k2
  k3 = k3
  Player <- Players
  Key <- RateKeys
  Owner <- RateOwner
  Spend <- RateSpend
  Day <- RateDay
  Request = {}
  Worker = {w1, w2}
  Refundable = {}
  EventActive = {FALSE}
  MaxInteger = 999
SYMMETRY Symmetric
INVARIANTS
  
  FirstBonusAtMostOnce
  NoEarnedBonusLost
  CreatedMeansAccrued
CHECK_DEADLOCK FALSE
