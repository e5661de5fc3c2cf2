SPECIFICATION Spec
CONSTANTS
  alice = alice
  k1 = k1
  k2 = k2
  k3 = k3
  Player <- Players
  Key <- SingleKey
  Owner <- SingleOwner
  Spend <- SingleSpend
  Day <- SingleDay
  Request = {r1, r2}
  Worker = {w1, w2}
  Refundable = {k1}
  EventActive = {FALSE}
  MaxInteger = 2147483647
INVARIANTS
  SameBalanceNotClaimedTwice
CHECK_DEADLOCK FALSE
