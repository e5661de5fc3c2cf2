SPECIFICATION Spec
CONSTANTS
  alice = alice
  k1 = k1
  k2 = k2
  k3 = k3
  Player <- Players
  Key <- PayoutKeys
  Owner <- PayoutOwner
  Spend <- PayoutSpend
  Day <- PayoutDay
  Request = {r1, r2}
  Worker = {w1, w2}
  Refundable = {k1}
  EventActive = {FALSE}
  MaxInteger = 2147483647
SYMMETRY Symmetric
INVARIANTS
  TypeOK
  UniqueRows
  RowsExplained
  RequestsBacked
  OnePendingPerPlayer
  BalanceReconciles
PROPERTIES
  HistoryIsFinal
  ImplementsAccount
CHECK_DEADLOCK FALSE
