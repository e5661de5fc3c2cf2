SPECIFICATION Spec
CONSTANTS
  Key = {k1}
  Role <- Roles
  Process = {p1, p2}
  Hours <- AskedHours
  Hour = 2
  MaxLife = 4
  Width = 16
  Minute = 1
  MaxClock = 3
SYMMETRY Symmetric
INVARIANTS TypeOK HttpKeysExpire ExpiryAsAsked ServedWasValid
CHECK_DEADLOCK FALSE
