SPECIFICATION Spec
CONSTANTS
  User = {u1, u2}
  Session = {s1, s2}
  Email = {m1, m2}
  Process = {p1, p2}
  MaxChanges = 1
  MaxClock = 1
  Lifetime = 1
SYMMETRY Symmetric
INVARIANTS TypeOK OldSessionsOnlyByRace ServedWasLive
CHECK_DEADLOCK FALSE
