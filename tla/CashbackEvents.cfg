\* Two events that may overlap, edited by two dashboard requests.
SPECIFICATION Spec
CONSTANTS
  Event = {e1, e2}
  NoEvent = NoEvent
  Editor = {w1, w2}
  Asked <- Windows
  MaxTime = 3
  MaxClock = 2
  MaxSales = 1
SYMMETRY Symmetric
INVARIANTS TypeOK BonusesExplained NoBonusMissed
PROPERTY PastKept
CHECK_DEADLOCK FALSE
