SPECIFICATION Spec
CONSTANTS
  Outfit = {o1}
  Handler = {h1, h2}
  Player = {p1, p2}
  Name = {n1}
  Slot = {s1}
  Update = {"items", "delete", "like", "unlike", "view"}
  Listing = FALSE
  MaxRevision = 3
  MaxViews = 1
  MaxVersion = 0
  NoName = NoName
SYMMETRY Symmetric
INVARIANTS
  TypeOK
  CountersMatchLog
PROPERTIES
  DeletedForGood
CHECK_DEADLOCK FALSE
