SPECIFICATION Spec
CONSTANTS
  Outfit = {o1}
  Handler = {h1, h2}
  Player = {p1}
  Name = {n1}
  Slot = {}
  Update = {"patch", "delete"}
  Listing = TRUE
  MaxRevision = 2
  MaxViews = 0
  MaxVersion = 1
  NoName = NoName
SYMMETRY Symmetric
INVARIANTS
  NoStaleRead
CHECK_DEADLOCK FALSE
