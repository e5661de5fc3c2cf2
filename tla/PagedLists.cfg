SPECIFICATION Spec
CONSTANTS
  Outfit = {1, 2, 3}
  Template = {1, 2}
  Transaction = {1, 2, 3}
  Entry = {1, 2, 3}
  Redeem = {1, 2}
  Player = {1, 2}
  Existing = {1, 3}
  FirstRig = 1
  References <- SomeReferences
  DefaultPageSize = 1
  MaxPageSize = 2
  Asked = {0, 3}
  MaxBatch = 2
  MaxClock = 1
  MaxLag = 1
  MaxWrites <- WritesByArea
INVARIANTS
  TypeOK
  PagesAddUp
  ResolveAnswersAll
  RigsKept
CHECK_DEADLOCK FALSE
