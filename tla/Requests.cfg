SPECIFICATION MCSpec
CONSTANTS
  Call = {c1, c2}
  Key = {key1}
  NoKey = NoKey
  NoRow = NoRow
  MaxAttempts = 2
  Limit = 2
  Window = 2
  PruneInterval = 1
  TTL = 1
  MaxTime = 2
  MaxInFlight = 2
SYMMETRY Symmetric
INVARIANTS
  TypeOK
  AnswersAreTrue
  SecondRowHasReason
  LessThanTwiceTheLimit
CHECK_DEADLOCK FALSE
