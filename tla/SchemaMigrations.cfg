SPECIFICATION FairSpec
CONSTANTS
  Process = {p1, p2}
  Release = {"first", "next"}
  Content = {"a", "b", "edited b", "c"}
  None = None
  Files <- Builds
  NoTx = {2}
  MaxBroken = 2
INVARIANTS TypeOK RunsAccountedFor RecordIsTrue
PROPERTIES BuiltInOrder EveryRunEnds
CHECK_DEADLOCK FALSE
