\* Epochs that wrap after two dispatches, and constructions that fail. A worker that
\* sleeps for a whole cycle, or a constructor that joins its workers, never goes on.
SPECIFICATION Spec
CHECK_DEADLOCK FALSE
CONSTANTS
  N = 3
  EpochMod = 2
  MaxCalls = 3
  SpawnMayFail = TRUE
  NoException = NoException
INVARIANT
  MissedOnlyByWrap
PROPERTIES
  ImplementsParallelRegion
  StrandedByFailedSpawn
