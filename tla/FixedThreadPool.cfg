\* One caller, two workers and two calls of each size, with epochs that do not wrap.
SPECIFICATION FairSpec
CONSTANTS
  N = 3
  EpochMod = 4
  MaxCalls = 2
  SpawnMayFail = FALSE
  NoException = NoException
INVARIANTS
  TypeOK
  TaskAlive
  ExceptionNotRaced
  CountsPending
  NoLostWakeup
PROPERTIES
  ImplementsParallelRegion
  CallsEnd
  DestructionEnds
