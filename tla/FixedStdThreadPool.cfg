\* Three calls of any size on three workers, with ids of a single bit.
SPECIFICATION FairSpec
CONSTANTS
  N = 3
  IdMod = 2
  MaxCalls = 3
  NoTask = NoTask
  NoException = NoException
INVARIANTS
  CountsUnreported
  JobIsCurrent
  NoLostWakeup
PROPERTIES
  ImplementsParallelRegion
  CallsEnd
  DestructionEnds
