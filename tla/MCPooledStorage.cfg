\* Two calls over a pool of one reader; symmetry would be unsound for liveness.
CONSTANTS
  Calls = {c1, c2}
  ReaderSlots = 1
  Threads = {c1, c2}
  Size = 1
SPECIFICATION FairSpec
INVARIANTS
  ReadersConserved
  WriterUncontended
  NoLostWakeup
PROPERTIES
  RefusedNeverRan
  ImplementsAdmission
  ImplementsPool
  IdleIsFinal
  QueueAnswers
  CloseDrains
  ShutdownEnds
