SPECIFICATION FairSpec
CONSTANTS
  Key = {k1, k2}
  Worker = {w1, w2}
  NoKey = NoKey
  MaxAdders = 2
  MaxFailures = 1
  MaxTimers = 1
INVARIANTS
  QueueIsDirtyIdle
  OneWorkerPerKey
  NoLostWakeup
PROPERTIES
  EveryAddIsReconciled
