SPECIFICATION FairSpec
CONSTANTS
  t1 = t1
  t2 = t2
  w1 = w1
  w2 = w2
  NoTask = NoTask
  Tasks = {t1, t2}
  Registered = {t1}
  Workers = {w1, w2}
  Cancellable = {w2}
  MaxRetries = 1
  CreationTimes = {0, 1}
  MaxFaults = 1
INVARIANTS
  NoLostWakeup
  GracefulStop
PROPERTIES
  Settles
