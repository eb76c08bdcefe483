SPECIFICATION Spec
CONSTANTS
  t1 = t1
  t2 = t2
  w1 = w1
  w2 = w2
  NoTask = NoTask
  Tasks = {t1, t2}
  Registered = {t1, t2}
  Workers = {w1, w2}
  Cancellable = {}
  MaxRetries = 1
  CreationTimes = {0, 1}
  MaxFaults = 2
SYMMETRY WorkerSymmetry
INVARIANTS
  ExclusiveOwnership
  RetryBudget
  EventsAgree
PROPERTIES
  FinalAndEmbargoed
  ImplementsLedger
