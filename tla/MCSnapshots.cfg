SPECIFICATION FairSpec
CONSTANTS
  e1 = e1
  s1 = s1
  s2 = s2
  s3 = s3
  j1 = j1
  j2 = j2
  t1 = t1
  t3 = t3
  NoSnapshot = NoSnapshot
  Interval = 2
  MaxTime = 1
  MaxFaults = 1
  MaxRequests = 1
  MaxDeletions = 1
  e2 = e2
  Experiments = {e1}
  Snapshots = {s1, s2, s3}
  Jobs = {j1, j2}
  Tasks = {t1, t3}
  Of <- RowsOfOne
  JobOf <- TasksOfJobs
  Committed = {e1}
INVARIANTS
  HeldByOne
  NoOrphanSnapshots
PROPERTIES
  SnapshotsAreFinal
  Settles
  Collected
