----------------------------- MODULE MCSnapshots -----------------------------
\* Instances of Snapshots for TLC.
EXTENDS Snapshots, TLC

CONSTANTS e1, e2, s3, j1, j2, t3

\* Every row is of e1, except s3.
RowsOfExperiments == [s \in Snapshots |-> IF s = s3 THEN e2 ELSE e1]
RowsOfOne == [s \in Snapshots |-> e1]

\* Every task is of j1, except t3.
TasksOfJobs == [w \in Tasks |-> IF w = t3 THEN j2 ELSE j1]
=============================================================================
