SPECIFICATION Spec
CONSTANTS
  r1 = r1
  r2 = r2
  p1 = p1
  p2 = p2
  a1 = a1
  NoArm = NoArm
  Nobody = Nobody
  Kinds = {"freq_online"}
  MaxTime = 1
  MaxDeletions = 1
  MaxFaults = 1
  Calls = {r1, r2}
  Participants = {p1, p2}
  Arms = {a1}
SYMMETRY Symmetry
INVARIANTS
  StatsExact
