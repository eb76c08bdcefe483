SPECIFICATION WaitersSpec
CONSTANTS
  NoArm = NoArm
  Nobody = Nobody
  Kinds = {"freq_online", "bandit"}
  MaxTime = 0
  MaxDeletions = 1
  MaxFaults = 1
  Calls = {r1, r2}
  Participants = {p1, p2}
  Arms = {a1}
  Callers = {c1, c2, c3}
INVARIANTS
  OpenIdInv
PROPERTIES
  EverythingEnds
  WaitersAreAnswered
