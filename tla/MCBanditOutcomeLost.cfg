SPECIFICATION Spec
CONSTANTS
  r1 = r1
  r2 = r2
  p1 = p1
  p2 = p2
  a1 = a1
  NoArm = NoArm
  Nobody = Nobody
  Requests = {r1, r2}
  Participants = {p1, p2}
  Arms = {a1}
  HistoryLimit = 1
  AlphaInit = 1
  BetaInit = 1
  MaxDeletes = 0
SYMMETRY Symmetry
INVARIANTS
  PosteriorExact
