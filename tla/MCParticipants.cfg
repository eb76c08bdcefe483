SPECIFICATION ParticipantsSpec
CONSTANTS
  r1 = r1
  r2 = r2
  p1 = p1
  p2 = p2
  a1 = a1
  a2 = a2
  NoArm = NoArm
  Nobody = Nobody
  Kinds = {"freq_online", "freq_preassigned", "bandit"}
  MaxTime = 1
  MaxDeletions = 1
  MaxFaults = 1
  Calls = {r1, r2}
  Participants = {p1, p2}
  Arms = {a1, a2}
  MaxValue = 1
  MaxRows = 4
  NArms = 3
  Weightings <- Weights
  Clusters = {"k1", "k2"}
  ContextIds = {1, 2, 3}
  MaxContexts = 2
  Drawn = {c1, c2}
  MaxContextValue = 2
  TurnRequests = {q1, q2}
  Tokens = {t1, t2}
  Experiments = {e1, e2}
  None = None
SYMMETRY Symmetry
INVARIANTS
  AnswersAgree
  StatsNeverOvercount
  FiltersInv
  DrawsInv
  ContextsInv
  TurnInv
PROPERTIES
  AssignmentIsStable
CHECK_DEADLOCK FALSE
