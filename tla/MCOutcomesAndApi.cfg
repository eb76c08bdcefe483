SPECIFICATION ApiSpec
CONSTANTS
  d1 = d1
  d2 = d2
  r1 = r1
  r2 = r2
  p1 = p1
  p2 = p2
  a1 = a1
  a2 = a2
  NoArm = NoArm
  Nobody = Nobody
  Requests = {r1, r2}
  Participants = {p1, p2}
  Arms = {a1, a2}
  HistoryLimit = 1
  AlphaInit = 1
  BetaInit = 1
  MaxDeletes = 1
  Editors = {d1, d2}
  Dsns <- DsnsSubmitted
  TypeNames <- Names
  MaxKeys = 2
  MaxCommits = 2
  s1 = s1
  s2 = s2
  Servers = {s1, s2}
  Logins = {1, 2}
  Offset <- Offsets
  ProviderOffset = 1
  Lifetime = 4
  ClockSkew = 2
  MaxSessionKeys = 2
  MaxTime = 7
  Ids = {1, 2, 3}
  PageSizes = {1, 2}
  MaxSkip = 1
  MaxClock = 2
SYMMETRY Symmetry
INVARIANTS
  OutcomesAreCounted
  PosteriorBounded
  ExactWhenSerial
  ConfigInv
  SessionsInv
  PageInv
PROPERTIES
  OutcomeIsFinal
CHECK_DEADLOCK FALSE
