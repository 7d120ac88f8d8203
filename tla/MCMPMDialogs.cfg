SPECIFICATION Spec
SYMMETRY Symmetry
CONSTANTS
  NoIap = NoIap
  None = None
  w1 = w1
  w2 = w2
  g1 = g1
  g2 = g2
  Sessions = {s1, s2}
  Iaps = {w1, g1, g2}
  Wlans = {w1}
  MmsIap = g2
  Rank <- MCRank
  Prefs <- MCPrefsAll
  Usages = {"Confirm", "Disabled"}
  WlanManual = FALSE
  Errors = {}
  Mobile = TRUE
  Disciplined = TRUE
  MaxScans = 1
INVARIANT DialogsMatch
INVARIANT ServerSurvives
PROPERTY CellularNeedsConsent
CONSTRAINT TwoClients
CHECK_DEADLOCK FALSE
