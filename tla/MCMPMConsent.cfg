SPECIFICATION FairSpec
CONSTANTS
  NoIap = NoIap
  None = None
  w1 = w1
  w2 = w2
  g1 = g1
  g2 = g2
  Sessions = {s1}
  Iaps = {w1, g1}
  Wlans = {w1}
  MmsIap = NoIap
  Rank <- MCRank
  Prefs <- MCPrefsSnap
  Usages = {"Confirm", "Automatic"}
  WlanManual = FALSE
  Errors = {"KErrCancel", "other", "terminated"}
  Mobile = TRUE
  Disciplined = TRUE
  MaxScans = 1
INVARIANT TypeOK
PROPERTY RequestsComplete
PROPERTY ResponseIsAnswered
CHECK_DEADLOCK FALSE
