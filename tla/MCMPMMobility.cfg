SPECIFICATION Spec
CONSTANTS
  NoIap = NoIap
  None = None
  w1 = w1
  w2 = w2
  g1 = g1
  g2 = g2
  Sessions = {s1}
  Iaps = {w1, w2}
  Wlans = {w1, w2}
  MmsIap = NoIap
  Rank <- MCRank
  Prefs <- MCPrefsSnap
  Usages = {"Automatic"}
  WlanManual = FALSE
  Errors = {"KErrCancel", "other"}
  Mobile = TRUE
  Disciplined = FALSE
  MaxScans = 2
INVARIANT RefusedStaysRefused
INVARIANT NodeAndTableAgree
INVARIANT WaitersAreOwed
PROPERTY IgnoredIsNotified
CHECK_DEADLOCK FALSE
