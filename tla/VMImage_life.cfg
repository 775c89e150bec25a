SPECIFICATION FairSpec
CONSTANTS
  u1 = u1
  u2 = u2
  URLs <- TwoURLs
  Sources <- WithAndWithoutURL
  MaxIncarnations = 2
  MaxDisturbances = 1
INVARIANTS TypeOK NothingLeftBehind NothingLeftUndone
PROPERTIES OutcomeIsFinal OutcomeReported ImageSettles
