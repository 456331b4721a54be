CONSTANTS
  k1 = k1
  k2 = k2
  c1 = c1
  c2 = c2
  Keys = {k1, k2}
  Callers = {c1, c2}
  Credits = 2
  MaxWindow = 1
  Others = TRUE
SPECIFICATION FairSpec
INVARIANTS TypeOK OneActive OncePerKey
PROPERTIES SettledStays AnsweredSendsNoMore PendingEnds
