SPECIFICATION FairSpec
CONSTANTS
  l1 = l1  l2 = l2  h1 = h1  h2 = h2  p1 = p1  p2 = p2  n1 = n1
  None = None
  Logins = {l1, l2}
  ClaudeLogins = {l2}
  Handlers = {h1, h2}
  People = {p1, p2}
  Labels = {n1}
  Files <- SomeFiles
  Pasted <- ApiKey
  Mixed = FALSE
  MaxWrites = 2
INVARIANTS LoginOnce LoginStays OwnCredential OnePoll
PROPERTIES DialogEnds
CHECK_DEADLOCK FALSE
