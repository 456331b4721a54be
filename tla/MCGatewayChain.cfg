CONSTANTS
  a1 = a1
  a2 = a2
  m1 = m1
  m2 = m2
  r1 = r1
  r2 = r2
  s1 = s1
  NoAccount = NoAccount
  NoAlias = NoAlias
  NoRequest = NoRequest
  Accounts = {a1}
  Aliases = {m1, m2}
  Asked = {m1}
  Sessions = {s1}
  Requests = {r1, r2}
  AccountsOf <- SoloOf
  Fallback <- SoloFallback
  Strategy <- SoloStrategy
  Rank <- NoRank
  Snapshots <- SoloSnapshots
  MaxAttempts = 2
  CircuitFailures = 2
  LockoutFailures = 1
  CircuitReset = 2
  LockoutTicks = 1
  StickyTTL = 0
  Cooldowns = {1}
  ChainLinks = 8
  CursorPeriod = 1
  MaxFails = 2
  DialDeadline = TRUE
SPECIFICATION FairSpec
INVARIANTS NoRetryAfterCommit AnsweredOrCut TrippedIsOpen
PROPERTIES RequestsEnd AccountsReturn
