CONSTANTS
  a1 = a1
  a2 = a2
  m1 = m1
  m2 = m2
  r1 = r1
  r2 = r2
  s1 = s1
  NoAccount = NoAccount
  NoAlias = NoAlias
  NoRequest = NoRequest
  Accounts = {a1, a2}
  Aliases = {m1}
  Asked = {m1}
  Sessions = {s1}
  Requests = {r1, r2}
  AccountsOf <- PoolOf
  Fallback <- PoolFallback
  Strategy <- Sticky
  Rank <- PoolRank
  Snapshots <- PoolSnapshots
  MaxAttempts = 2
  CircuitFailures = 0
  LockoutFailures = 0
  CircuitReset = 1
  LockoutTicks = 1
  StickyTTL = 1
  Cooldowns = {1}
  ChainLinks = 8
  CursorPeriod = 2
  MaxFails = 1
  DialDeadline = FALSE
SYMMETRY Symmetry
SPECIFICATION Spec
INVARIANTS AnsweredOrGone
