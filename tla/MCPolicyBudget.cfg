CONSTANTS
  k1 = k1
  k2 = k2
  t1 = t1
  NoTeam = NoTeam
  r1 = r1
  r2 = r2
  r3 = r3
  Keys = {k1, k2}
  Teams = {t1}
  Requests = {r1, r2}
  Paths = {"proxy", "mcp"}
  Snapshots <- BudgetSnapshots
  Minute = 2
  Day = 1
  DaysInMonth = 2
  Costs = {1}
  TokenCounts = {0}
  MaxNow = 3
  MaxLockWait = 0
SYMMETRY Symmetry
SPECIFICATION Spec
INVARIANTS TypeOK
PROPERTIES BudgetBlocks
