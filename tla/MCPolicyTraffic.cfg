CONSTANTS
  k1 = k1
  t1 = t1
  NoTeam = NoTeam
  r1 = r1
  r2 = r2
  r3 = r3
  Keys = {k1}
  Teams = {t1}
  Requests = {r1, r2}
  Paths = {"proxy"}
  Snapshots <- TrafficSnapshots
  Minute = 2
  Day = 4
  DaysInMonth = 2
  Costs = {0}
  TokenCounts = {0, 2}
  MaxNow = 4
  MaxLockWait = 1
SYMMETRY Symmetry
SPECIFICATION Spec
INVARIANTS SlotsAccounted RateBound
PROPERTIES CapHeld
