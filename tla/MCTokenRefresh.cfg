CONSTANTS
  r1 = r1
  r2 = r2
  NoRequest = NoRequest
  Requests = {r1, r2}
  MaxGrant = 1
  MaxGen = 2
  MaxRetries = 1
  Faults = {"transient", "lost_answer", "cancel", "restart"}
SPECIFICATION FairSpec
INVARIANTS OneLeader
PROPERTIES NeverOlder CallersReturn
