SPECIFICATION FairSpec
CONSTANTS
  a1 = a1  a2 = a2  m1 = m1  m2 = m2  k1 = k1  o1 = o1  o2 = o2  g1 = g1
  None = None
  Accounts = {a1, a2}
  Models = {m1}
  Keys = {k1}
  Codex = {a2}
  Offering = {}
  Gateways = {g1}
  Operators = {o1}
  MinActive = 1
  SeedAccounts = {a1}
  SeedModel = m1
  SeedKey = k1
  Edits = {"settings", "delete_account", "mcp"}
  MaxVersion = 3
  MaxCred = 2
PROPERTIES ImplementsRollout RevisionsNeverGoBack Converges
CHECK_DEADLOCK FALSE
