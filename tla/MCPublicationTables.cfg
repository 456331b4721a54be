SPECIFICATION Spec
CONSTANTS
  a1 = a1  a2 = a2  m1 = m1  m2 = m2  k1 = k1  o1 = o1  o2 = o2  g1 = g1
  None = None
  Accounts = {a1, a2}
  Models = {m1, m2}
  Keys = {k1}
  Codex = {a2}
  Offering = {a1}
  Gateways = {}
  Operators = {o1, o2}
  MinActive = 0
  SeedAccounts = {a1}
  SeedModel = m1
  SeedKey = k1
  Edits = {"create_accounts", "patch_account", "delete_account", "delete_provider", "create_models", "import_selection", "patch_model", "delete_model", "rename_model", "key", "mcp", "settings", "import"}
  MaxVersion = 3
  MaxCred = 1
INVARIANTS NothingLost SelfContained
CHECK_DEADLOCK FALSE
SYMMETRY Symmetry
