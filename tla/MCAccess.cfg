CONSTANTS
  NoUser = NoUser
  NoFlow = NoFlow
  Direct = Direct
  Users = {"u1"}
  Browsers = {"b1"}
  Flows = {"f1", "f2"}
  EnvEdition = "unset"
  Lists <- TwoLists
  Width = 2
  MaxInstalls = 2
SPECIFICATION FairSpec
INVARIANTS LicenseTakes VerifiedOnly RangeIsPrefix
PROPERTIES AuthorityEnds
