CONSTANTS
  u1 = u1
  u2 = u2
  e1 = e1
  k1 = k1
  Keys = {k1}
  NoUser = NoUser
  Users = {u1, u2}
  Handlers = {"h1", "h2"}
  Payments = {"p1"}
  Events = {e1}
  PayerOf <- OnePayer
  KeyOf <- OneKey
  Bonus = 1
  Topup = 2
  Cost = 2
  Adjustments <- Give
  MaxAdjust = 1
  MaxMoves = 2
  Capacity = 1
  BatchSize = 1
SPECIFICATION FairSpec
INVARIANTS
  NeverShort
  CreditedOnce
PROPERTIES
  Settles
