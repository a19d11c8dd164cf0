SPECIFICATION Spec
CONSTANTS
  Account = {alice, bob}
  Key = {k1, k2, k3}
  Request = {r1, r2}
  Op <- AllOps
  Size = {1}
  LimitOf <- TwoLimits
  MaxStored = 2
  D1Fails = TRUE
  Nil = Nil
SYMMETRY Symmetry
INVARIANTS TypeOK RetiredKeysStayDead UsageAccountsForStorage
PROPERTY RowsSurvive
