SPECIFICATION Spec
CONSTANTS
  Account = {alice}
  Key = {k1, k2}
  Request = {r1}
  Op <- AllOps
  Size = {1}
  LimitOf <- TwoLimits
  MaxStored = 1
  D1Fails = FALSE
  Nil = Nil
PROPERTY IssuedKeyWorks
