SPECIFICATION Spec
CONSTANTS
  Account = {alice}
  Key = {k1, k2, k3}
  Request = {r1, r2, r3}
  Op <- NoKeyOps
  Size = {1, 2}
  LimitOf <- TwoLimits
  MaxStored = 9
  D1Fails = FALSE
  Nil = Nil
SYMMETRY Symmetry
INVARIANT OvershootIsBounded
