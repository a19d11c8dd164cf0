SPECIFICATION Spec
CONSTANTS
  Account = {alice, bob, carol}
  Team = {t1}
  Request = {r1}
  Ops <- AllOps
  NoAccount = NoAccount
SYMMETRY Symmetry
INVARIANT TeamHasAdmin
